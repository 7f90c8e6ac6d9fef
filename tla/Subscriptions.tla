---------------------------- MODULE Subscriptions ----------------------------
(***************************************************************************)
(* What a seat is subscribed to, in the five places that hold a part of    *)
(* it: the realm's rows, the adapter's listening state (zulip/adapter.ts   *)
(* inbox.subscribe and unsubscribe), the plugin's narrow set               *)
(* (mcp/narrow-set.ts), the persisted topic record                         *)
(* (mcp/subscription-store.ts) and the rebuild that puts them together     *)
(* again at boot (mcp/subscription-restore.ts).                            *)
(*                                                                         *)
(* A row is per channel, so anything narrower lives in the narrow set, and *)
(* across a restart in the record.  Every HTTP call is a step of its own,  *)
(* and the rebuild runs beside the tool calls: it declares what it found   *)
(* through the same adapter code, as the caller Rebuilder.                 *)
(***************************************************************************)
EXTENDS Integers, Sequences, FiniteSets, SequencesExt

CONSTANTS
  Channels,
  Topics,       \* threads, named alike in every channel
  Calls,        \* tool calls in flight at once
  Faults,       \* what may fail: a subset of the five below
  MaxJournal,   \* bound: deltas journaled while the rebuild loads
  MaxLives      \* bound: process starts

ASSUME SubscriptionsAssumption ==
  /\ "whole" \notin Topics /\ "new-topics" \notin Topics
  /\ Faults \subseteq {"bind", "post", "delete", "register", "ask"}
  /\ "rebuild" \notin Calls
  /\ MaxJournal \in Nat /\ MaxLives \in Nat

Intents == [channel : Channels, what : Topics \cup {"whole", "new-topics"}]
Rebuilder == "rebuild"
Callers == Calls \cup {Rebuilder}

VARIABLES
  rows,      \* the realm: channels the seat has a subscription row for
  held,      \* the adapter: heldNarrows and newTopicsChannels
  queue,     \* the adapter: "none" or "registered"
  seat,      \* "unbound" or "bound"
  narrows,   \* the narrow set
  journal,   \* its pending deltas, while `recording`
  record,    \* the persisted topic intents
  recorded,  \* "some" once a record was written for this seat
  rebuild,   \* "parked", "asking", "loading", "declaring", "done"
  found,     \* what the rebuild has read: the record, then the rows
  todo,      \* what it still has to declare
  call,      \* each caller's subscribe or unsubscribe
  \* history: what completed calls amount to, whether one was torn, the channels
  \* in which calls met, the lives
  asked, torn, met, lives

realm == <<rows, held, queue, seat>>
local == <<narrows, journal>>
disk == <<record, recorded>>
boot == <<rebuild, found, todo>>
ghosts == <<asked, torn, met, lives>>
vars == <<rows, held, queue, seat, narrows, journal, record, recorded,
          rebuild, found, todo, call, asked, torn, met, lives>>

NoIntent == [channel |-> "none", what |-> "whole"]
Idle == [pc |-> "free", op |-> "none", intent |-> NoIntent, undo |-> "keep"]
Nothing == [record |-> {}, rows |-> {}]

-----------------------------------------------------------------------------
(* Sets of intents *)

In(ch, S) == {i \in S : i.channel = ch}
ChannelsOf(S) == {i.channel : i \in S}

\* withoutIntent: leaving a channel leaves every topic in it too.
Without(S, i) == IF i.what = "whole" THEN S \ In(i.channel, S) ELSE S \ {i}
Applied(S, op, i) == IF op = "add" THEN S \cup {i} ELSE Without(S, i)

\* What the record keeps: topic intents, in channels not also held whole.
TopicLevel(S) ==
  {i \in S : i.what # "whole" /\ [channel |-> i.channel, what |-> "whole"] \notin S}

\* Every channel of the realm is heard whole, unless topic intents name it.
CombineWithRealm(chs, topicIntents) ==
  {[channel |-> ch, what |-> "whole"] : ch \in chs \ ChannelsOf(topicIntents)}
    \cup topicIntents

StreamIsListening(ch, S) == In(ch, S) # {}

\* The record of a seat: none at all until the first write, and each write
\* replaces the one before, a larger one too.
HasRecord == recorded = "some"
WriteRecord == record' = TopicLevel(narrows) /\ recorded' = "some"

-----------------------------------------------------------------------------
(* The narrow set *)

Recording == rebuild \in {"parked", "asking", "loading"}

\* add and remove: at once, and journaled for the base still to come.
Narrow(op, i) ==
  /\ narrows' = Applied(narrows, op, i)
  /\ journal' = IF Recording THEN Append(journal, [op |-> op, intent |-> i]) ELSE journal

\* Mistaken variant: the base replaces what happened meanwhile.
Load_Clobbers(base) ==
  /\ narrows' = base
  /\ journal' = <<>>

\* The journaled deltas, replayed in arrival order: an intent is held if it was
\* added, or is in the base, and no removal comes after.
Removes(delta, i) == delta.op = "remove" /\ i \notin Without({i}, delta.intent)

Replayed(base) ==
  {i \in Intents :
     \E n \in 0 .. Len(journal) :
       /\ IF n = 0 THEN i \in base ELSE journal[n] = [op |-> "add", intent |-> i]
       /\ \A m \in n + 1 .. Len(journal) : ~Removes(journal[m], i)}

\* load: the base takes the place of what was held, and the journal ends.
Load(base) ==
  /\ narrows' = Replayed(base)
  /\ journal' = <<>>

Init ==
  /\ rows = {} /\ held = {} /\ queue = "none"
  /\ seat \in {"unbound", "bound"}
  /\ narrows = {} /\ journal = <<>>
  /\ record = {} /\ recorded = "none"
  /\ rebuild = "parked" /\ found = Nothing /\ todo = {}
  /\ call = [c \in Callers |-> Idle]
  /\ asked = {} /\ torn = "no" /\ met = {} /\ lives = 1

-----------------------------------------------------------------------------
(* Subscribing and unsubscribing *)

At(c, where) == call[c].pc = where
Goes(c, where) == call' = [call EXCEPT ![c].pc = where]
Ends(c) == call' = [call EXCEPT ![c] = Idle]

MayStart(c) ==
  /\ c \in Calls /\ At(c, "free")
  /\ rebuild = "done" \/ Len(journal) < MaxJournal

\* A call meets another in its channel, or the rebuild; only the subscribe of a
\* whole channel agrees with whatever the rebuild makes of the channel.
Meets(c, i, harmless) ==
  met' = IF \/ rebuild # "done" /\ ~harmless
            \/ \E d \in Calls \ {c} : ~At(d, "free") /\ call[d].intent.channel = i.channel
           THEN met \cup {i.channel} ELSE met

\* The subscribe tool: the narrow first, so that no event comes before it.
StartSubscribe(c, i) ==
  /\ MayStart(c)
  /\ Narrow("add", i)
  /\ call' = [call EXCEPT ![c] =
       [pc |-> "bind", op |-> "subscribe", intent |-> i,
        undo |-> IF i \in narrows THEN "keep" ELSE "undo"]]
  /\ Meets(c, i, i.what = "whole")
  /\ UNCHANGED <<realm, disk, boot, asked, torn, lives>>

\* inbox.subscribe: bind, record the narrow, and call the realm only when the
\* channel was not listened to.
AdapterSubscribes(c) ==
  /\ At(c, "bind") /\ call[c].op \in {"subscribe", "declare"}
  /\ seat' = "bound"
  /\ held' = held \cup {call[c].intent}
  /\ Goes(c, IF StreamIsListening(call[c].intent.channel, held) THEN "register" ELSE "post")
  /\ UNCHANGED <<rows, queue, local, disk, boot, ghosts>>

PostAnswered(c) ==
  /\ At(c, "post")
  /\ rows' = rows \cup {call[c].intent.channel}
  /\ Goes(c, "register")
  /\ UNCHANGED <<held, queue, seat, local, disk, boot, ghosts>>

\* ensureQueueRegistered
QueueReady(c) ==
  /\ At(c, "register")
  /\ queue' = "registered"
  /\ IF c = Rebuilder THEN Ends(c) ELSE Goes(c, "persist")
  /\ UNCHANGED <<rows, held, seat, local, disk, boot, ghosts>>

\* Taking a narrow back takes what an earlier subscribe holds: the topics of a
\* whole channel, or the narrow itself; also what the rebuild is still to bring,
\* since the removal is journaled.
TakesMore(c) ==
  /\ call[c].undo = "undo"
  /\ LET earlier == (narrows \ {call[c].intent}) \cup asked
     IN Without(earlier, call[c].intent) # earlier

Blames(what) == torn' = IF torn = "refused" THEN torn ELSE what

\* A refused subscribe takes the narrow back out of the narrow set; a refused
\* declaration ends the rebuild, which opens the gate for the record.
Refused(c) ==
  /\ Ends(c)
  /\ IF c = Rebuilder
       THEN rebuild' = "done" /\ todo' = {} /\ UNCHANGED <<local, found>>
       ELSE IF call[c].undo = "undo"
         THEN Narrow("remove", call[c].intent) /\ UNCHANGED boot
         ELSE UNCHANGED <<local, boot>>

\* The answer may be lost after the realm has acted.
PostFails(c) ==
  /\ "post" \in Faults /\ At(c, "post")
  /\ rows' \in {rows, rows \cup {call[c].intent.channel}}
  /\ Refused(c)
  /\ Blames(IF c = Rebuilder \/ TakesMore(c) \/ call[c].intent.channel \notin rows'
             THEN "refused" ELSE "yes")
  /\ UNCHANGED <<held, queue, seat, disk, asked, met, lives>>

\* No identity can be bound: nothing was recorded, nothing was called.  A
\* session that holds its identity is not asked to acquire it again.
BindFails(c) ==
  /\ "bind" \in Faults /\ At(c, "bind") /\ seat = "unbound"
  /\ IF call[c].op = "unsubscribe"
       THEN Ends(c) /\ Blames("yes") /\ UNCHANGED <<local, boot>>
       ELSE /\ Refused(c)
            /\ IF c = Rebuilder \/ TakesMore(c) THEN Blames("refused") ELSE UNCHANGED torn
  /\ UNCHANGED <<realm, disk, asked, met, lives>>

RegisterFails(c) ==
  /\ "register" \in Faults /\ At(c, "register") /\ queue = "none"
  /\ Refused(c)
  /\ Blames(IF c = Rebuilder \/ TakesMore(c) THEN "refused" ELSE "yes")
  /\ UNCHANGED <<realm, disk, asked, met, lives>>

\* The unsubscribe tool.
StartUnsubscribe(c, i) ==
  /\ MayStart(c)
  /\ Narrow("remove", i)
  /\ call' = [call EXCEPT ![c] =
       [pc |-> "bind", op |-> "unsubscribe", intent |-> i, undo |-> "keep"]]
  /\ asked' = Without(asked, i)
  /\ Meets(c, i, FALSE)
  /\ UNCHANGED <<realm, disk, boot, torn, lives>>

\* Mistaken variant: leaving a channel keeps the topics held in it.
AdapterUnsubscribes_KeepsTopics(c) ==
  /\ At(c, "bind") /\ call[c].op = "unsubscribe"
  /\ seat' = "bound"
  /\ held' = held \ {call[c].intent}
  /\ Goes(c, IF StreamIsListening(call[c].intent.channel, held') THEN "persist" ELSE "delete")
  /\ UNCHANGED <<rows, queue, local, disk, boot, ghosts>>

\* inbox.unsubscribe: the row goes with the last narrow in its channel.
AdapterUnsubscribes(c) ==
  /\ At(c, "bind") /\ call[c].op = "unsubscribe"
  /\ seat' = "bound"
  /\ held' = Without(held, call[c].intent)
  /\ Goes(c, IF StreamIsListening(call[c].intent.channel, held') THEN "persist" ELSE "delete")
  /\ UNCHANGED <<rows, queue, local, disk, boot, ghosts>>

DeleteAnswered(c) ==
  /\ At(c, "delete")
  /\ rows' = rows \ {call[c].intent.channel}
  /\ Goes(c, "persist")
  /\ UNCHANGED <<held, queue, seat, local, disk, boot, ghosts>>

DeleteFails(c) ==
  /\ "delete" \in Faults /\ At(c, "delete")
  /\ rows' \in {rows, rows \ {call[c].intent.channel}}
  /\ Ends(c)
  /\ Blames("yes")
  /\ UNCHANGED <<held, queue, seat, local, disk, boot, asked, met, lives>>

\* Mistaken variant: the record is written while the rebuild still runs.
Persist_AtOnce(c) ==
  /\ At(c, "persist")
  /\ WriteRecord
  /\ asked' = IF call[c].op = "subscribe" THEN asked \cup {call[c].intent} ELSE asked
  /\ Ends(c)
  /\ UNCHANGED <<realm, local, boot, torn, met, lives>>

\* persistSubscriptions, once the rebuild is over; then the call resolves.
Persist(c) ==
  /\ At(c, "persist") /\ rebuild = "done"
  /\ WriteRecord
  /\ asked' = IF call[c].op = "subscribe" THEN asked \cup {call[c].intent} ELSE asked
  /\ Ends(c)
  /\ UNCHANGED <<realm, local, boot, torn, met, lives>>

-----------------------------------------------------------------------------
(* The rebuild *)

\* The record is read; a seat without one that is not bound has no rows.
RebuildReads ==
  /\ rebuild = "parked"
  /\ IF ~HasRecord /\ seat = "unbound"
       THEN /\ Load(narrows) /\ rebuild' = "done"
            /\ UNCHANGED <<found, seat>>
       ELSE /\ rebuild' = "asking" /\ seat' = "bound"
            /\ found' = [record |-> record, rows |-> {}]
            /\ UNCHANGED local
  /\ UNCHANGED <<rows, held, queue, disk, todo, call, ghosts>>

\* inbox.subscriptions(), as the realm answers it.
RealmAnswers ==
  /\ rebuild = "asking"
  /\ rebuild' = "loading"
  /\ found' = [found EXCEPT !.rows = rows]
  /\ UNCHANGED <<realm, local, disk, todo, call, ghosts>>

\* applyRestored: load, then declare what this process has not declared yet.
RebuildLoads ==
  /\ rebuild = "loading"
  /\ LET base == CombineWithRealm(found.rows, TopicLevel(found.record) \cup TopicLevel(narrows))
     IN  Load(base) /\ todo' = base \ narrows
  /\ rebuild' = "declaring" /\ found' = Nothing
  /\ UNCHANGED <<realm, disk, call, ghosts>>

\* The realm cannot be asked: the narrow set is loaded without a base.
RebuildFails ==
  /\ "ask" \in Faults /\ rebuild = "asking"
  /\ Load(narrows)
  /\ rebuild' = "done" /\ found' = Nothing
  /\ Blames("refused")
  /\ UNCHANGED <<realm, disk, todo, call, asked, met, lives>>

DeclareNext ==
  /\ rebuild = "declaring" /\ At(Rebuilder, "free")
  /\ \E i \in todo :
       /\ todo' = todo \ {i}
       /\ call' = [call EXCEPT ![Rebuilder] =
            [pc |-> "bind", op |-> "declare", intent |-> i, undo |-> "keep"]]
  /\ UNCHANGED <<realm, local, disk, rebuild, found, ghosts>>

RebuildDone ==
  /\ rebuild = "declaring" /\ todo = {} /\ At(Rebuilder, "free")
  /\ rebuild' = "done"
  /\ UNCHANGED <<realm, local, disk, found, todo, call, ghosts>>

\* The process dies and is started again; the realm and the record survive.
Restart ==
  /\ lives < MaxLives
  /\ lives' = lives + 1
  /\ held' = {} /\ queue' = "none" /\ seat' \in {"unbound", "bound"}
  /\ narrows' = {} /\ journal' = <<>>
  /\ rebuild' = "parked" /\ found' = Nothing /\ todo' = {}
  /\ call' = [c \in Callers |-> Idle]
  /\ IF \A c \in Calls : At(c, "free") THEN UNCHANGED torn ELSE Blames("yes")
  /\ UNCHANGED <<rows, disk, asked, met>>

-----------------------------------------------------------------------------
Step(c) ==
  \/ BindFails(c) \/ AdapterSubscribes(c) \/ PostAnswered(c) \/ PostFails(c)
  \/ QueueReady(c) \/ RegisterFails(c)
  \/ AdapterUnsubscribes(c) \/ DeleteAnswered(c) \/ DeleteFails(c)
  \/ Persist(c)

Rebuild ==
  \/ RebuildReads \/ RealmAnswers \/ RebuildLoads \/ RebuildFails
  \/ DeclareNext \/ RebuildDone

Next ==
  \/ \E c \in Calls, i \in Intents : StartSubscribe(c, i) \/ StartUnsubscribe(c, i)
  \/ \E c \in Callers : Step(c)
  \/ Rebuild
  \/ Restart

Spec == Init /\ [][Next]_vars

\* Every HTTP call is answered or fails, and the rebuild is forked at boot.
FairSpec == Spec /\ WF_vars(Rebuild) /\ \A c \in Callers : WF_vars(Step(c))

-----------------------------------------------------------------------------
(* Properties *)

TypeOK ==
  /\ rows \subseteq Channels /\ held \subseteq Intents
  /\ queue \in {"none", "registered"} /\ seat \in {"unbound", "bound"}
  /\ narrows \subseteq Intents /\ record \subseteq Intents
  /\ journal \in Seq([op : {"add", "remove"}, intent : Intents]) /\ Len(journal) <= MaxJournal + Cardinality(Calls)
  /\ recorded \in {"none", "some"}
  /\ rebuild \in {"parked", "asking", "loading", "declaring", "done"}
  /\ found.record \subseteq Intents /\ found.rows \subseteq Channels
  /\ todo \subseteq Intents
  /\ \A c \in Callers :
       /\ call[c].pc \in {"free", "bind", "post", "register", "delete", "persist"}
       /\ call[c].op \in {"none", "subscribe", "unsubscribe", "declare"}
       /\ call[c].intent \in Intents \cup {NoIntent}
  /\ asked \subseteq Intents /\ torn \in {"no", "yes", "refused"} /\ lives \in 0 .. MaxLives

AtRest == rebuild = "done" /\ \A c \in Callers : At(c, "free")

\* Which messages pass a set of intents: of a topic, or the first of a topic.
Heard(S) ==
  {m \in [channel : Channels, of : Topics \cup {"new-topics"}] :
     \E i \in S : i.channel = m.channel /\ i.what \in {m.of, "whole"}}

\* What a set of intents has to say of channels in which no calls met.
Apart(S) == {i \in S : i.channel \notin met}

\* Whatever a resolved subscribe asked for keeps reaching the seat, across
\* crashes and rebuilds and whatever goes on in other channels: the realm has
\* the row and the narrow set lets it pass.
StillHeard(S) == ChannelsOf(S) \subseteq rows /\ Heard(S) \subseteq Heard(narrows)
AskedIsHeard == AtRest /\ torn # "refused" => StillHeard(Apart(asked))

\* The seat hears no more than was asked for: a restart does not widen a topic
\* into its channel or bring back what was unsubscribed.
HeardIsAsked ==
  AtRest /\ torn = "no" => Heard(Apart(narrows)) \subseteq Heard(asked)

\* A seat that has left a channel has no row there for others to pay for, and
\* the next rebuild finds nothing to bring back.
RowsAreWanted ==
  AtRest /\ torn = "no" => rows \ met \subseteq ChannelsOf(narrows)

\* Said of the program and not so, of channels in which calls met too: a
\* subscribe that raced the rebuild "survives the swap" and an unsubscribe "still
\* removes it" (mcp/narrow-set.ts:66-68), and a refused subscribe "takes the narrow
\* back out, unless an earlier subscribe already held it" (mcp/tools.ts:594).
RefusalTakesNothing == AtRest => StillHeard(asked)
RemovalStands == AtRest /\ torn = "no" => Heard(narrows) \subseteq Heard(asked)

\* A call that waits to persist until the rebuild is over does not wait for
\* ever: the rebuild ends, also when the realm refuses it half way.
CallsEnd == \A c \in Calls : ~At(c, "free") ~> At(c, "free")
=============================================================================
