-------------------------------- MODULE Tools --------------------------------
(***************************************************************************)
(* The MCP tools (mcp/tools.ts) over the in-memory substrate: what a call  *)
(* does to the substrate, to the cache of message references, to the       *)
(* narrow set and to the recorded narrows.                                 *)
(*                                                                         *)
(* A handler runs in pieces, one per "await": the operation, then for post *)
(* and react the narrow of the thread taken part in, its subscription, and *)
(* the record.  Calls of the host interleave between the pieces.  A call   *)
(* that is refused before its first change is left out; the binder or the  *)
(* substrate may still refuse the subscription or the unsubscription.      *)
(***************************************************************************)
EXTENDS Memory

CONSTANTS
  Self,     \* the seat the server runs on
  SelfName, \* the name its binder acquires
  Calls,    \* bound: tool calls in flight at once
  RecentThreadsLimit

ASSUME ToolsAssumption ==
  Self \in Seats /\ SelfName \in Acquirable /\ RecentThreadsLimit \in Nat \ {0}

VARIABLES
  cache,   \* message id -> reference: messageById
  narrow,  \* the narrow set
  record,  \* the topic-level narrows last persisted
  known,   \* is there a key to persist under: a bot name, or a session id by now?
  call,    \* each call
  engaged, \* history: messages whose thread the seat took part in and kept
  saved    \* history: the ones that were engaged when a record was last written

toolVars == <<cache, narrow, record, known, call, engaged, saved>>
vars == <<memoryVars, toolVars>>

Idle == [at |-> "idle", id |-> 0, key |-> MentionsKey, held |-> FALSE]
Stages == {"idle", "engage", "subscribing", "leaving", "persist"}
Links == {"permalink", "placeholder"}
Ref(ch, thread, link) == [ch |-> ch, thread |-> thread, link |-> link]
NoRefs == [id \in {} |-> Ref(NoChannel, NoThread, "placeholder")]

Init ==
  /\ FirstState(1) \* the server's one stream
  /\ cache = NoRefs /\ narrow = {} /\ record = {} /\ engaged = {} /\ saved = {}
  /\ known \in BOOLEAN
  /\ call = [c \in Calls |-> Idle]

-----------------------------------------------------------------------------
(* References *)

Remember(id, ref) == cache' = [i \in {id} \cup DOMAIN cache |-> IF i = id THEN ref ELSE cache[i]]

\* A reference is the cached one, or is rebuilt from the channel the caller names.
CanReconstruct(id, chArg) == id \in DOMAIN cache \/ chArg # NoChannel
ReconstructMessageRef(id, chArg) ==
  IF id \in DOMAIN cache THEN cache[id] ELSE Ref(chArg, NoThread, "placeholder")

\* What a caller that knows the message may say of it.
ChannelArgs(id) == {NoChannel, byId[id].ch}
ThreadArgs(id) == {NoThread, byId[id].thread}

\* Mistaken variant: a message outside any thread is engaged with as well.
GoesOn_Always(c, id, ch, thread) ==
  call' = [call EXCEPT ![c] = [Idle EXCEPT !.at = "engage", !.id = id,
                                           !.key = ThreadKey(ch, thread)]]

\* The operation is over: on to the thread's subscription, if there is a thread.
GoesOn(c, id, ch, thread) ==
  call' = [call EXCEPT ![c] =
             IF thread = NoThread THEN Idle
             ELSE [Idle EXCEPT !.at = "engage", !.id = id, !.key = ThreadKey(ch, thread)]]

-----------------------------------------------------------------------------
(* Tools that write *)

\* Mistaken variant: the thread asked for is subscribed to, not the one kept.
PostTool_Requested(c, ch, thread, body) ==
  /\ call[c].at = "idle"
  /\ Post(Self, ch, thread, body)
  /\ Remember(Len(byId'), Ref(ch, KeptThread(thread), "permalink"))
  /\ GoesOn(c, Len(byId'), ch, thread)
  /\ UNCHANGED <<narrow, record, known, engaged, saved>>

PostTool(c, ch, thread, body) ==
  /\ call[c].at = "idle"
  /\ Post(Self, ch, thread, body)
  /\ Remember(Len(byId'), Ref(ch, KeptThread(thread), "permalink"))
  /\ GoesOn(c, Len(byId'), ch, KeptThread(thread))
  /\ UNCHANGED <<narrow, record, known, engaged, saved>>

EditTool(c, id, chArg, body) ==
  /\ call[c].at = "idle" /\ CanReconstruct(id, chArg)
  /\ Edit(Self, id, body)
  /\ Remember(id, ReconstructMessageRef(id, chArg))
  /\ UNCHANGED <<narrow, record, known, call, engaged, saved>>

\* The thread of the reference, or else the one the caller named.
ReactTool(c, id, chArg, threadArg, emoji) ==
  LET ref == ReconstructMessageRef(id, chArg)
  IN /\ call[c].at = "idle" /\ CanReconstruct(id, chArg)
     /\ React(Self, id, emoji)
     /\ Remember(id, ref)
     /\ GoesOn(c, id, ref.ch, IF ref.thread # NoThread THEN ref.thread ELSE threadArg)
     /\ UNCHANGED <<narrow, record, known, engaged, saved>>

UnreactTool(c, id, chArg, emoji) ==
  /\ call[c].at = "idle" /\ CanReconstruct(id, chArg)
  /\ Unreact(Self, id, emoji)
  /\ UNCHANGED toolVars

ResolveTool(c, ch, thread, wanted) ==
  /\ call[c].at = "idle"
  /\ SetThreadResolved(Self, ch, thread, wanted)
  /\ UNCHANGED toolVars

DescribeTool(c, ch, text) ==
  /\ call[c].at = "idle"
  /\ SetChannelDescription(Self, ch, text)
  /\ UNCHANGED toolVars

-----------------------------------------------------------------------------
(* Tools that change what the seat hears *)

\* Whether the narrow was held is asked before it is added; then the call waits.
NarrowWhileSubscribing(c, id, key) ==
  /\ narrow' = narrow \cup {key}
  /\ call' = [call EXCEPT ![c] = [at |-> "subscribing", id |-> id, key |-> key,
                                  held |-> key \in narrow]]
  /\ UNCHANGED <<memoryVars, cache, record, known, engaged, saved>>

SubscribeTool(c, key) == call[c].at = "idle" /\ NarrowWhileSubscribing(c, 0, key)

StickyThreadEngagement(c) ==
  call[c].at = "engage" /\ NarrowWhileSubscribing(c, call[c].id, call[c].key)

Subscribed(c) ==
  /\ call[c].at = "subscribing"
  /\ Subscribe(Self, call[c].key)
  /\ call' = [call EXCEPT ![c] = [Idle EXCEPT !.at = "persist", !.id = call[c].id]]
  /\ UNCHANGED <<cache, narrow, record, known, engaged, saved>>

Covers(key, id) == Without({ThreadKey(byId[id].ch, byId[id].thread)}, key) = {}

\* The key is taken away from under whoever holds it: a message it covers counts
\* as engaged no longer, nor will it by a call that is at one of the stages.
Forget(c, next, key, stages) ==
  /\ engaged' = {id \in engaged : ~Covers(key, id)} /\ saved' = saved \cap engaged'
  /\ call' = [d \in Calls |->
                IF d = c THEN next
                ELSE IF call[d].at \in stages /\ call[d].id # 0 /\ Covers(key, call[d].id)
                     THEN [call[d] EXCEPT !.id = 0] ELSE call[d]]

\* Mistaken variant: the narrow is taken back though it was held before.
SubscribeRefused_Always(c) ==
  /\ call[c].at = "subscribing"
  /\ narrow' = Without(narrow, call[c].key)
  /\ IF call[c].held THEN call' = [call EXCEPT ![c] = Idle] /\ UNCHANGED <<engaged, saved>>
     ELSE Forget(c, Idle, call[c].key, {"subscribing", "persist"})
  /\ UNCHANGED <<memoryVars, cache, record, known>>

\* The narrow is taken back, with all it covers, unless it was held before.
SubscribeRefused(c) ==
  /\ call[c].at = "subscribing"
  /\ IF call[c].held THEN call' = [call EXCEPT ![c] = Idle] /\ UNCHANGED <<narrow, engaged, saved>>
     ELSE /\ narrow' = Without(narrow, call[c].key)
          /\ Forget(c, Idle, call[c].key, {"subscribing", "persist"})
  /\ UNCHANGED <<memoryVars, cache, record, known>>

\* The narrow goes first, the subscription after an "await", and then the record.
UnsubscribeTool(c, key) ==
  /\ call[c].at = "idle"
  /\ narrow' = Without(narrow, key)
  /\ Forget(c, [Idle EXCEPT !.at = "leaving", !.key = key], key, {"subscribing", "persist"})
  /\ UNCHANGED <<memoryVars, cache, record, known>>

Unsubscribed(c) ==
  /\ call[c].at = "leaving"
  /\ Unsubscribe(Self, call[c].key)
  /\ Forget(c, [Idle EXCEPT !.at = "persist"], call[c].key, {"persist"})
  /\ UNCHANGED <<cache, narrow, record, known>>

UnsubscribeRefused(c) ==
  /\ call[c].at = "leaving"
  /\ call' = [call EXCEPT ![c] = Idle]
  /\ UNCHANGED <<memoryVars, cache, narrow, record, known, engaged, saved>>

\* What is narrower than a channel, in a channel not held whole.
TopicLevelIntents(intents) ==
  {k \in intents : k.kind # "channel" /\ ChannelKey(k.ch) \notin intents}

\* Without a key to write under the record stays as it is.
Persist(c) ==
  /\ call[c].at = "persist"
  /\ record' = IF known THEN TopicLevelIntents(narrow) ELSE record
  /\ engaged' = engaged \cup ({call[c].id} \ {0})
  /\ saved' = IF known THEN engaged' ELSE saved
  /\ call' = [call EXCEPT ![c] = Idle]
  /\ UNCHANGED <<memoryVars, cache, narrow, known>>

\* Any call that carries the session id feeds it, once and for all.
FeedSession ==
  /\ ~known /\ known' = TRUE
  /\ UNCHANGED <<memoryVars, cache, narrow, record, call, engaged, saved>>

-----------------------------------------------------------------------------
(* Tools that read: they store nothing the model keeps, so they are no actions *)

\* current_identity
CurrentIdentity ==
  IF bound[Self] = Nobody THEN [state |-> "unbound", recent |-> << >>]
  ELSE [state |-> "bound", recent |-> RecentThreads(bound[Self], RecentThreadsLimit)]

\* inbox.subscriptions(): every key over a channel reads back as the channel.
SubscriptionRows(s) == {k.ch : k \in subs[s] \ {MentionsKey}}

\* list_subscriptions, of a narrow set and the rows of a realm
ListSubscriptions(intents, rows) ==
  [channels |-> rows, narrows |-> {k \in intents : k.kind # "channel"},
   notInRealm |-> {k.ch : k \in intents} \ rows]

\* message_link: from the cache, else built from the channel named, else looked up.
MessageLink(id, chArg) ==
  IF id \in DOMAIN cache THEN cache[id].link
  ELSE IF chArg # NoChannel \/ id \in DOMAIN byId THEN "permalink" ELSE "none"

-----------------------------------------------------------------------------
(* The server's binder and the peers; what its stream is given is left to Memory *)

SeatBinds == Acquire(Self, SelfName) /\ UNCHANGED toolVars

\* The seat leaves when no call is out.
SeatLeaves ==
  /\ \A c \in Calls : call[c].at = "idle"
  /\ \E persistent \in BOOLEAN : Release(Self, persistent)
  /\ UNCHANGED toolVars

Peers ==
  /\ \/ \E name \in Names : Seed(name, "human")
     \/ \E i \in DOMAIN members, ch \in ChannelNames, t \in Threads \cup {NoThread}, b \in Bodies :
          i # bound[Self] /\ PeerPost(i, ch, t, b)
  /\ UNCHANGED toolVars

Writes(c) ==
  \/ \E ch \in ChannelNames, t \in Threads \cup {NoThread}, b \in Bodies : PostTool(c, ch, t, b)
  \/ \E id \in DOMAIN byId : \E ch \in ChannelArgs(id) :
       \/ \E b \in Bodies : EditTool(c, id, ch, b)
       \/ \E e \in Emojis : \/ \E t \in ThreadArgs(id) : ReactTool(c, id, ch, t, e)
                            \/ UnreactTool(c, id, ch, e)
  \/ \E ch \in ChannelNames, t \in Threads, wanted \in BOOLEAN : ResolveTool(c, ch, t, wanted)
  \/ \E ch \in ChannelNames, text \in Texts \cup {NoText} : DescribeTool(c, ch, text)

Hears(c) ==
  \/ \E key \in Askable \ {MentionsKey} : SubscribeTool(c, key) \/ UnsubscribeTool(c, key)
  \/ StickyThreadEngagement(c) \/ Subscribed(c) \/ SubscribeRefused(c)
  \/ Unsubscribed(c) \/ UnsubscribeRefused(c) \/ Persist(c)

Next == SeatBinds \/ SeatLeaves \/ Peers \/ FeedSession \/ \E c \in Calls : Writes(c) \/ Hears(c)

Spec == Init /\ [][Next]_vars

-----------------------------------------------------------------------------
(* What must hold *)

\* Every variable has its type.
TypeOK ==
  /\ MemoryTypeOK
  /\ DOMAIN cache \subseteq DOMAIN byId
  /\ Range(cache) \subseteq
       [ch : ChannelNames, thread : Threads \cup {NoThread}, link : Links]
  /\ narrow \subseteq Keys /\ record \subseteq Keys /\ known \in BOOLEAN
  /\ call \in [Calls -> [at : Stages, id : {0} \cup MessageIds, key : Keys, held : BOOLEAN]]
  /\ engaged \subseteq DOMAIN byId

\* What the next start narrows to: the record, and whole each channel with a row
\* that the record does not name.
CombineWithRealm(rows, intents) ==
  intents \cup {ChannelKey(ch) : ch \in {r \in rows : \A k \in intents : k.ch # r}}

\* Once a post or a reaction of the seat in a thread has come to its end, the
\* thread the message lives in is subscribed to and passes the narrow set; and
\* once a record has been written, a start from that record and the seat's rows
\* hears the thread again, by itself or with its whole channel.  It holds until
\* the thread or its channel is unsubscribed, or a subscription that was the
\* first to narrow to it is refused; however calls overlap, whatever was held
\* whole when the record was written and whenever the session id came to be
\* known (tools.ts: "active participation in a thread ... implies interest in
\* its replies"; "restore honours the persisted set verbatim").
EngagedIsHeard ==
  \A id \in engaged :
    LET m == byId[id]
        key == ThreadKey(m.ch, m.thread)
    IN /\ key \in subs[Self] /\ key \in narrow
       /\ id \in saved =>
            CombineWithRealm(SubscriptionRows(Self), record) \cap {key, ChannelKey(m.ch)} # {}

\* current_identity tells a session that comes back where it left off: each thread
\* comes with the last post of the bot there, and a thread it posted in is left
\* out only when the list is full of later ones, whatever was edited, answered
\* by peers or posted in two channels in between (tools.ts: "for the threads
\* this identity most recently posted in").  Of the peers' lists the same holds.
OrientationIsTrue ==
  \A i \in DOMAIN members :
    LET told == IF i = bound[Self] THEN CurrentIdentity.recent
                                   ELSE RecentThreads(i, RecentThreadsLimit)
        byMe(m) == {p \in ReadThread(m.ch, m.thread) : buckets[m.ch][p].sender = i}
    IN /\ \A j \in DOMAIN told : told[j] = buckets[told[j].ch][Max(byMe(told[j]))]
       /\ \A id \in DOMAIN byId :
            byId[id].sender = i /\ byId[id].thread # NoThread
              => \/ \E j \in DOMAIN told : SameThread(told[j], byId[id])
                 \/ /\ Len(told) = RecentThreadsLimit
                    /\ \A j \in DOMAIN told : told[j].id > id

\* What list_subscriptions answers decides which posts reach the seat: no other
\* narrow set reads back the same and lets something else pass (tools.ts:1039:
\* 'so "will a post to X reach me?" has an answer').
Passes(intents, ch, thread) ==
  ch \in SubscriptionRows(Self) /\ intents \cap {ChannelKey(ch), ThreadKey(ch, thread)} # {}
ReadBackDecides ==
  bound[Self] # Nobody =>
    \A other \in SUBSET (Keys \ {MentionsKey}) :
      ListSubscriptions(other, SubscriptionRows(Self)) = ListSubscriptions(narrow, SubscriptionRows(Self))
        => \A ch \in ChannelNames, t \in Threads : Passes(other, ch, t) <=> Passes(narrow, ch, t)

\* message_link never answers with the stand-in of a rebuilt reference
\* (tools.ts:352-356: "transparently a placeholder, never a plausible URL, and
\* never surfaced").
LinksAreReal ==
  \A id \in DOMAIN byId : \A ch \in ChannelArgs(id) : MessageLink(id, ch) # "placeholder"
=============================================================================
