------------------------------ MODULE Delivery ------------------------------
(***************************************************************************)
(* What one seat's agent is told.  Two paths end in the notifier: the live *)
(* pump (mcp/event-pump.ts), fed by the adapter's event stream and         *)
(* filtered by the narrow set (mcp/narrow-set.ts), and the catch-ups of a  *)
(* boot (mcp/mentions-catch-up.ts, mcp/channels-catch-up.ts), which read   *)
(* the realm's history from a per-bot cursor file (mcp/cursor-store.ts).   *)
(*                                                                         *)
(* The event stream itself is InboxStream's promise, which EventProducer   *)
(* implements: every post since the queue was registered comes out, in     *)
(* order, and a queue that dies makes some of them come out again.         *)
(***************************************************************************)
EXTENDS Integers, Sequences, FiniteSets, SequencesExt

CONSTANTS Kinds,       \* the messages that can be posted: [chan, topic, by, says]
          Intents,     \* the seat's subscriptions: [kind, chan, topic]
          Modes,       \* the boot orders explored, a subset of ModeNames
          Window,      \* seconds of history the channel catch-up reads
          Capacity,    \* SEEN_DELIVERED_CAPACITY
          Reach,       \* realm messages HISTORY_MAX_PAGES pages of a replay cover
          MayFail,     \* BOOLEAN: a catch-up call or a notification can fail
          MaxPosts, MaxClock, MaxFaults   \* bounds of the exploration

(***************************************************************************)
(* "defaults": a persistent seat with subscriptions of its own.  It binds, *)
(*   subscribes (which registers its queue), catches up, starts the pump.  *)
(* "bare": it binds and catches up, and the pump registers the queue.      *)
(* "lazy": an ephemeral seat.  The pump starts first and the first tool    *)
(*   call binds and catches up; the stream has no identity to synthesise   *)
(*   mention events for.                                                   *)
(***************************************************************************)
ModeNames == {"defaults", "bare", "lazy"}

NoTopic == "no topic"
NoCursor == -1   \* a bot's first boot; otherwise its last life left a cursor

ASSUME DeliveryAssumption ==
    /\ \A k \in Kinds : k.by \in {"me", "other"} /\ k.says \in {"nothing", "name", "wildcard"}
    /\ IsFiniteSet(Intents)
    /\ \A n \in Intents : n.kind \in {"channel", "thread", "new-topics"}
    /\ Modes \subseteq ModeNames
    /\ Window \in Nat /\ Capacity \in Nat \ {0} /\ Reach \in Nat \ {0}
    /\ MayFail \in BOOLEAN
    /\ MaxPosts \in Nat /\ MaxClock \in Nat \ {0} /\ MaxFaults \in Nat

VARIABLES
    mode,      \* the boot order of this seat
    narrow,    \* the intents this life holds: all, unless registering them failed
    clock,     \* seconds; the realm's and the host's agree
    posts,     \* the realm's messages in id order, with their timestamp
    cursor,    \* the cursor file: lastSeenTs, or NoCursor
    boot,      \* the boot fiber (or first call) of this life, see TypeOK
    startedAt, \* the clock a running mention catch-up read
    todo,      \* message ids a running catch-up has fetched and not surfaced yet
    pump,      \* off, on, or parked after a notification failed
    from,      \* the queue carries posts from+1, from+2, ...; -1 without a queue
    inbox,     \* events the stream has not handed to the pump: [id, kind]
    emitted,   \* last message the stream handed over in this life, its watermark
    seen,      \* topics the adapter ticked (seenTopicsByChannel)
    seenTopics,\* topics the narrow set ticked
    delivered, \* seenDelivered: ids in insertion order
    shown,     \* id -> blocks the pump sent in this life
    skimmed,   \* id -> blocks the catch-ups sent in this life
    heard,     \* ids ever put before the agent
    since,     \* the first value of the cursor: older mentions are no one's
    excused,   \* messages given up: see CatchUpFails, GapReplay, ProducerRegisters
    beyond,    \* those of them a replay that succeeded did not reach back to
    faults     \* crashes and dead queues so far

atBoot == <<boot, startedAt, todo>>
live == <<pump, from, inbox, emitted, seen, seenTopics, delivered, shown>>
marks == <<cursor, since, excused, beyond>>
vars == <<mode, narrow, clock, posts, marks, atBoot, live, skimmed, heard, faults>>

Ids == 1 .. MaxPosts
NoBlocks == [i \in Ids |-> 0]

\* The sequences that hold each element of a finite set once, in an order.
InOrder(S, Precedes(_, _)) ==
    {s \in [1 .. Cardinality(S) -> S] :
       /\ \A x \in S : \E a \in DOMAIN s : s[a] = x
       /\ \A a, b \in DOMAIN s : a < b => Precedes(s[a], s[b])}
-----------------------------------------------------------------------------
(* Mentions and narrows. *)

Intent(kind, m) == [kind |-> kind, chan |-> m.chan,
                    topic |-> IF kind = "thread" THEN m.topic ELSE NoTopic]

\* A wildcard names whoever reads it; the channel is not consulted.
MentionsMe(m) == m.says \in {"name", "wildcard"}

HoldsChannel(c) == \E n \in narrow : n.chan = c /\ n.kind # "new-topics"

\* The bot's rows in the realm outlive the seat, and its last boot's subscribes.
Subscribed(c) == \E n \in Intents : n.chan = c

\* Outside the seat's channels only a mention by name reaches it.
NotifiesMe(m) == IF Subscribed(m.chan) THEN MentionsMe(m) ELSE m.says = "name"

RefMatches(m) == \/ Intent("channel", m) \in narrow
                 \/ m.topic # NoTopic /\ Intent("thread", m) \in narrow

Key(m) == <<m.chan, m.topic>>
AsksNewTopics(m) == m.topic # NoTopic /\ Intent("new-topics", m) \in narrow

\* Mistaken variant: every message of a new-topics channel matches.
NewTopicsMatches_Again(m) == AsksNewTopics(m)
NewTopicsMatches(m) == AsksNewTopics(m) /\ Key(m) \notin seenTopics

NarrowMatches(e, m) ==
    \/ RefMatches(m) \/ MentionsMe(m)
    \/ e.kind = "message-posted" /\ NewTopicsMatches(m)

\* The adapter's own filter: only a channel held for its new topics is filtered.
ShouldDeliver(e, m) ==
    \/ e.kind # "message-posted" \/ ~AsksNewTopics([m EXCEPT !.topic = "any"])
    \/ HoldsChannel(m.chan) \/ MentionsMe(m)
    \/ m.topic # NoTopic /\ Key(m) \notin seen

EventKinds == {"message-posted", "mention-received"}

\* One message is one or two events; without an identity no mention is synthesised.
InboundEvents(i, m, identified) ==
    <<[id |-> i, kind |-> "message-posted"]>>
    \o IF identified /\ MentionsMe(m)
       THEN <<[id |-> i, kind |-> "mention-received"]>> ELSE <<>>

\* The realm queues a message for its channel's members and for whom it names.
ReachesQueue(m) == Subscribed(m.chan) \/ m.says = "name"

\* A history read walks back from the newest post of the realm until its pages run
\* out; what lies further back is left out, and the answer does not say so.
Reached == {i \in 1 .. Len(posts) : i + Reach > Len(posts)}

\* replay(ts) answers one of these: a history read, so it returns the posts of
\* every channel; only its mention events are held to the seat's channels.  It
\* asks for the identity anew.
Replay(ts) ==
    InOrder({e \in [id : {i \in Reached : posts[i].ts >= ts}, kind : EventKinds] :
               e.kind = "mention-received" => MentionsMe(posts[e.id]) /\ NotifiesMe(posts[e.id])},
            LAMBDA d, e : d.id < e.id \/ (d.id = e.id /\ d.kind = "message-posted"))
-----------------------------------------------------------------------------
Init ==
    /\ mode \in Modes /\ narrow = Intents
    /\ clock = 1 /\ posts = <<>>
    /\ cursor \in {NoCursor, 0} /\ since = cursor /\ excused = {} /\ beyond = {}
    /\ boot = "down" /\ startedAt = 0 /\ todo = <<>>
    /\ pump = "off" /\ from = -1 /\ inbox = <<>> /\ emitted = 0
    /\ seen = {} /\ seenTopics = {} /\ delivered = <<>> /\ shown = NoBlocks
    /\ skimmed = NoBlocks /\ heard = {} /\ faults = 0

\* The seat's own posts wait for its binding, and an ephemeral seat's for the hook.
CanPost == IF mode = "lazy" THEN boot = "done" ELSE boot \notin {"down", "up"}

\* The realm accepts a message; a registered queue carries it to the stream.
Post ==
    /\ Len(posts) < MaxPosts
    /\ \E k \in {k \in Kinds : k.by = "me" => CanPost} :
         LET m == [chan |-> k.chan, topic |-> k.topic, by |-> k.by, says |-> k.says,
                   ts |-> clock]
         IN /\ posts' = Append(posts, m)
            /\ inbox' = IF from # -1 /\ ReachesQueue(m)
                        THEN inbox \o InboundEvents(Len(posts) + 1, m, mode # "lazy") ELSE inbox
    /\ UNCHANGED <<mode, narrow, clock, marks, atBoot, pump, from, emitted, seen, seenTopics,
                   delivered, shown, skimmed, heard, faults>>

Tick ==
    /\ clock < MaxClock
    /\ clock' = clock + 1
    /\ UNCHANGED <<mode, narrow, posts, marks, atBoot, live, skimmed, heard, faults>>
-----------------------------------------------------------------------------
(* A life of the seat: boot, catch-ups, pump. *)

Start ==
    /\ boot = "down"
    /\ boot' = "up"
    /\ pump' = IF mode = "lazy" THEN "on" ELSE "off"
    /\ UNCHANGED <<mode, narrow, clock, posts, marks, startedAt, todo, from, inbox, emitted, seen,
                   seenTopics, delivered, shown, skimmed, heard, faults>>

Bind ==
    /\ boot = "up"
    /\ boot' = "bound"
    /\ UNCHANGED <<mode, narrow, clock, posts, marks, startedAt, todo, live, skimmed, heard, faults>>

Missed == {i \in 1 .. Len(posts) : posts[i].ts >= cursor /\ NotifiesMe(posts[i])} \ heard

\* The first subscribe registers the queue before it returns; what fails after it
\* is logged and changes nothing here.
RegisterDefaults ==
    /\ boot = "bound" /\ mode = "defaults"
    /\ boot' = "ready" /\ from' = Len(posts)
    /\ UNCHANGED <<mode, narrow, clock, posts, marks, startedAt, todo, pump, inbox, emitted, seen,
                   seenTopics, delivered, shown, skimmed, heard, faults>>

\* The first subscribe fails, which is logged: the new-topics intent is recorded,
\* the ones behind it are not tried, and the boot goes on without a queue.
RegisterFails ==
    /\ MayFail /\ boot = "bound" /\ mode = "defaults"
    /\ boot' = "ready"
    /\ \E n \in Intents : n.kind = "new-topics" /\ narrow' = {n}
    /\ UNCHANGED <<mode, clock, posts, marks, startedAt, todo, live, skimmed, heard, faults>>

\* A bound seat without a queue: the producer's idle loop registers one.  What was
\* posted since the seat read its history comes out of neither.
ProducerRegisters ==
    /\ pump = "on" /\ boot \notin {"down", "up"} /\ from = -1
    /\ from' = Len(posts)
    /\ excused' = excused \cup Missed
    /\ UNCHANGED <<mode, narrow, clock, posts, cursor, since, beyond, atBoot, pump, inbox, emitted,
                   seen, seenTopics, delivered, shown, skimmed, heard, faults>>

\* Reads the cursor and the clock; a seat without a cursor starts one and replays nothing.
CatchUpMentions ==
    /\ boot = IF mode = "defaults" THEN "ready" ELSE "bound"
    /\ startedAt' = clock
    /\ IF cursor = NoCursor
       THEN boot' = "skim" /\ cursor' = clock /\ since' = clock
       ELSE boot' = "replay" /\ UNCHANGED <<cursor, since>>
    /\ UNCHANGED <<mode, narrow, clock, posts, excused, beyond, todo, live, skimmed, heard, faults>>

\* What the catch-up asked for and did not get for want of pages.
Cut == {i \in Missed : i \notin Reached}

\* Mistaken variant: the second the cursor names is taken as seen.
ReplayAnswers_Exclusive ==
    /\ boot = "replay"
    /\ todo' \in InOrder({i \in Reached : posts[i].ts > cursor /\ NotifiesMe(posts[i])}, <)
    /\ boot' = "mentions"
    /\ excused' = excused \cup Cut /\ beyond' = beyond \cup (Cut \ excused)
    /\ UNCHANGED <<mode, narrow, clock, posts, cursor, since, startedAt, live, skimmed, heard, faults>>

\* The history read answers: the mentions since the cursor, oldest first, as far
\* back as its pages go.
ReplayAnswers ==
    /\ boot = "replay"
    /\ todo' \in InOrder({i \in Reached : posts[i].ts >= cursor /\ NotifiesMe(posts[i])}, <)
    /\ boot' = "mentions"
    /\ excused' = excused \cup Cut /\ beyond' = beyond \cup (Cut \ excused)
    /\ UNCHANGED <<mode, narrow, clock, posts, cursor, since, startedAt, live, skimmed, heard, faults>>

Surface ==
    /\ boot \in {"mentions", "channels"} /\ todo # <<>>
    /\ todo' = Tail(todo)
    /\ skimmed' = [skimmed EXCEPT ![Head(todo)] = @ + 1]
    /\ heard' = heard \cup {Head(todo)}
    /\ UNCHANGED <<mode, narrow, clock, posts, marks, boot, startedAt, live, faults>>

\* A cursor write that would go back is a no-op.
Advanced(ts) == IF cursor >= ts THEN cursor ELSE ts

\* Mistaken variant: the mark is the time the catch-up ended.
MentionsDone_StampsTheEnd ==
    /\ boot = "mentions" /\ todo = <<>>
    /\ cursor' = Advanced(clock)
    /\ boot' = "skim"
    /\ UNCHANGED <<mode, narrow, clock, posts, since, excused, beyond, startedAt, todo, live, skimmed,
                   heard, faults>>

MentionsDone ==
    /\ boot = "mentions" /\ todo = <<>>
    /\ cursor' = Advanced(startedAt)
    /\ boot' = "skim"
    /\ UNCHANGED <<mode, narrow, clock, posts, since, excused, beyond, startedAt, todo, live, skimmed,
                   heard, faults>>

\* A failed read, notification or write: logged, the cursor untouched, boot goes on.
CatchUpFails ==
    /\ MayFail
    /\ \/ /\ boot \in {"replay", "mentions"}
          /\ boot' = "skim" /\ excused' = excused \cup Missed
       \/ boot = "channels" /\ boot' = "skimmed" /\ UNCHANGED excused
    /\ todo' = <<>>
    /\ UNCHANGED <<mode, narrow, clock, posts, cursor, since, beyond, startedAt, live, skimmed, heard,
                   faults>>

Fetched(n, i) ==
    LET m == posts[i]
    IN /\ n.chan = m.chan
       /\ m.ts >= clock - Window
       /\ CASE n.kind = "channel" -> TRUE
            [] n.kind = "thread" -> m.topic = n.topic
            [] n.kind = "new-topics" ->
                 /\ m.topic # NoTopic
                 /\ \A j \in 1 .. i - 1 : Key(posts[j]) = Key(m) => posts[j].ts < clock - Window

\* One read per intent, merged by time; the seat's own posts are dropped.
CatchUpChannels ==
    /\ boot = "skim"
    /\ IF Window = 0 \/ Intents = {}
       THEN boot' = "skimmed" /\ UNCHANGED todo
       ELSE /\ boot' = "channels"
            /\ \E rows \in InOrder({r \in (1 .. Len(posts)) \X Intents :
                                     posts[r[1]].by # "me" /\ Fetched(r[2], r[1])},
                                  LAMBDA q, r : q[1] <= r[1]) :
                 todo' = [a \in DOMAIN rows |-> rows[a][1]]
    /\ UNCHANGED <<mode, narrow, clock, posts, marks, startedAt, live, skimmed, heard, faults>>

\* The catch-ups are over: a persistent seat starts its pump only now.
Serve ==
    /\ boot = "skimmed" \/ (boot = "channels" /\ todo = <<>>)
    /\ boot' = "done"
    /\ pump' = IF pump = "off" THEN "on" ELSE pump
    /\ UNCHANGED <<mode, narrow, clock, posts, marks, startedAt, todo, from, inbox, emitted, seen,
                   seenTopics, delivered, shown, skimmed, heard, faults>>
-----------------------------------------------------------------------------
(* The pump. *)

\* Mistaken variant: the newest entry is evicted.
Retained_Oldest(s) == IF Len(s) > Capacity THEN Front(s) ELSE s
Retained(s) == IF Len(s) > Capacity THEN Tail(s) ELSE s

\* One event, from the adapter's filter to the notifier.
Dispatch ==
    /\ pump = "on" /\ inbox # <<>>
    /\ LET e == Head(inbox)
           m == posts[e.id]
           posted == e.kind = "message-posted"
           passes == ShouldDeliver(e, m) /\ boot # "up" /\ NarrowMatches(e, m)
           mine == passes /\ m.by # "me"
           fresh == mine /\ ~Contains(delivered, e.id)
       IN /\ inbox' = Tail(inbox)
          /\ emitted' = e.id
          /\ seen' = IF posted /\ AsksNewTopics(m) THEN seen \cup {Key(m)} ELSE seen
          /\ seenTopics' = IF posted /\ ShouldDeliver(e, m) /\ ~RefMatches(m)
                                     /\ NewTopicsMatches(m)
                           THEN seenTopics \cup {Key(m)} ELSE seenTopics
          /\ cursor' = IF mine /\ e.kind = "mention-received" THEN Advanced(m.ts) ELSE cursor
          /\ delivered' = IF fresh THEN Retained(Append(delivered, e.id)) ELSE delivered
          /\ \/ /\ shown' = IF fresh THEN [shown EXCEPT ![e.id] = @ + 1] ELSE shown
                /\ heard' = IF fresh THEN heard \cup {e.id} ELSE heard
                /\ UNCHANGED pump
             \/ /\ fresh /\ MayFail
                /\ pump' = "parked"
                /\ UNCHANGED <<shown, heard>>
    /\ UNCHANGED <<mode, narrow, clock, posts, since, excused, beyond, atBoot, from, skimmed, faults>>

\* The queue dies: events not fetched yet are gone, and the producer replays from
\* its watermark.  Without a watermark, or when the replay fails, the gap is given
\* up; a replay that succeeds gives up what its pages do not reach.
GapReplay ==
    /\ faults < MaxFaults /\ pump = "on" /\ from # -1
    /\ faults' = faults + 1
    /\ \E n \in 0 .. Len(inbox) :
         LET last == IF n = 0 THEN emitted ELSE inbox[n].id
             lost == {inbox[a].id : a \in n + 1 .. Len(inbox)}
         IN \/ /\ last = 0 \/ MayFail
               /\ inbox' = SubSeq(inbox, 1, n)
               /\ excused' = excused \cup lost
               /\ UNCHANGED beyond
            \/ /\ last # 0
               /\ \E replayed \in Replay(posts[last].ts) :
                    inbox' = SubSeq(inbox, 1, n) \o replayed
               /\ excused' = excused \cup (lost \ Reached)
               /\ beyond' = beyond \cup (lost \ (Reached \cup excused \cup heard))
    /\ UNCHANGED <<mode, narrow, clock, posts, cursor, since, atBoot, pump, from, emitted, seen,
                   seenTopics, delivered, shown, skimmed, heard>>

\* The process dies: all that outlives it is the realm and the cursor file.
Crash ==
    /\ boot # "down" /\ faults < MaxFaults
    /\ faults' = faults + 1
    /\ boot' = "down" /\ narrow' = Intents /\ startedAt' = 0 /\ todo' = <<>>
    /\ pump' = "off" /\ from' = -1 /\ inbox' = <<>> /\ emitted' = 0
    /\ seen' = {} /\ seenTopics' = {} /\ delivered' = <<>> /\ shown' = NoBlocks
    /\ skimmed' = NoBlocks
    /\ UNCHANGED <<mode, clock, posts, marks, heard>>

SeatStep == \/ Bind \/ RegisterDefaults \/ ProducerRegisters \/ CatchUpMentions
            \/ ReplayAnswers \/ Surface \/ MentionsDone \/ CatchUpChannels \/ Serve \/ Dispatch

Next == \/ Post \/ Tick \/ Start \/ SeatStep
        \/ RegisterFails \/ CatchUpFails \/ GapReplay \/ Crash

Spec == Init /\ [][Next]_vars

\* The seat's fibers run; nothing makes the realm post or the process start or die.
FairSpec == Spec /\ WF_vars(SeatStep)
-----------------------------------------------------------------------------
(* Every variable holds a value of its kind; a parked pump has failed.      *)
TypeOK ==
    /\ mode \in Modes /\ narrow \subseteq Intents /\ clock \in 0 .. MaxClock
    /\ posts \in Seq([chan : {k.chan : k \in Kinds}, topic : {k.topic : k \in Kinds},
                      by : {"me", "other"}, says : {"nothing", "name", "wildcard"},
                      ts : 0 .. clock])
    /\ cursor \in {NoCursor} \cup 0 .. clock /\ since \in {NoCursor} \cup 0 .. clock
    /\ since <= cursor
    /\ boot \in {"down", "up", "bound", "ready", "replay", "mentions", "skim", "channels",
                 "skimmed", "done"}
    /\ startedAt \in 0 .. clock /\ todo \in Seq(1 .. Len(posts))
    /\ pump \in {"off", "on", "parked"} /\ from \in -1 .. Len(posts)
    /\ inbox \in Seq([id : 1 .. Len(posts), kind : EventKinds])
    /\ emitted \in 0 .. Len(posts)
    /\ delivered \in Seq(1 .. Len(posts)) /\ Len(delivered) <= Capacity
    /\ shown \in [Ids -> Nat] /\ skimmed \in [Ids -> Nat]
    /\ heard \subseteq 1 .. Len(posts) /\ excused \subseteq 1 .. Len(posts)
    /\ beyond \subseteq excused

\* A mention of a seat that registers its queue before it reads history, which the
\* cursor has passed; mentions older than the first cursor are no one's.
Passed(i) ==
    /\ mode = "defaults" /\ posts[i].by = "other" /\ NotifiesMe(posts[i])
    /\ since < posts[i].ts /\ posts[i].ts < cursor

(* The cursor tells the truth: every mention older than it has been put     *)
(* before the agent or was given up, by a failure that is reported or       *)
(* because Reach messages were posted after it before a replay looked for   *)
(* it.  Whatever dies between a read, a notification and a write must not   *)
(* leave the mark ahead of what was said.  (The boot orders that register   *)
(* their queue after the history read have a gap between the two.)          *)
CursorTellsTruth ==
    /\ \A i \in 1 .. Len(posts) : Passed(i) => i \in heard \cup excused
    /\ \A i \in beyond : i + Reach <= Len(posts)

(* The pump says a thing once: a second block for a message is possible     *)
(* only when Capacity later blocks have pushed it out of the log.           *)
PumpShowsOnce ==
    \A i \in 1 .. Len(posts) :
      shown[i] > 1 =>
        Cardinality({j \in 1 .. Len(posts) : shown[j] > 0 /\ posts[j].ts >= posts[i].ts})
            > Capacity

(* A new-topics narrow surfaces the message that starts a topic and no      *)
(* later one: what is shown on its account is the first message of its      *)
(* topic the queue carried in this life, whoever wrote the earlier ones     *)
(* (a queue that died before anything surfaced carried nothing).            *)
OnlyTheFirstOfATopic ==
    \A i \in 1 .. Len(posts) :
      shown[i] > 0 /\ ~RefMatches(posts[i]) /\ ~MentionsMe(posts[i])
      => \A j \in (from + 1 .. i - 1) \ excused : Key(posts[j]) # Key(posts[i])

(* Every mention of the seat reaches its agent, unless the process dies, a  *)
(* failure is reported, a replay ends short of it or it is not younger than *)
(* the first cursor.                                                        *)
MentionsAreHeard ==
    \A i \in Ids :
      (Len(posts) >= i /\ posts[i].by = "other" /\ NotifiesMe(posts[i]) /\ boot = "done"
         /\ since < posts[i].ts /\ mode = "defaults")
      ~> (i \in heard \cup excused \/ boot = "down" \/ pump = "parked")

(* Said of the program and not so: adapter.ts:2286-2288 has a seat that was *)
(* away for long "told everything it missed, however many pages that spans".*)
ToldHoweverFarBack ==
    \A i \in 1 .. Len(posts) : Passed(i) => i \in heard \cup (excused \ beyond)

(* Said of the program and not so: event-pump.ts:154 drops the seat's own   *)
(* events "so the inbound stream contains only events the bot didn't        *)
(* originate"; channels-catch-up.ts:129 drops them too; the mention catch-up   *)
(* does not.                                                                *)
NothingOfItsOwn ==
    \A i \in 1 .. Len(posts) : posts[i].by = "me" => i \notin heard

(* Said of the program and not so: adapter.ts:2277 holds that a replayed    *)
(* wildcard notifies "only the channel's subscribers, as live delivery".    *)
WildcardsStayInTheirChannel ==
    \A i \in 1 .. Len(posts) : i \in heard => ReachesQueue(posts[i])
=============================================================================
