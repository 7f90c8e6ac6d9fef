---------------------------- MODULE Delivery_proofs ----------------------------
(***************************************************************************)
(* Proofs about Delivery, for any messages, subscriptions, window and      *)
(* capacity, and any number of posts, crashes and dead queues: the type    *)
(* invariant, that the pump says a thing once, that a new-topics narrow    *)
(* surfaces the first message of a topic only, and that the cursor tells   *)
(* the truth.                                                              *)
(***************************************************************************)
EXTENDS Delivery, FiniteSetTheorems, SequenceTheorems, TLAPS

PostedEvent(i) == [id |-> i, kind |-> "message-posted"]
MentionEvent(i) == [id |-> i, kind |-> "mention-received"]
TsOf(i) == posts[i].ts

\* What the values mean beyond their types: time goes forward, a queue is
\* registered by a bound seat, and what a life has shown came over its queue.
InStep ==
  /\ Len(posts) <= MaxPosts
  /\ \A i, j \in 1 .. Len(posts) : i <= j => TsOf(i) <= TsOf(j)
  /\ boot \in {"down", "up"} \/ (boot = "bound" /\ mode = "defaults") => from = -1
  /\ boot = "down" => pump = "off"
  /\ from = -1 => inbox = <<>> /\ emitted = 0 /\ seen = {}
  /\ mode # "lazy" /\ boot # "done" => pump = "off"

\* The stream goes forward in time, also where a gap replay goes back in it.
StreamInTime ==
  /\ \A a, b \in DOMAIN inbox : a <= b => TsOf(inbox[a].id) <= TsOf(inbox[b].id)
  /\ emitted # 0 => \A a \in DOMAIN inbox : TsOf(emitted) <= TsOf(inbox[a].id)

\* The log of blocks: a message is in it once, in the order of time, and one
\* that was shown has left it only for Capacity later ones.
LogInTime ==
  /\ \A a, b \in DOMAIN delivered : a < b => delivered[a] # delivered[b]
                                           /\ TsOf(delivered[a]) <= TsOf(delivered[b])
  /\ \A a \in DOMAIN delivered :
       /\ emitted # 0 /\ TsOf(delivered[a]) <= TsOf(emitted)
       /\ pump # "parked" => shown[delivered[a]] > 0 /\ delivered[a] \in heard
  /\ \A i \in Ids : shown[i] > 0 =>
       /\ i <= Len(posts) /\ emitted # 0 /\ TsOf(i) <= TsOf(emitted)
       /\ \/ \E a \in DOMAIN delivered : delivered[a] = i
          \/ /\ Len(delivered) = Capacity
             /\ \A a \in DOMAIN delivered : TsOf(i) <= TsOf(delivered[a])

\* An event is still to come, and the events before it are of no later message.
Coming(e) ==
  \E p \in DOMAIN inbox : inbox[p] = e /\ \A q \in 1 .. p - 1 : inbox[q].id <= e.id

\* A message the queue carries either has ticked its topic, or is still to come
\* before any later one.
RefKey(k) == RefMatches([chan |-> k[1], topic |-> k[2]])
TopicsTicked ==
  /\ \A k \in seen : k \in seenTopics \/ RefKey(k)
  /\ from # -1 =>
       \A j \in 1 .. Len(posts) :
         /\ from < j /\ j \notin excused
         /\ AsksNewTopics(posts[j]) /\ ~RefMatches(posts[j])
         => Key(posts[j]) \in seenTopics \/ Coming(PostedEvent(j))

\* A mention nobody has told the agent of yet.
Pending(i) ==
  /\ posts[i].by = "other" /\ NotifiesMe(posts[i])
  /\ since < TsOf(i) /\ i \notin heard \cup excused

\* Such a mention is not older than the cursor, and it is with the catch-up or
\* on its way to the pump.
OnItsWay(i) ==
  /\ cursor <= TsOf(i)
  /\ boot = "mentions" =>
       \/ \E a \in DOMAIN todo : todo[a] = i
       \/ from < i /\ startedAt <= TsOf(i)
  /\ boot \in {"skim", "channels", "skimmed", "done"} => from < i
  /\ from # -1 /\ from < i /\ pump # "parked" => Coming(MentionEvent(i))

PendingIsOnItsWay ==
  mode = "defaults" => \A i \in 1 .. Len(posts) : Pending(i) => OnItsWay(i)

\* What a replay did not reach lay Reach messages back.
BeyondReach == \A i \in beyond : i + Reach <= Len(posts)

DeliveryInv ==
  /\ TypeOK /\ InStep /\ StreamInTime /\ LogInTime /\ PumpShowsOnce
  /\ TopicsTicked /\ OnlyTheFirstOfATopic /\ PendingIsOnItsWay /\ BeyondReach

-----------------------------------------------------------------------------
(* Posts, histories and replays *)

Posted == [chan : {k.chan : k \in Kinds}, topic : {k.topic : k \in Kinds},
           by : {"me", "other"}, says : {"nothing", "name", "wildcard"}, ts : 0 .. clock]
Event(n) == [id : 1 .. n, kind : EventKinds]

LEMMA PostsTyped ==
  ASSUME TypeOK
  PROVE  /\ Len(posts) \in Nat /\ clock \in Nat
         /\ \A i \in 1 .. Len(posts) : posts[i] \in Posted /\ TsOf(i) \in 0 .. clock
<1>1. posts \in Seq(Posted) /\ clock \in Nat
  BY DeliveryAssumption DEF TypeOK, Posted
<1>2. Len(posts) \in Nat /\ \A i \in 1 .. Len(posts) : posts[i] \in Posted
  BY <1>1, LenProperties, ElementOfSeq
<1>. QED
  BY <1>1, <1>2 DEF Posted, TsOf

LEMMA IndicesFinite ==
  ASSUME NEW n \in Nat, NEW S \in SUBSET (1 .. n)
  PROVE  IsFiniteSet(S) /\ Cardinality(S) \in Nat /\ Cardinality(S) <= n
<1>1. IsFiniteSet(1 .. n) /\ Cardinality(1 .. n) = n
  BY FS_Interval
<1>. QED
  BY <1>1, FS_Subset, FS_CardinalityType

LEMMA EventsTyped ==
  ASSUME NEW n \in Nat, NEW s \in Seq(Event(n))
  PROVE  /\ Len(s) \in Nat /\ DOMAIN s = 1 .. Len(s)
         /\ \A a \in 1 .. Len(s) : /\ s[a] \in Event(n) /\ s[a].id \in 1 .. n
                                   /\ s[a].kind \in EventKinds
<1>1. Len(s) \in Nat /\ DOMAIN s = 1 .. Len(s) /\ \A a \in 1 .. Len(s) : s[a] \in Event(n)
  BY LenProperties, ElementOfSeq
<1>. QED
  BY <1>1 DEF Event

LEMMA EventsFinite ==
  ASSUME NEW n \in Nat, NEW E \in SUBSET Event(n)
  PROVE  IsFiniteSet(E)
<1>. DEFINE Rank == [e \in E |-> IF e.kind = "message-posted" THEN 2 * e.id ELSE 2 * e.id + 1]
<1>1. \A e \in E : /\ e.id \in 1 .. n /\ e.kind \in {"message-posted", "mention-received"}
                   /\ e = [id |-> e.id, kind |-> e.kind]
  BY DEF Event, EventKinds
<1>2. Rank \in [E -> 0 .. 2 * n + 1]
  BY <1>1
<1>3. \A d, e \in E : Rank[d] = Rank[e] => d = e
  <2>. SUFFICES ASSUME NEW d \in E, NEW e \in E, Rank[d] = Rank[e]
                PROVE  d = e
    OBVIOUS
  <2>1. d.id = e.id /\ d.kind = e.kind
    BY <1>1
  <2>. QED
    BY <1>1, <2>1
<1>4. Rank \in Injection(E, 0 .. 2 * n + 1)
  BY <1>2, <1>3 DEF Injection, IsInjective
<1>5. IsFiniteSet(0 .. 2 * n + 1)
  <2>1. 0 \in Int /\ 2 * n + 1 \in Int
    OBVIOUS
  <2>. QED
    BY <2>1, FS_Interval
<1>. HIDE DEF Rank
<1>. QED
  BY <1>4, <1>5, FS_Injection

\* A replay goes forward, from the second asked for, and leaves no event out.
LEMMA ReplayFacts ==
  ASSUME TypeOK, NEW ts, NEW r \in Replay(ts)
  PROVE  /\ r \in Seq(Event(Len(posts)))
         /\ \A a \in DOMAIN r : TsOf(r[a].id) >= ts
         /\ \A a, b \in DOMAIN r : a < b => r[a].id <= r[b].id
         /\ \A i \in Reached : TsOf(i) >= ts =>
              /\ \E a \in DOMAIN r : r[a] = PostedEvent(i)
              /\ MentionsMe(posts[i]) /\ NotifiesMe(posts[i]) =>
                   \E a \in DOMAIN r : r[a] = MentionEvent(i)
<1>. DEFINE E == {e \in [id : {i \in Reached : posts[i].ts >= ts}, kind : EventKinds] :
               e.kind = "mention-received" => MentionsMe(posts[e.id]) /\ NotifiesMe(posts[e.id])}
<1>1. Len(posts) \in Nat
  BY PostsTyped
<1>2. E \subseteq Event(Len(posts)) /\ Cardinality(E) \in Nat
  <2>1. E \subseteq Event(Len(posts))
    BY DEF Event, Reached
  <2>. HIDE DEF E
  <2>. QED
    BY <1>1, <2>1, EventsFinite, FS_CardinalityType
<1>3. /\ r \in [1 .. Cardinality(E) -> E]
      /\ \A x \in E : \E a \in DOMAIN r : r[a] = x
      /\ \A a, b \in DOMAIN r : a < b =>
           r[a].id < r[b].id \/ (r[a].id = r[b].id /\ r[a].kind = "message-posted")
  BY DEF Replay, InOrder
<1>4. \A a \in DOMAIN r : r[a] \in E
  BY <1>3
<1>5. r \in Seq(Event(Len(posts)))
  <2>. HIDE DEF E
  <2>. QED
    BY <1>2, <1>3, SeqDef
<1>6. \A a \in DOMAIN r : r[a].id \in 1 .. Len(posts) /\ TsOf(r[a].id) >= ts
  BY <1>4 DEF TsOf, Reached
<1>7. \A a, b \in DOMAIN r : a < b => r[a].id <= r[b].id
  BY <1>1, <1>3, <1>6
<1>8. \A i \in Reached : TsOf(i) >= ts =>
        /\ PostedEvent(i) \in E
        /\ MentionsMe(posts[i]) /\ NotifiesMe(posts[i]) => MentionEvent(i) \in E
  BY DEF TsOf, PostedEvent, MentionEvent, EventKinds
<1>. QED
  BY <1>3, <1>5, <1>6, <1>7, <1>8

\* The mention catch-up fetches every mention since the cursor its pages reach.
LEMMA MentionsFetched ==
  ASSUME TypeOK, ReplayAnswers
  PROVE  /\ todo' \in Seq(1 .. Len(posts))
         /\ \A i \in Reached : TsOf(i) >= cursor /\ NotifiesMe(posts[i]) =>
              \E a \in DOMAIN todo' : todo'[a] = i
<1>. DEFINE S == {i \in Reached : posts[i].ts >= cursor /\ NotifiesMe(posts[i])}
<1>1. Len(posts) \in Nat
  BY PostsTyped
<1>2. S \subseteq 1 .. Len(posts) /\ Cardinality(S) \in Nat
  <2>1. S \subseteq 1 .. Len(posts)
    BY DEF Reached
  <2>. HIDE DEF S
  <2>. QED
    BY <1>1, <2>1, IndicesFinite
<1>3. todo' \in [1 .. Cardinality(S) -> S] /\ \A x \in S : \E a \in DOMAIN todo' : todo'[a] = x
  BY DEF ReplayAnswers, InOrder
<1>4. todo' \in Seq(1 .. Len(posts))
  <2>. HIDE DEF S
  <2>1. todo' \in [1 .. Cardinality(S) -> 1 .. Len(posts)]
    BY <1>2, <1>3
  <2>. QED
    BY <1>2, <2>1, SeqDef
<1>. QED
  BY <1>3, <1>4 DEF TsOf

LEMMA RowsFetched ==
  ASSUME TypeOK, CatchUpChannels
  PROVE  todo' \in Seq(1 .. Len(posts))
<1>. DEFINE R == {r \in (1 .. Len(posts)) \X Intents : posts[r[1]].by # "me" /\ Fetched(r[2], r[1])}
<1>1. CASE UNCHANGED todo
  BY <1>1 DEF TypeOK
<1>2. CASE \E rows \in [1 .. Cardinality(R) -> R] : todo' = [a \in DOMAIN rows |-> rows[a][1]]
  <2>1. Len(posts) \in Nat
    BY PostsTyped
  <2>2. R \subseteq (1 .. Len(posts)) \X Intents
    OBVIOUS
  <2>3. Cardinality(R) \in Nat
    <3>. HIDE DEF R
    <3>1. IsFiniteSet((1 .. Len(posts)) \X Intents)
      <4>1. IsFiniteSet(1 .. Len(posts)) /\ IsFiniteSet(Intents)
        BY <2>1, FS_Interval, DeliveryAssumption
      <4>. QED
        BY <4>1, FS_Product
    <3>. QED
      BY <2>2, <3>1, FS_Subset, FS_CardinalityType
  <2>4. \A r \in R : r[1] \in 1 .. Len(posts)
    BY <2>2
  <2>. HIDE DEF R
  <2>5. todo' \in [1 .. Cardinality(R) -> 1 .. Len(posts)]
    BY <1>2, <2>4
  <2>. QED
    BY <2>3, <2>5, SeqDef
<1>. QED
  BY <1>1, <1>2 DEF CatchUpChannels, InOrder

-----------------------------------------------------------------------------
(* Typing *)

LEMMA AdvancedFact ==
  ASSUME TypeOK, NEW ts \in 0 .. clock
  PROVE  Advanced(ts) \in {NoCursor} \cup 0 .. clock /\ Advanced(ts) >= cursor
         /\ Advanced(ts) \in {cursor, ts}
BY PostsTyped DEF Advanced, TypeOK, NoCursor

\* The log after one more block: the oldest makes room once it is full.
OneMore(t, s, id) ==
  /\ t[Len(t)] = id
  /\ \/ Len(t) = Len(s) + 1 /\ \A a \in 1 .. Len(s) : t[a] = s[a]
     \/ /\ Len(s) = Capacity /\ Len(t) = Capacity
        /\ \A a \in 1 .. Capacity - 1 : t[a] = s[a + 1]

LEMMA RetainedFact ==
  ASSUME NEW S, NEW s \in Seq(S), Len(s) <= Capacity, NEW id \in S
  PROVE  /\ Retained(Append(s, id)) \in Seq(S) /\ Len(Retained(Append(s, id))) <= Capacity
         /\ OneMore(Retained(Append(s, id)), s, id)
<1>. DEFINE u == Append(s, id)
            t == Retained(Append(s, id))
<1>1. /\ u \in Seq(S) /\ Len(u) = Len(s) + 1 /\ u # <<>> /\ u[Len(s) + 1] = id
      /\ \A a \in 1 .. Len(s) : u[a] = s[a]
  BY AppendProperties
<1>2. Len(s) \in Nat /\ Capacity \in Nat \ {0}
  BY LenProperties, DeliveryAssumption
<1>3. t = IF Len(u) > Capacity THEN Tail(u) ELSE u
  BY DEF Retained
<1>. HIDE DEF u, t
<1>4. CASE Len(u) > Capacity
  <2>1. /\ Tail(u) \in Seq(S) /\ Len(Tail(u)) = Len(s) /\ Len(s) = Capacity
        /\ \A a \in 1 .. Len(s) : Tail(u)[a] = u[a + 1]
    BY <1>1, <1>2, <1>4, HeadTailProperties
  <2>2. \A a \in 1 .. Capacity - 1 : t[a] = s[a + 1]
    BY <1>1, <1>2, <1>3, <1>4, <2>1
  <2>3. t \in Seq(S) /\ Len(t) = Capacity /\ t[Len(t)] = id
    BY <1>1, <1>2, <1>3, <1>4, <2>1
  <2>. QED
    BY <1>2, <2>1, <2>2, <2>3 DEF t, OneMore
<1>5. CASE ~(Len(u) > Capacity)
  <2>1. t \in Seq(S) /\ Len(t) = Len(s) + 1 /\ Len(t) <= Capacity /\ t[Len(t)] = id
        /\ \A a \in 1 .. Len(s) : t[a] = s[a]
    BY <1>1, <1>2, <1>3, <1>5
  <2>. QED
    BY <1>2, <2>1 DEF t, OneMore
<1>. QED
  BY <1>4, <1>5

Passes(e) == ShouldDeliver(e, posts[e.id]) /\ boot # "up" /\ NarrowMatches(e, posts[e.id])
Logged(i) == \E a \in DOMAIN delivered : delivered[a] = i
IsFresh(e) == Passes(e) /\ posts[e.id].by # "me" /\ ~Logged(e.id)

LEMMA DispatchFacts ==
  ASSUME TypeOK, Dispatch
  PROVE  /\ inbox[1] \in Event(Len(posts)) /\ Len(inbox) \in Nat \ {0}
         /\ inbox' \in Seq(Event(Len(posts))) /\ Len(inbox') = Len(inbox) - 1
         /\ \A a \in 1 .. Len(inbox) - 1 : inbox'[a] = inbox[a + 1]
         /\ pump = "on" /\ emitted' = inbox[1].id
         /\ cursor' = IF /\ Passes(inbox[1]) /\ posts[inbox[1].id].by # "me"
                         /\ inbox[1].kind = "mention-received"
                      THEN Advanced(TsOf(inbox[1].id)) ELSE cursor
         /\ seen' = IF inbox[1].kind = "message-posted" /\ AsksNewTopics(posts[inbox[1].id])
                    THEN seen \cup {Key(posts[inbox[1].id])} ELSE seen
         /\ seenTopics' = IF /\ inbox[1].kind = "message-posted"
                             /\ ShouldDeliver(inbox[1], posts[inbox[1].id])
                             /\ ~RefMatches(posts[inbox[1].id])
                             /\ NewTopicsMatches(posts[inbox[1].id])
                          THEN seenTopics \cup {Key(posts[inbox[1].id])} ELSE seenTopics
         /\ ~IsFresh(inbox[1]) => UNCHANGED <<delivered, shown, heard, pump>>
         /\ IsFresh(inbox[1]) =>
              /\ delivered' = Retained(Append(delivered, inbox[1].id))
              /\ \/ /\ shown' = [shown EXCEPT ![inbox[1].id] = @ + 1]
                    /\ heard' = heard \cup {inbox[1].id} /\ UNCHANGED pump
                 \/ pump' = "parked" /\ UNCHANGED <<shown, heard>>
         /\ UNCHANGED <<mode, narrow, clock, posts, since, excused, beyond, boot, startedAt, todo, from,
                        skimmed, faults>>
<1>1. inbox \in Seq(Event(Len(posts))) /\ inbox # <<>> /\ delivered \in Seq(1 .. Len(posts))
  BY DEF TypeOK, Dispatch, Event
<1>2. /\ Head(inbox) = inbox[1] /\ Len(inbox) \in Nat \ {0} /\ inbox[1] \in Event(Len(posts))
      /\ Tail(inbox) \in Seq(Event(Len(posts))) /\ Len(Tail(inbox)) = Len(inbox) - 1
      /\ \A a \in 1 .. Len(inbox) - 1 : Tail(inbox)[a] = inbox[a + 1]
  <2>1. Len(inbox) \in Nat \ {0}
    BY <1>1, EmptySeq
  <2>2. Head(inbox) = inbox[1] /\ inbox[1] \in Event(Len(posts))
    BY <1>1, <2>1, ElementOfSeq
  <2>3. /\ Tail(inbox) \in Seq(Event(Len(posts))) /\ Len(Tail(inbox)) = Len(inbox) - 1
        /\ \A a \in 1 .. Len(Tail(inbox)) : Tail(inbox)[a] = inbox[a + 1]
    BY <1>1, HeadTailProperties
  <2>. QED
    BY <2>1, <2>2, <2>3
<1>3. Contains(delivered, inbox[1].id) <=> Logged(inbox[1].id)
  BY <1>1, LenProperties DEF Contains, Logged
<1>4. /\ inbox' = Tail(inbox) /\ pump = "on" /\ emitted' = inbox[1].id
      /\ UNCHANGED <<mode, narrow, clock, posts, since, excused, beyond, boot, startedAt, todo, from,
                     skimmed, faults>>
  BY <1>2 DEF Dispatch, atBoot
<1>5. /\ cursor' = IF /\ Passes(inbox[1]) /\ posts[inbox[1].id].by # "me"
                      /\ inbox[1].kind = "mention-received"
                   THEN Advanced(TsOf(inbox[1].id)) ELSE cursor
      /\ seen' = IF inbox[1].kind = "message-posted" /\ AsksNewTopics(posts[inbox[1].id])
                 THEN seen \cup {Key(posts[inbox[1].id])} ELSE seen
      /\ seenTopics' = IF /\ inbox[1].kind = "message-posted"
                          /\ ShouldDeliver(inbox[1], posts[inbox[1].id])
                          /\ ~RefMatches(posts[inbox[1].id])
                          /\ NewTopicsMatches(posts[inbox[1].id])
                       THEN seenTopics \cup {Key(posts[inbox[1].id])} ELSE seenTopics
  BY <1>2 DEF Dispatch, Passes, TsOf
<1>6. ~IsFresh(inbox[1]) => UNCHANGED <<delivered, shown, heard, pump>>
  BY <1>2, <1>3 DEF Dispatch, Passes, IsFresh
<1>7. IsFresh(inbox[1]) =>
        /\ delivered' = Retained(Append(delivered, inbox[1].id))
        /\ \/ /\ shown' = [shown EXCEPT ![inbox[1].id] = @ + 1]
              /\ heard' = heard \cup {inbox[1].id} /\ UNCHANGED pump
           \/ pump' = "parked" /\ UNCHANGED <<shown, heard>>
  BY <1>2, <1>3 DEF Dispatch, Passes, IsFresh
<1>. QED
  BY <1>2, <1>4, <1>5, <1>6, <1>7

LEMMA OneTwo ==
  ASSUME NEW S, NEW x \in S, NEW y \in S
  PROVE  /\ <<x>> \in Seq(S) /\ Len(<<x>>) = 1 /\ <<x>>[1] = x
         /\ <<x, y>> \in Seq(S) /\ Len(<<x, y>>) = 2 /\ <<x, y>>[1] = x /\ <<x, y>>[2] = y
         /\ <<x>> \o <<y>> = <<x, y>>
<1>1. /\ <<x>> \in Seq(S) /\ Len(<<x>>) = 1 /\ <<x>>[1] = x
      /\ <<y>> \in Seq(S) /\ Len(<<y>>) = 1 /\ <<y>>[1] = y
      /\ <<x, y>> \in Seq(S) /\ Len(<<x, y>>) = 2 /\ <<x, y>>[1] = x /\ <<x, y>>[2] = y
  OBVIOUS
<1>. DEFINE u == <<x>>
            v == <<y>>
            w == <<x, y>>
<1>2. u \o v = w
  <2>. HIDE DEF u, v, w
  <2>1. /\ u \o v \in Seq(S) /\ Len(u \o v) = 2
        /\ \A i \in 1 .. 2 : (u \o v)[i] = IF i <= 1 THEN u[i] ELSE v[i - 1]
    BY <1>1, ConcatProperties DEF u, v
  <2>2. \A i \in 1 .. 2 : (u \o v)[i] = w[i]
    BY <1>1, <2>1 DEF u, v, w
  <2>. QED
    BY <1>1, <2>1, <2>2, SeqEqual DEF w
<1>. QED
  BY <1>1, <1>2

\* The one or two events of a new message.
LEMMA InboundFacts ==
  ASSUME NEW n \in Nat \ {0}, NEW m, NEW identified \in BOOLEAN
  PROVE  LET q == InboundEvents(n, m, identified) IN
         /\ q \in Seq(Event(n)) /\ Len(q) \in {1, 2} /\ \A a \in 1 .. Len(q) : q[a].id = n
         /\ q[1] = PostedEvent(n)
         /\ identified /\ MentionsMe(m) => Len(q) = 2 /\ q[2] = MentionEvent(n)
<1>. DEFINE q == InboundEvents(n, m, identified)
            x == PostedEvent(n)
            y == MentionEvent(n)
<1>1. x \in Event(n) /\ y \in Event(n) /\ x.id = n /\ y.id = n
  BY DEF PostedEvent, MentionEvent, Event, EventKinds
<1>2. CASE identified /\ MentionsMe(m)
  <2>1. q = <<x>> \o <<y>>
    BY <1>2 DEF InboundEvents, PostedEvent, MentionEvent
  <2>. HIDE DEF x, y, q
  <2>0. \A S : x \in S /\ y \in S => <<x>> \o <<y>> = <<x, y>>
    BY OneTwo
  <2>2. q = <<x, y>>
    BY <1>1, <2>0, <2>1
  <2>3. /\ q \in Seq(Event(n)) /\ Len(q) = 2 /\ q[1] = x /\ q[2] = y
    BY <1>1, <2>2, OneTwo
  <2>. QED
    BY <1>1, <2>3 DEF x, y, q
<1>3. CASE ~(identified /\ MentionsMe(m))
  <2>1. q = <<x>> \o <<>>
    BY <1>3 DEF InboundEvents, PostedEvent
  <2>. HIDE DEF x, y, q
  <2>2. q = <<x>>
    BY <2>1
  <2>3. q \in Seq(Event(n)) /\ Len(q) = 1 /\ q[1] = x
    BY <1>1, <2>2, OneTwo
  <2>. QED
    BY <1>1, <1>3, <2>3 DEF x, y, q
<1>. QED
  BY <1>2, <1>3

LEMMA PostFacts ==
  ASSUME TypeOK, Post
  PROVE  /\ Len(posts) \in Nat /\ Len(posts) < MaxPosts /\ Len(posts') = Len(posts) + 1
         /\ \A i \in 1 .. Len(posts) : posts'[i] = posts[i]
         /\ posts'[Len(posts) + 1] \in Posted /\ posts'[Len(posts) + 1].ts = clock
         /\ posts' \in Seq(Posted)
         /\ inbox' \in Seq(Event(Len(posts) + 1)) /\ Len(inbox') >= Len(inbox)
         /\ inbox \in Seq(Event(Len(posts))) /\ Len(inbox) \in Nat /\ Len(inbox') \in Nat
         /\ \A a \in 1 .. Len(inbox) : inbox'[a] = inbox[a]
         /\ \A a \in Len(inbox) + 1 .. Len(inbox') : inbox'[a].id = Len(posts) + 1
         /\ from # -1 /\ ReachesQueue(posts'[Len(posts) + 1]) =>
              /\ \E a \in DOMAIN inbox' : inbox'[a] = PostedEvent(Len(posts) + 1)
              /\ mode # "lazy" /\ MentionsMe(posts'[Len(posts) + 1]) =>
                   \E a \in DOMAIN inbox' : inbox'[a] = MentionEvent(Len(posts) + 1)
         /\ from = -1 => UNCHANGED inbox
         /\ UNCHANGED <<mode, narrow, clock, marks, atBoot, pump, from, emitted, seen, seenTopics,
                        delivered, shown, skimmed, heard, faults>>
<1>. DEFINE n == Len(posts) + 1
<1>1. PICK m \in Posted :
        /\ m.ts = clock /\ posts' = Append(posts, m)
        /\ inbox' = IF from # -1 /\ ReachesQueue(m)
                    THEN inbox \o InboundEvents(n, m, mode # "lazy") ELSE inbox
  <2>1. PICK k \in Kinds :
          LET m == [chan |-> k.chan, topic |-> k.topic, by |-> k.by, says |-> k.says,
                    ts |-> clock]
          IN /\ posts' = Append(posts, m)
             /\ inbox' = IF from # -1 /\ ReachesQueue(m)
                         THEN inbox \o InboundEvents(n, m, mode # "lazy") ELSE inbox
    BY DEF Post
  <2>. DEFINE m == [chan |-> k.chan, topic |-> k.topic, by |-> k.by, says |-> k.says,
                    ts |-> clock]
  <2>2. m \in Posted /\ m.ts = clock
    BY DeliveryAssumption, PostsTyped DEF Posted
  <2>. QED
    BY <2>1, <2>2
<1>2. posts \in Seq(Posted) /\ inbox \in Seq(Event(Len(posts))) /\ Len(posts) \in Nat
  BY PostsTyped DEF TypeOK, Posted, Event
<1>3. /\ posts' \in Seq(Posted) /\ Len(posts') = n /\ posts'[n] = m
      /\ \A i \in 1 .. Len(posts) : posts'[i] = posts[i]
  BY <1>1, <1>2, AppendProperties
<1>4. Len(posts) < MaxPosts /\ UNCHANGED <<mode, narrow, clock, marks, atBoot, pump, from, emitted, seen,
        seenTopics, delivered, shown, skimmed, heard, faults>>
  BY DEF Post
<1>5. inbox \in Seq(Event(n)) /\ Len(inbox) \in Nat
  <2>1. Event(Len(posts)) \subseteq Event(n)
    BY <1>2 DEF Event
  <2>. QED
    BY <1>2, <2>1, SeqMonotonic, LenProperties
<1>6. /\ inbox' \in Seq(Event(n)) /\ Len(inbox') >= Len(inbox) /\ Len(inbox') \in Nat
      /\ \A a \in 1 .. Len(inbox) : inbox'[a] = inbox[a]
      /\ \A a \in Len(inbox) + 1 .. Len(inbox') : inbox'[a].id = n
      /\ from # -1 /\ ReachesQueue(m) =>
           /\ \E a \in DOMAIN inbox' : inbox'[a] = PostedEvent(n)
           /\ mode # "lazy" /\ MentionsMe(m) =>
                \E a \in DOMAIN inbox' : inbox'[a] = MentionEvent(n)
      /\ from = -1 => UNCHANGED inbox
  <2>1. CASE ~(from # -1 /\ ReachesQueue(m))
    <3>1. inbox' = inbox
      BY <1>1, <2>1
    <3>. QED
      BY <1>5, <2>1, <3>1
  <2>2. CASE from # -1 /\ ReachesQueue(m)
    <3>. DEFINE q == InboundEvents(n, m, mode # "lazy")
    <3>1. inbox' = inbox \o q
      BY <1>1, <2>2
    <3>2. /\ q \in Seq(Event(n)) /\ Len(q) \in {1, 2} /\ \A a \in 1 .. Len(q) : q[a].id = n
          /\ q[1] = PostedEvent(n)
          /\ mode # "lazy" /\ MentionsMe(m) => Len(q) = 2 /\ q[2] = MentionEvent(n)
      <4>1. n \in Nat \ {0}
        BY <1>2
      <4>. HIDE DEF n
      <4>. QED
        BY <4>1, InboundFacts
    <3>. HIDE DEF q
    <3>3. /\ inbox' \in Seq(Event(n)) /\ Len(inbox') = Len(inbox) + Len(q)
          /\ \A a \in 1 .. Len(inbox) + Len(q) :
               inbox'[a] = IF a <= Len(inbox) THEN inbox[a] ELSE q[a - Len(inbox)]
      BY <1>5, <3>1, <3>2, ConcatProperties
    <3>4. DOMAIN inbox' = 1 .. Len(inbox')
      BY <3>3, LenProperties
    <3>5. \A a \in 1 .. Len(inbox) : inbox'[a] = inbox[a]
      BY <1>5, <3>2, <3>3
    <3>6. \A a \in Len(inbox) + 1 .. Len(inbox') : inbox'[a].id = n
      <4>. SUFFICES ASSUME NEW a \in Len(inbox) + 1 .. Len(inbox')
                    PROVE  inbox'[a].id = n
        OBVIOUS
      <4>1. inbox'[a] = q[a - Len(inbox)] /\ a - Len(inbox) \in 1 .. Len(q)
        BY <1>5, <3>2, <3>3
      <4>2. q[a - Len(inbox)].id = n
        BY <3>2, <4>1
      <4>. QED
        BY <4>1, <4>2
    <3>7. /\ inbox'[Len(inbox) + 1] = PostedEvent(n) /\ Len(inbox) + 1 \in DOMAIN inbox'
          /\ mode # "lazy" /\ MentionsMe(m) =>
               inbox'[Len(inbox) + 2] = MentionEvent(n) /\ Len(inbox) + 2 \in DOMAIN inbox'
      BY <1>5, <3>2, <3>3, <3>4
    <3>8. /\ from # -1 /\ ReachesQueue(m) =>
               /\ \E a \in DOMAIN inbox' : inbox'[a] = PostedEvent(n)
               /\ mode # "lazy" /\ MentionsMe(m) =>
                    \E a \in DOMAIN inbox' : inbox'[a] = MentionEvent(n)
          /\ from = -1 => UNCHANGED inbox
      BY <2>2, <3>7
    <3>9. Len(inbox') >= Len(inbox) /\ Len(inbox') \in Nat
      BY <1>5, <3>2, <3>3
    <3>. QED
      BY <3>3, <3>5, <3>6, <3>8, <3>9
  <2>. QED
    BY <2>1, <2>2
<1>. QED
  BY <1>1, <1>2, <1>3, <1>4, <1>5, <1>6

\* The stream is cut after n events and goes on with r: a replay from the last of
\* them, or nothing, when the gap is given up.
CutAt(n, r) ==
  LET lost == {inbox[a].id : a \in n + 1 .. Len(inbox)}
      last == IF n = 0 THEN emitted ELSE inbox[n].id
  IN \/ r = <<>> /\ excused' = excused \cup lost /\ UNCHANGED beyond
     \/ /\ last # 0 /\ r \in Replay(TsOf(last))
        /\ excused' = excused \cup (lost \ Reached)
        /\ beyond' = beyond \cup (lost \ (Reached \cup excused \cup heard))

LEMMA GapFacts ==
  ASSUME TypeOK, GapReplay
  PROVE  /\ pump = "on" /\ from # -1
         /\ excused \subseteq excused'
         /\ \E n \in 0 .. Len(inbox), r \in Seq(Event(Len(posts))) :
              /\ CutAt(n, r)
              /\ inbox' \in Seq(Event(Len(posts))) /\ Len(inbox') = n + Len(r)
              /\ \A a \in 1 .. n + Len(r) :
                   inbox'[a] = IF a <= n THEN inbox[a] ELSE r[a - n]
         /\ UNCHANGED <<mode, narrow, clock, posts, cursor, since, boot, startedAt, todo, pump,
                        from, emitted, seen, seenTopics, delivered, shown, skimmed, heard>>
<1>1. pump = "on" /\ from # -1
  BY DEF GapReplay
<1>2. UNCHANGED <<mode, narrow, clock, posts, cursor, since, boot, startedAt, todo, pump, from,
                  emitted, seen, seenTopics, delivered, shown, skimmed, heard>>
  BY DEF GapReplay, atBoot
<1>3. PICK n \in 0 .. Len(inbox) :
        LET last == IF n = 0 THEN emitted ELSE inbox[n].id
            lost == {inbox[a].id : a \in n + 1 .. Len(inbox)}
        IN \/ /\ inbox' = SubSeq(inbox, 1, n)
              /\ excused' = excused \cup lost
              /\ UNCHANGED beyond
           \/ /\ last # 0
              /\ \E replayed \in Replay(TsOf(last)) :
                   inbox' = SubSeq(inbox, 1, n) \o replayed
              /\ excused' = excused \cup (lost \ Reached)
              /\ beyond' = beyond \cup (lost \ (Reached \cup excused \cup heard))
  BY DEF GapReplay, TsOf
<1>. DEFINE last == IF n = 0 THEN emitted ELSE inbox[n].id
            lost == {inbox[a].id : a \in n + 1 .. Len(inbox)}
            s == SubSeq(inbox, 1, n)
<1>4. s \in Seq(Event(Len(posts))) /\ Len(s) = n /\ \A a \in 1 .. n : s[a] = inbox[a]
  <2>1. inbox \in Seq(Event(Len(posts)))
    BY DEF TypeOK, Event
  <2>2. Len(inbox) \in Nat /\ n \in Int /\ \A a \in 1 .. n : inbox[a] \in Event(Len(posts))
    BY <2>1, LenProperties, ElementOfSeq
  <2>3. /\ s \in Seq(Event(Len(posts))) /\ Len(s) = IF 1 <= n THEN n - 1 + 1 ELSE 0
        /\ \A a \in 1 .. n - 1 + 1 : s[a] = inbox[1 + a - 1]
    BY <2>2, SubSeqProperties
  <2>. QED
    BY <2>2, <2>3
<1>5. excused \subseteq excused'
  BY <1>3
<1>6. \E r \in Seq(Event(Len(posts))) : CutAt(n, r) /\ inbox' = s \o r
  <2>1. CASE inbox' = s /\ excused' = excused \cup lost /\ UNCHANGED beyond
    <3>1. <<>> \in Seq(Event(Len(posts))) /\ s \o <<>> = s
      BY <1>4, ConcatEmptySeq
    <3>2. CutAt(n, <<>>)
      BY <2>1 DEF CutAt
    <3>. QED
      BY <2>1, <3>1, <3>2
  <2>2. ASSUME last # 0, NEW r \in Replay(TsOf(last)), inbox' = s \o r,
               excused' = excused \cup (lost \ Reached),
               beyond' = beyond \cup (lost \ (Reached \cup excused \cup heard))
        PROVE  CutAt(n, r) /\ r \in Seq(Event(Len(posts)))
    <3>1. r \in Seq(Event(Len(posts)))
      BY ReplayFacts
    <3>. QED
      BY <2>2, <3>1 DEF CutAt
  <2>. QED
    BY <1>3, <2>1, <2>2
<1>7. PICK r \in Seq(Event(Len(posts))) : CutAt(n, r) /\ inbox' = s \o r
  BY <1>6
<1>. HIDE DEF s, last, lost
<1>8. /\ inbox' \in Seq(Event(Len(posts))) /\ Len(inbox') = n + Len(r)
      /\ \A a \in 1 .. n + Len(r) : inbox'[a] = IF a <= n THEN inbox[a] ELSE r[a - n]
  <2>1. /\ s \o r \in Seq(Event(Len(posts))) /\ Len(s \o r) = n + Len(r)
        /\ \A a \in 1 .. n + Len(r) : (s \o r)[a] = IF a <= n THEN s[a] ELSE r[a - n]
    BY <1>4, ConcatProperties
  <2>2. \A a \in 1 .. n + Len(r) : a <= n => a \in 1 .. n
    OBVIOUS
  <2>. QED
    BY <1>4, <1>7, <2>1, <2>2
<1>. QED
  BY <1>1, <1>2, <1>5, <1>7, <1>8

LEMMA TypeStep ==
  ASSUME TypeOK, InStep, [Next]_vars
  PROVE  TypeOK'
<1>. USE DEF NoCursor
<1>0. /\ Len(posts) \in Nat /\ clock \in Nat /\ todo \in Seq(1 .. Len(posts))
      /\ inbox \in Seq(Event(Len(posts))) /\ delivered \in Seq(1 .. Len(posts))
      /\ posts \in Seq(Posted)
  BY PostsTyped DEF TypeOK, Event, Posted
<1>1. CASE Post
  <2>. DEFINE n == Len(posts) + 1
  <2>1. 1 .. Len(posts) \subseteq 1 .. n
    BY <1>0
  <2>2. todo' \in Seq(1 .. n) /\ delivered' \in Seq(1 .. n)
    <3>1. todo' = todo /\ delivered' = delivered
      BY <1>1, PostFacts DEF atBoot
    <3>. QED
      BY <1>0, <2>1, <3>1, SeqMonotonic
  <2>3. inbox' \in Seq(Event(n)) /\ posts' \in Seq(Posted) /\ Len(posts') = n
    BY <1>1, PostFacts
  <2>4. heard' \subseteq 1 .. n /\ excused' \subseteq 1 .. n
    BY <1>1, <2>1, PostFacts DEF TypeOK, marks
  <2>5. from' \in -1 .. n /\ emitted' \in 0 .. n
    BY <1>0, <1>1, PostFacts DEF TypeOK
  <2>6. UNCHANGED <<mode, narrow, clock, marks, boot, startedAt, pump, delivered, shown, skimmed>>
    BY <1>1, PostFacts DEF atBoot
  <2>. QED
    BY <2>2, <2>3, <2>4, <2>5, <2>6 DEF TypeOK, Event, Posted, marks
<1>2. CASE Tick
  <2>1. clock' \in 0 .. MaxClock /\ 0 .. clock \subseteq 0 .. clock'
    BY <1>0, <1>2, DeliveryAssumption DEF Tick, TypeOK
  <2>2. Posted \subseteq Posted'
    BY <2>1 DEF Posted
  <2>3. posts' \in Seq(Posted')
    BY <1>0, <1>2, <2>2, SeqMonotonic DEF Tick
  <2>4. UNCHANGED <<mode, narrow, posts, marks, atBoot, live, skimmed, heard, faults>>
    BY <1>2 DEF Tick
  <2>. QED
    BY <2>1, <2>3, <2>4 DEF TypeOK, Posted, marks, atBoot, live
<1>3. CASE Start
  BY <1>3 DEF Start, TypeOK, marks, ModeNames
<1>4. CASE Bind
  BY <1>4 DEF Bind, TypeOK, marks, live
<1>5. CASE RegisterDefaults
  BY <1>0, <1>5 DEF RegisterDefaults, TypeOK, marks, atBoot
<1>18. CASE RegisterFails
  BY <1>0, <1>18 DEF RegisterFails, TypeOK, marks, live
<1>6. CASE ProducerRegisters
  <2>1. excused' \subseteq 1 .. Len(posts) /\ excused \subseteq excused'
    BY <1>6 DEF ProducerRegisters, Missed, TypeOK
  <2>. QED
    BY <1>0, <1>6, <2>1 DEF ProducerRegisters, TypeOK, atBoot
<1>7. CASE CatchUpMentions
  <2>1. /\ boot' \in {"skim", "replay"} /\ startedAt' = clock
        /\ \/ cursor' = clock /\ since' = clock
           \/ UNCHANGED <<cursor, since>>
    BY <1>7 DEF CatchUpMentions
  <2>2. UNCHANGED <<mode, narrow, clock, posts, excused, beyond, todo, live, skimmed, heard, faults>>
    BY <1>7 DEF CatchUpMentions
  <2>3. /\ cursor' \in {NoCursor} \cup 0 .. clock /\ since' \in {NoCursor} \cup 0 .. clock
        /\ since' <= cursor' /\ startedAt' \in 0 .. clock
    <3>1. /\ cursor \in {NoCursor} \cup 0 .. clock /\ since \in {NoCursor} \cup 0 .. clock
          /\ since <= cursor /\ clock \in 0 .. clock /\ clock <= clock
      BY <1>0 DEF TypeOK
    <3>. QED
      BY <2>1, <3>1
  <2>. QED
    BY <2>1, <2>2, <2>3 DEF TypeOK, live
<1>8. CASE ReplayAnswers
  <2>1. todo' \in Seq(1 .. Len(posts))
    BY <1>8, MentionsFetched
  <2>2. excused' \subseteq 1 .. Len(posts) /\ beyond' \subseteq excused'
    BY <1>8 DEF ReplayAnswers, Cut, Missed, TypeOK
  <2>3. /\ boot' = "mentions"
        /\ UNCHANGED <<mode, narrow, clock, posts, cursor, since, startedAt, live, skimmed, heard>>
    BY <1>8 DEF ReplayAnswers
  <2>. QED
    BY <2>1, <2>2, <2>3 DEF TypeOK, live
<1>9. CASE Surface
  <2>1. Head(todo) \in 1 .. Len(posts) /\ todo' \in Seq(1 .. Len(posts))
    BY <1>0, <1>9, HeadTailProperties DEF Surface
  <2>2. Head(todo) \in Ids
    BY <1>0, <2>1, DeliveryAssumption DEF InStep, Ids
  <2>3. skimmed' \in [Ids -> Nat]
    <3>1. PICK k \in Ids : skimmed' = [skimmed EXCEPT ![k] = @ + 1]
      BY <1>9, <2>2 DEF Surface
    <3>. QED
      BY <3>1 DEF TypeOK
  <2>4. heard' \subseteq 1 .. Len(posts)
    BY <1>9, <2>1 DEF Surface, TypeOK
  <2>. QED
    BY <1>9, <2>1, <2>3, <2>4 DEF Surface, TypeOK, live, marks
<1>10. CASE MentionsDone
  <2>1. startedAt \in 0 .. clock
    BY DEF TypeOK
  <2>2. cursor' \in {NoCursor} \cup 0 .. clock /\ cursor' >= cursor
    BY <1>10, <2>1, AdvancedFact DEF MentionsDone
  <2>3. since' <= cursor'
    BY <1>0, <1>10, <2>2 DEF MentionsDone, TypeOK
  <2>. QED
    BY <1>10, <2>2, <2>3 DEF MentionsDone, TypeOK, live
<1>11. CASE CatchUpFails
  <2>1. excused' \subseteq 1 .. Len(posts) /\ excused \subseteq excused'
    BY <1>11 DEF CatchUpFails, Missed, TypeOK
  <2>. QED
    BY <1>11, <2>1 DEF CatchUpFails, TypeOK, live
<1>12. CASE CatchUpChannels
  <2>1. todo' \in Seq(1 .. Len(posts))
    BY <1>12, RowsFetched
  <2>2. boot' \in {"skimmed", "channels"}
    BY <1>12 DEF CatchUpChannels
  <2>3. UNCHANGED <<mode, narrow, clock, posts, marks, startedAt, live, skimmed, heard, faults>>
    BY <1>12 DEF CatchUpChannels
  <2>. QED
    BY <2>1, <2>2, <2>3 DEF TypeOK, live, marks
<1>13. CASE Serve
  BY <1>13 DEF Serve, TypeOK, marks
<1>14. CASE Dispatch
  <2>. DEFINE e == inbox[1]
  <2>1. e \in Event(Len(posts)) /\ e.id \in 1 .. Len(posts) /\ e.id \in Ids
    BY <1>0, <1>14, DispatchFacts, DeliveryAssumption DEF Event, InStep, Ids
  <2>2. UNCHANGED <<mode, narrow, clock, posts, since, excused, beyond, boot, startedAt, todo,
                    from, skimmed, faults>> /\ emitted' = e.id
    BY <1>14, DispatchFacts
  <2>3. cursor' \in {NoCursor} \cup 0 .. clock /\ since' <= cursor'
    <3>1. TsOf(e.id) \in 0 .. clock
      BY <2>1, PostsTyped
    <3>2. cursor' \in {cursor, Advanced(TsOf(e.id))}
      BY <1>14, DispatchFacts
    <3>3. cursor' \in {NoCursor} \cup 0 .. clock /\ cursor' >= cursor
      <4>1. cursor \in {NoCursor} \cup 0 .. clock
        BY DEF TypeOK
      <4>2. /\ Advanced(TsOf(e.id)) \in {NoCursor} \cup 0 .. clock
            /\ Advanced(TsOf(e.id)) >= cursor
        BY <3>1, AdvancedFact
      <4>. QED
        BY <1>0, <3>2, <4>1, <4>2
    <3>. QED
      BY <1>0, <2>2, <3>3 DEF TypeOK
  <2>4. delivered' \in Seq(1 .. Len(posts)) /\ Len(delivered') <= Capacity
    <3>1. Len(delivered) <= Capacity
      BY DEF TypeOK
    <3>2. /\ Retained(Append(delivered, e.id)) \in Seq(1 .. Len(posts))
          /\ Len(Retained(Append(delivered, e.id))) <= Capacity
      BY <1>0, <2>1, <3>1, RetainedFact
    <3>. QED
      BY <1>0, <1>14, <3>1, <3>2, DispatchFacts
  <2>5. shown' \in [Ids -> Nat] /\ heard' \subseteq 1 .. Len(posts) /\ pump' \in {"on", "parked"}
    <3>1. CASE IsFresh(e)
      <4>1. \/ shown' = [shown EXCEPT ![e.id] = @ + 1] /\ heard' = heard \cup {e.id} /\ pump' = pump
            \/ pump' = "parked" /\ UNCHANGED <<shown, heard>>
        BY <1>14, <3>1, DispatchFacts
      <4>2. shown \in [Ids -> Nat] /\ heard \subseteq 1 .. Len(posts) /\ pump = "on"
        BY <1>14, DispatchFacts DEF TypeOK
      <4>3. [shown EXCEPT ![e.id] = @ + 1] \in [Ids -> Nat]
        BY <2>1, <4>2
      <4>. HIDE DEF e
      <4>. QED
        BY <2>1, <4>1, <4>2, <4>3
    <3>2. CASE ~IsFresh(e)
      BY <1>14, <3>2, DispatchFacts DEF TypeOK
    <3>. QED
      BY <3>1, <3>2
  <2>6. inbox' \in Seq(Event(Len(posts)))
    BY <1>14, DispatchFacts
  <2>7. emitted' \in 0 .. Len(posts)
    BY <1>0, <2>1, <2>2
  <2>. QED
    BY <2>2, <2>3, <2>4, <2>5, <2>6, <2>7 DEF TypeOK, Event
<1>15. CASE GapReplay
  <2>1. inbox' \in Seq(Event(Len(posts)))
    BY <1>15, GapFacts
  <2>2. UNCHANGED <<mode, narrow, clock, posts, cursor, since, boot, startedAt, todo, pump, from,
                    emitted, delivered, shown, skimmed, heard>>
    BY <1>15, GapFacts
  <2>3. excused' \subseteq 1 .. Len(posts) /\ beyond' \subseteq excused'
    <3>1. Len(inbox) \in Nat /\ \A a \in 1 .. Len(inbox) : inbox[a].id \in 1 .. Len(posts)
      BY <1>0, EventsTyped
    <3>2. PICK n \in 0 .. Len(inbox), r \in Seq(Event(Len(posts))) : CutAt(n, r)
      BY <1>15, GapFacts
    <3>. DEFINE lost == {inbox[a].id : a \in n + 1 .. Len(inbox)}
    <3>3. lost \subseteq 1 .. Len(posts)
      BY <3>1
    <3>4. \/ excused' = excused \cup lost /\ UNCHANGED beyond
          \/ /\ excused' = excused \cup (lost \ Reached)
             /\ beyond' = beyond \cup (lost \ (Reached \cup excused \cup heard))
      BY <3>2 DEF CutAt
    <3>. HIDE DEF lost
    <3>5. excused \subseteq 1 .. Len(posts) /\ beyond \subseteq excused
      BY DEF TypeOK
    <3>. QED
      BY <3>3, <3>4, <3>5
  <2>. QED
    BY <2>1, <2>2, <2>3 DEF TypeOK, Event
<1>16. CASE Crash
  <2>1. <<>> \in Seq(1 .. Len(posts)) /\ <<>> \in Seq(Event(Len(posts))) /\ Len(<<>>) <= Capacity
    BY EmptySeq, DeliveryAssumption
  <2>2. NoBlocks \in [Ids -> Nat]
    BY DEF NoBlocks
  <2>3. /\ boot' = "down" /\ startedAt' = 0 /\ todo' = <<>> /\ pump' = "off" /\ from' = -1
        /\ inbox' = <<>> /\ emitted' = 0 /\ delivered' = <<>> /\ shown' = NoBlocks
        /\ skimmed' = NoBlocks /\ narrow' = Intents /\ UNCHANGED <<mode, clock, posts, marks, heard>>
    BY <1>16 DEF Crash
  <2>. QED
    BY <1>0, <2>1, <2>2, <2>3 DEF TypeOK, marks, Event
<1>17. CASE UNCHANGED vars
  BY <1>17 DEF vars, TypeOK, marks, atBoot, live
<1>. QED
  BY <1>1, <1>2, <1>3, <1>4, <1>5, <1>6, <1>7, <1>8, <1>9, <1>10, <1>11, <1>12, <1>13,
     <1>14, <1>15, <1>16, <1>17, <1>18 DEF Next, SeatStep

LEMMA InStepStep ==
  ASSUME TypeOK, InStep, [Next]_vars
  PROVE  InStep'
<1>0. /\ Len(posts) \in Nat /\ clock \in Nat
      /\ \A i \in 1 .. Len(posts) : TsOf(i) \in 0 .. clock
  BY PostsTyped
<1>1. CASE Post
  <2>. DEFINE n == Len(posts) + 1
  <2>1. Len(posts') = n /\ n <= MaxPosts
    BY <1>0, <1>1, PostFacts, DeliveryAssumption
  <2>2. \A i \in 1 .. Len(posts) : TsOf(i)' = TsOf(i)
    BY <1>1, PostFacts DEF TsOf
  <2>3. posts'[n].ts = clock
    BY <1>1, PostFacts
  <2>4. \A i, j \in 1 .. n : i <= j => posts'[i].ts <= posts'[j].ts
    <3>. SUFFICES ASSUME NEW i \in 1 .. n, NEW j \in 1 .. n, i <= j
                  PROVE  posts'[i].ts <= posts'[j].ts
      OBVIOUS
    <3>1. CASE j = n
      <4>1. CASE i = n
        BY <1>0, <2>3, <3>1, <4>1
      <4>2. CASE i # n
        <5>1. i \in 1 .. Len(posts)
          BY <1>0, <4>2
        <5>. QED
          BY <1>0, <2>2, <2>3, <3>1, <5>1 DEF TsOf
      <4>. QED
        BY <4>1, <4>2
    <3>2. CASE j # n
      <4>1. i \in 1 .. Len(posts) /\ j \in 1 .. Len(posts)
        BY <1>0, <3>2
      <4>. QED
        BY <2>2, <4>1 DEF InStep, TsOf
    <3>. QED
      BY <3>1, <3>2
  <2>5. UNCHANGED <<mode, boot, pump, from, emitted, seen>> /\ (from = -1 => UNCHANGED inbox)
    BY <1>1, PostFacts DEF atBoot
  <2>. QED
    BY <2>1, <2>4, <2>5 DEF InStep, TsOf
<1>2. CASE Tick
  BY <1>2 DEF Tick, InStep, TsOf, atBoot, live
<1>3. CASE Start
  BY <1>3 DEF Start, InStep, TsOf, marks
<1>4. CASE Bind
  BY <1>4 DEF Bind, InStep, TsOf, live
<1>5. CASE RegisterDefaults
  BY <1>0, <1>5 DEF RegisterDefaults, InStep, TsOf, atBoot
<1>18. CASE RegisterFails
  BY <1>18 DEF RegisterFails, InStep, TsOf, live
<1>6. CASE ProducerRegisters
  BY <1>0, <1>6 DEF ProducerRegisters, InStep, TsOf, atBoot
<1>7. CASE CatchUpMentions
  BY <1>7 DEF CatchUpMentions, InStep, TsOf, live
<1>8. CASE ReplayAnswers
  BY <1>8 DEF ReplayAnswers, InStep, TsOf, live
<1>9. CASE Surface
  BY <1>9 DEF Surface, InStep, TsOf, live
<1>10. CASE MentionsDone
  BY <1>10 DEF MentionsDone, InStep, TsOf, live
<1>11. CASE CatchUpFails
  BY <1>11 DEF CatchUpFails, InStep, TsOf, live
<1>12. CASE CatchUpChannels
  <2>1. boot = "skim" /\ boot' \in {"skimmed", "channels"}
    BY <1>12 DEF CatchUpChannels
  <2>2. UNCHANGED <<mode, narrow, posts, live>>
    BY <1>12 DEF CatchUpChannels
  <2>. QED
    BY <2>1, <2>2 DEF InStep, TsOf, live
<1>13. CASE Serve
  BY <1>13 DEF Serve, InStep, TsOf
<1>14. CASE Dispatch
  <2>1. /\ UNCHANGED <<mode, posts, boot, from>> /\ pump = "on" /\ Len(inbox) # 0
    BY <1>14, DispatchFacts
  <2>2. boot # "down" /\ from # -1
    BY <2>1, EmptySeq DEF InStep
  <2>3. mode # "lazy" => boot = "done"
    BY <2>1 DEF InStep
  <2>. QED
    BY <2>1, <2>2, <2>3 DEF InStep, TsOf
<1>15. CASE GapReplay
  BY <1>15 DEF GapReplay, InStep, TsOf, atBoot
<1>16. CASE Crash
  BY <1>16 DEF Crash, InStep, TsOf
<1>17. CASE UNCHANGED vars
  BY <1>17 DEF vars, InStep, TsOf, atBoot, live
<1>. QED
  BY <1>1, <1>2, <1>3, <1>4, <1>5, <1>6, <1>7, <1>8, <1>9, <1>10, <1>11, <1>12, <1>13,
     <1>14, <1>15, <1>16, <1>17, <1>18 DEF Next, SeatStep

-----------------------------------------------------------------------------
(* The order of the stream *)

\* Any other step leaves the stream and the pump's log alone, or empties them.
LEMMA StreamRests ==
  ASSUME InStep, [Next]_vars, ~Post, ~Dispatch, ~GapReplay
  PROVE  /\ UNCHANGED posts
         /\ \/ /\ UNCHANGED <<inbox, emitted, seen, seenTopics, delivered, shown>>
               /\ heard \subseteq heard' /\ (pump' = "parked" <=> pump = "parked")
               /\ UNCHANGED from \/ (from = -1 /\ from' = Len(posts))
               /\ UNCHANGED narrow \/ (from = -1 /\ from' = -1)
            \/ /\ inbox' = <<>> /\ emitted' = 0 /\ seen' = {} /\ seenTopics' = {}
               /\ delivered' = <<>> /\ shown' = NoBlocks /\ from' = -1 /\ pump' = "off"
               /\ UNCHANGED heard
         /\ excused \subseteq excused'
<1>. USE DEF atBoot, live, marks
<1>1. CASE Tick \/ Start \/ Bind
  BY <1>1 DEF Tick, Start, Bind, InStep
<1>2. CASE RegisterDefaults \/ RegisterFails \/ ProducerRegisters
  BY <1>2 DEF RegisterDefaults, RegisterFails, ProducerRegisters, InStep
<1>3. CASE CatchUpMentions \/ ReplayAnswers \/ MentionsDone
  BY <1>3 DEF CatchUpMentions, ReplayAnswers, MentionsDone
<1>4. CASE Surface
  <2>1. heard \subseteq heard' /\ UNCHANGED <<posts, narrow, live, marks>>
    BY <1>4 DEF Surface
  <2>. QED
    BY <2>1
<1>5. CASE CatchUpFails
  BY <1>5 DEF CatchUpFails
<1>6. CASE CatchUpChannels
  <2>1. UNCHANGED <<posts, narrow, marks, live, heard>>
    BY <1>6 DEF CatchUpChannels
  <2>. QED
    BY <2>1
<1>7. CASE Serve
  BY <1>7 DEF Serve
<1>8. CASE Crash
  BY <1>8 DEF Crash
<1>9. CASE UNCHANGED vars
  BY <1>9 DEF vars
<1>. QED
  BY <1>1, <1>2, <1>3, <1>4, <1>5, <1>6, <1>7, <1>8, <1>9 DEF Next, SeatStep

LEMMA StreamStep ==
  ASSUME TypeOK, InStep, StreamInTime, [Next]_vars
  PROVE  StreamInTime'
<1>0. /\ Len(posts) \in Nat /\ clock \in Nat /\ inbox \in Seq(Event(Len(posts)))
      /\ \A i \in 1 .. Len(posts) : TsOf(i) \in 0 .. clock
      /\ emitted \in 0 .. Len(posts)
  BY PostsTyped DEF TypeOK, Event
<1>a. /\ Len(inbox) \in Nat /\ DOMAIN inbox = 1 .. Len(inbox)
      /\ \A a \in 1 .. Len(inbox) : inbox[a].id \in 1 .. Len(posts)
  BY <1>0, EventsTyped
<1>1. CASE Post
  <2>. DEFINE n == Len(posts) + 1
  <2>1. \A i \in 1 .. Len(posts) : TsOf(i)' = TsOf(i)
    BY <1>1, PostFacts DEF TsOf
  <2>2. posts'[n].ts = clock
    BY <1>1, PostFacts
  <2>3. DOMAIN inbox' = 1 .. Len(inbox') /\ Len(inbox') \in Nat
    BY <1>1, PostFacts, LenProperties
  <2>4. \A a \in DOMAIN inbox' :
          \/ a \in DOMAIN inbox /\ inbox'[a] = inbox[a] /\ posts'[inbox'[a].id].ts = TsOf(inbox[a].id)
          \/ a \notin DOMAIN inbox /\ posts'[inbox'[a].id].ts = clock
    <3>. SUFFICES ASSUME NEW a \in DOMAIN inbox'
                  PROVE  \/ a \in DOMAIN inbox /\ inbox'[a] = inbox[a] /\ posts'[inbox'[a].id].ts = TsOf(inbox[a].id)
                         \/ a \notin DOMAIN inbox /\ posts'[inbox'[a].id].ts = clock
      OBVIOUS
    <3>1. CASE a <= Len(inbox)
      <4>1. a \in DOMAIN inbox /\ inbox'[a] = inbox[a] /\ inbox[a].id \in 1 .. Len(posts)
        BY <1>1, <1>a, <2>3, <3>1, PostFacts
      <4>. QED
        BY <2>1, <4>1 DEF TsOf
    <3>2. CASE ~(a <= Len(inbox))
      <4>1. a \notin DOMAIN inbox /\ inbox'[a].id = n
        BY <1>1, <1>a, <2>3, <3>2, PostFacts
      <4>. QED
        BY <2>2, <4>1
    <3>. QED
      BY <3>1, <3>2
  <2>5. \A a, b \in DOMAIN inbox' : a <= b => posts'[inbox'[a].id].ts <= posts'[inbox'[b].id].ts
    <3>. SUFFICES ASSUME NEW a \in DOMAIN inbox', NEW b \in DOMAIN inbox', a <= b
                  PROVE  posts'[inbox'[a].id].ts <= posts'[inbox'[b].id].ts
      OBVIOUS
    <3>1. CASE b \in DOMAIN inbox
      <4>1. a \in DOMAIN inbox
        BY <1>a, <2>3, <3>1
      <4>. QED
        BY <2>4, <3>1, <4>1 DEF StreamInTime
    <3>2. CASE b \notin DOMAIN inbox
      <4>1. posts'[inbox'[b].id].ts = clock /\ posts'[inbox'[a].id].ts \in 0 .. clock
        BY <1>0, <1>a, <2>4, <3>2
      <4>. QED
        BY <1>0, <4>1
    <3>. QED
      BY <3>1, <3>2
  <2>6. emitted' = emitted
    BY <1>1, PostFacts
  <2>7. emitted # 0 => \A a \in DOMAIN inbox' : posts'[emitted].ts <= posts'[inbox'[a].id].ts
    <3>. SUFFICES ASSUME emitted # 0, NEW a \in DOMAIN inbox'
                  PROVE  posts'[emitted].ts <= posts'[inbox'[a].id].ts
      OBVIOUS
    <3>1. posts'[emitted].ts = TsOf(emitted) /\ TsOf(emitted) \in 0 .. clock
      BY <1>0, <2>1 DEF TsOf
    <3>2. posts'[inbox'[a].id].ts = clock \/ TsOf(emitted) <= posts'[inbox'[a].id].ts
      BY <2>4 DEF StreamInTime
    <3>. QED
      BY <1>0, <3>1, <3>2
  <2>. QED
    BY <2>5, <2>6, <2>7 DEF StreamInTime, TsOf
<1>2. CASE Dispatch
  <2>1. /\ inbox' \in Seq(Event(Len(posts))) /\ Len(inbox') = Len(inbox) - 1
        /\ \A a \in 1 .. Len(inbox) - 1 : inbox'[a] = inbox[a + 1]
        /\ emitted' = inbox[1].id /\ UNCHANGED posts /\ Len(inbox) \in Nat \ {0}
    BY <1>2, DispatchFacts
  <2>2. DOMAIN inbox' = 1 .. Len(inbox) - 1
    BY <2>1, LenProperties
  <2>3. \A a \in DOMAIN inbox' : a + 1 \in DOMAIN inbox /\ 1 \in DOMAIN inbox /\ 1 <= a + 1
    BY <1>a, <2>1, <2>2
  <2>4. \A a, b \in DOMAIN inbox' : a <= b => TsOf(inbox'[a].id) <= TsOf(inbox'[b].id)
    <3>. SUFFICES ASSUME NEW a \in DOMAIN inbox', NEW b \in DOMAIN inbox', a <= b
                  PROVE  TsOf(inbox'[a].id) <= TsOf(inbox'[b].id)
      OBVIOUS
    <3>1. a + 1 <= b + 1 /\ inbox'[a] = inbox[a + 1] /\ inbox'[b] = inbox[b + 1]
      BY <1>a, <2>1, <2>2
    <3>. QED
      BY <2>3, <3>1 DEF StreamInTime
  <2>5. \A a \in DOMAIN inbox' : TsOf(inbox[1].id) <= TsOf(inbox'[a].id)
    BY <2>1, <2>2, <2>3 DEF StreamInTime
  <2>. QED
    BY <2>1, <2>4, <2>5 DEF StreamInTime, TsOf
<1>3. CASE GapReplay
  <2>. DEFINE Latest(n) == IF n = 0 THEN emitted ELSE inbox[n].id
  <2>1. PICK n \in 0 .. Len(inbox), r \in Seq(Event(Len(posts))) :
          /\ CutAt(n, r)
          /\ inbox' \in Seq(Event(Len(posts))) /\ Len(inbox') = n + Len(r)
          /\ \A a \in 1 .. n + Len(r) : inbox'[a] = IF a <= n THEN inbox[a] ELSE r[a - n]
    BY <1>3, GapFacts
  <2>2. UNCHANGED <<posts, emitted>>
    BY <1>3, GapFacts
  <2>3. DOMAIN inbox' = 1 .. n + Len(r) /\ DOMAIN r = 1 .. Len(r) /\ Len(r) \in Nat /\ n \in Nat
    BY <1>a, <2>1, LenProperties
  <2>4. \A a \in DOMAIN r : r[a].id \in 1 .. Len(posts)
    BY <1>0, <2>1, <2>3, EventsTyped
  <2>5. DOMAIN r = {} \/ (Latest(n) # 0 /\ r \in Replay(TsOf(Latest(n))))
    BY <2>1, <2>3 DEF CutAt
  <2>6. /\ \A a \in DOMAIN r : Latest(n) \in 1 .. Len(posts) /\ TsOf(Latest(n)) <= TsOf(r[a].id)
        /\ \A a, b \in DOMAIN r : a < b => r[a].id <= r[b].id
    <3>1. CASE DOMAIN r = {}
      BY <3>1
    <3>2. CASE Latest(n) # 0 /\ r \in Replay(TsOf(Latest(n)))
      <4>1. /\ \A a \in DOMAIN r : TsOf(r[a].id) >= TsOf(Latest(n))
            /\ \A a, b \in DOMAIN r : a < b => r[a].id <= r[b].id
        BY <3>2, ReplayFacts
      <4>2. Latest(n) \in 1 .. Len(posts)
        BY <1>0, <1>a, <3>2
      <4>. QED
        BY <1>0, <2>4, <4>1, <4>2
    <3>. QED
      BY <2>5, <3>1, <3>2
  <2>7. \A a \in 1 .. n : /\ a \in DOMAIN inbox /\ Latest(n) \in 1 .. Len(posts)
                           /\ TsOf(inbox[a].id) <= TsOf(Latest(n))
    <3>. SUFFICES ASSUME NEW a \in 1 .. n
                  PROVE  /\ a \in DOMAIN inbox /\ Latest(n) \in 1 .. Len(posts)
                         /\ TsOf(inbox[a].id) <= TsOf(Latest(n))
      OBVIOUS
    <3>1. a \in DOMAIN inbox /\ n \in DOMAIN inbox /\ a <= n /\ Latest(n) = inbox[n].id
      BY <1>a, <2>3
    <3>. QED
      BY <1>a, <3>1 DEF StreamInTime
  <2>8. emitted # 0 => Latest(n) \in 1 .. Len(posts) /\ TsOf(emitted) <= TsOf(Latest(n))
    <3>. SUFFICES ASSUME emitted # 0
                  PROVE  Latest(n) \in 1 .. Len(posts) /\ TsOf(emitted) <= TsOf(Latest(n))
      OBVIOUS
    <3>1. CASE n = 0
      <4>1. emitted \in 1 .. Len(posts) /\ TsOf(emitted) \in 0 .. clock
        BY <1>0
      <4>. QED
        BY <1>0, <3>1, <4>1
    <3>2. CASE n # 0
      <4>1. n \in DOMAIN inbox /\ Latest(n) = inbox[n].id
        BY <1>a, <2>1, <3>2
      <4>. QED
        BY <1>a, <4>1 DEF StreamInTime
    <3>. QED
      BY <3>1, <3>2
  <2>. HIDE DEF Latest
  <2>9. \A a \in DOMAIN inbox' :
          \/ a <= n /\ inbox'[a] = inbox[a] /\ a \in 1 .. n
          \/ a > n /\ inbox'[a] = r[a - n] /\ a - n \in DOMAIN r
    BY <2>1, <2>3
  <2>10. \A a, b \in DOMAIN inbox' : a <= b => TsOf(inbox'[a].id) <= TsOf(inbox'[b].id)
    <3>. SUFFICES ASSUME NEW a \in DOMAIN inbox', NEW b \in DOMAIN inbox', a <= b
                  PROVE  TsOf(inbox'[a].id) <= TsOf(inbox'[b].id)
      OBVIOUS
    <3>1. CASE b <= n
      BY <2>3, <2>7, <2>9, <3>1 DEF StreamInTime
    <3>2. CASE a <= n /\ b > n
      <4>1. inbox'[a] = inbox[a] /\ inbox'[b] = r[b - n] /\ b - n \in DOMAIN r /\ a \in 1 .. n
        BY <2>3, <2>9, <3>2
      <4>2. /\ TsOf(inbox[a].id) <= TsOf(Latest(n)) /\ TsOf(Latest(n)) <= TsOf(r[b - n].id)
            /\ Latest(n) \in 1 .. Len(posts)
        BY <2>6, <2>7, <4>1
      <4>3. inbox[a].id \in 1 .. Len(posts) /\ r[b - n].id \in 1 .. Len(posts)
        BY <1>a, <2>4, <2>7, <4>1
      <4>4. TsOf(inbox[a].id) \in 0 .. clock /\ TsOf(r[b - n].id) \in 0 .. clock
            /\ TsOf(Latest(n)) \in 0 .. clock
        BY <1>0, <4>2, <4>3
      <4>. QED
        BY <1>0, <4>1, <4>2, <4>4
    <3>3. CASE a > n
      <4>1. /\ inbox'[a] = r[a - n] /\ inbox'[b] = r[b - n] /\ a - n <= b - n
            /\ a - n \in DOMAIN r /\ b - n \in DOMAIN r
        BY <2>3, <2>9, <3>3
      <4>2. r[a - n].id <= r[b - n].id
        BY <2>3, <2>4, <2>6, <4>1
      <4>. QED
        BY <2>4, <4>1, <4>2 DEF InStep
    <3>. QED
      BY <2>3, <3>1, <3>2, <3>3
  <2>11. emitted # 0 => \A a \in DOMAIN inbox' : TsOf(emitted) <= TsOf(inbox'[a].id)
    <3>. SUFFICES ASSUME emitted # 0, NEW a \in DOMAIN inbox'
                  PROVE  TsOf(emitted) <= TsOf(inbox'[a].id)
      OBVIOUS
    <3>1. CASE a <= n
      <4>1. inbox'[a] = inbox[a] /\ a \in DOMAIN inbox
        BY <2>3, <2>7, <2>9, <3>1
      <4>. QED
        BY <4>1 DEF StreamInTime
    <3>2. CASE a > n
      <4>1. inbox'[a] = r[a - n] /\ a - n \in DOMAIN r
        BY <2>3, <2>9, <3>2
      <4>2. TsOf(Latest(n)) <= TsOf(r[a - n].id) /\ r[a - n].id \in 1 .. Len(posts)
            /\ Latest(n) \in 1 .. Len(posts) /\ TsOf(emitted) <= TsOf(Latest(n))
        BY <2>4, <2>6, <2>8, <4>1
      <4>3. /\ TsOf(emitted) \in Nat /\ TsOf(r[a - n].id) \in Nat
            /\ TsOf(Latest(n)) \in Nat
        BY <1>0, <4>2
      <4>. QED
        BY <4>1, <4>2, <4>3
    <3>. QED
      BY <2>3, <3>1, <3>2
  <2>. QED
    BY <2>2, <2>10, <2>11 DEF StreamInTime, TsOf
<1>4. CASE ~Post /\ ~Dispatch /\ ~GapReplay
  <2>1. CASE UNCHANGED <<posts, inbox, emitted>>
    BY <2>1 DEF StreamInTime, TsOf
  <2>2. CASE UNCHANGED posts /\ inbox' = <<>> /\ emitted' = 0
    BY <2>2 DEF StreamInTime, TsOf
  <2>. QED
    BY <1>4, <2>1, <2>2, StreamRests
<1>. QED
  BY <1>1, <1>2, <1>3, <1>4

-----------------------------------------------------------------------------
(* The pump shows a thing once *)

\* What the log and the shown blocks are typed as.
LEMMA LogTyped ==
  ASSUME TypeOK
  PROVE  /\ delivered \in Seq(1 .. Len(posts)) /\ Len(delivered) \in Nat
         /\ DOMAIN delivered = 1 .. Len(delivered) /\ Len(delivered) <= Capacity
         /\ \A a \in DOMAIN delivered : delivered[a] \in 1 .. Len(posts)
         /\ shown \in [Ids -> Nat] /\ Capacity \in Nat \ {0}
<1>1. delivered \in Seq(1 .. Len(posts)) /\ Len(delivered) <= Capacity /\ shown \in [Ids -> Nat]
  BY DEF TypeOK
<1>. QED
  BY <1>1, LenProperties, ElementOfSeq, DeliveryAssumption

LEMMA LogStep ==
  ASSUME TypeOK, InStep, StreamInTime, LogInTime, [Next]_vars
  PROVE  LogInTime'
<1>0. /\ Len(posts) \in Nat /\ clock \in Nat
      /\ \A i \in 1 .. Len(posts) : TsOf(i) \in 0 .. clock
      /\ MaxPosts \in Nat /\ emitted \in 0 .. Len(posts) /\ Len(posts) <= MaxPosts
  BY PostsTyped, DeliveryAssumption DEF TypeOK, InStep
<1>1. CASE Post
  <2>1. \A i \in 1 .. Len(posts) : TsOf(i)' = TsOf(i)
    BY <1>1, PostFacts DEF TsOf
  <2>2. UNCHANGED <<emitted, delivered, shown, heard, pump>> /\ Len(posts') = Len(posts) + 1
    BY <1>1, PostFacts
  <2>3. \A a \in DOMAIN delivered : TsOf(delivered[a])' = TsOf(delivered[a])
    BY <2>1, <2>2, LogTyped
  <2>4. emitted # 0 => TsOf(emitted)' = TsOf(emitted)
    BY <1>0, <2>1, <2>2
  <2>5. \A i \in Ids : shown[i] > 0 => i <= Len(posts) /\ i \in 1 .. Len(posts) /\ TsOf(i)' = TsOf(i)
    BY <1>0, <2>1 DEF LogInTime, Ids
  <2>6. /\ \A a, b \in DOMAIN delivered : a < b => delivered[a] # delivered[b]
                                                 /\ TsOf(delivered[a])' <= TsOf(delivered[b])'
        /\ \A a \in DOMAIN delivered :
             /\ emitted # 0 /\ TsOf(delivered[a])' <= TsOf(emitted)'
             /\ pump # "parked" => shown[delivered[a]] > 0 /\ delivered[a] \in heard
    BY <2>3, <2>4 DEF LogInTime
  <2>7. \A i \in Ids : shown[i] > 0 =>
          /\ i <= Len(posts') /\ emitted # 0 /\ TsOf(i)' <= TsOf(emitted)'
          /\ \/ \E a \in DOMAIN delivered : delivered[a] = i
             \/ /\ Len(delivered) = Capacity
                /\ \A a \in DOMAIN delivered : TsOf(i)' <= TsOf(delivered[a])'
    <3>. SUFFICES ASSUME NEW i \in Ids, shown[i] > 0
                  PROVE  /\ i <= Len(posts') /\ emitted # 0 /\ TsOf(i)' <= TsOf(emitted)'
                         /\ \/ \E a \in DOMAIN delivered : delivered[a] = i
                            \/ /\ Len(delivered) = Capacity
                               /\ \A a \in DOMAIN delivered : TsOf(i)' <= TsOf(delivered[a])'
      OBVIOUS
    <3>1. i <= Len(posts') /\ i \in Int
      BY <1>0, <2>2, <2>5 DEF Ids
    <3>. QED
      BY <2>3, <2>4, <2>5, <3>1 DEF LogInTime
  <2>8. /\ emitted' = emitted /\ delivered' = delivered /\ shown' = shown /\ heard' = heard
        /\ pump' = pump
    BY <2>2
  <2>. HIDE DEF TsOf
  <2>. QED
    BY <2>2, <2>6, <2>7, <2>8 DEF LogInTime, TsOf
<1>2. CASE Dispatch
  <2>. DEFINE e == inbox[1]
  <2>1. /\ e \in Event(Len(posts)) /\ Len(inbox) \in Nat \ {0} /\ emitted' = e.id
        /\ UNCHANGED posts /\ pump = "on" /\ inbox \in Seq(Event(Len(posts)))
    BY <1>2, DispatchFacts DEF TypeOK, Event
  <2>2. e.id \in 1 .. Len(posts) /\ e.id \in Ids /\ e.id # 0 /\ 1 \in DOMAIN inbox
    BY <1>0, <2>1, EventsTyped DEF Ids, Event
  <2>3. emitted # 0 => TsOf(emitted) <= TsOf(e.id)
    BY <2>2 DEF StreamInTime
  <2>4. \A a \in DOMAIN delivered :
          /\ delivered[a] \in 1 .. Len(posts) /\ TsOf(delivered[a]) <= TsOf(e.id)
          /\ shown[delivered[a]] > 0 /\ delivered[a] \in heard
    <3>. SUFFICES ASSUME NEW a \in DOMAIN delivered
                  PROVE  /\ delivered[a] \in 1 .. Len(posts) /\ TsOf(delivered[a]) <= TsOf(e.id)
                         /\ shown[delivered[a]] > 0 /\ delivered[a] \in heard
      OBVIOUS
    <3>1. delivered[a] \in 1 .. Len(posts) /\ emitted # 0 /\ TsOf(delivered[a]) <= TsOf(emitted)
          /\ shown[delivered[a]] > 0 /\ delivered[a] \in heard
      BY <2>1, LogTyped DEF LogInTime
    <3>2. TsOf(delivered[a]) \in 0 .. clock /\ TsOf(emitted) \in 0 .. clock /\ TsOf(e.id) \in 0 .. clock
      BY <1>0, <2>2, <3>1
    <3>. QED
      BY <1>0, <2>3, <3>1, <3>2
  <2>5. \A i \in Ids : shown[i] > 0 => /\ i \in 1 .. Len(posts) /\ TsOf(i) <= TsOf(e.id)
                                       /\ TsOf(i) \in 0 .. clock
    <3>. SUFFICES ASSUME NEW i \in Ids, shown[i] > 0
                  PROVE  i \in 1 .. Len(posts) /\ TsOf(i) <= TsOf(e.id) /\ TsOf(i) \in 0 .. clock
      OBVIOUS
    <3>1. i \in 1 .. Len(posts) /\ emitted # 0 /\ TsOf(i) <= TsOf(emitted)
      BY <1>0 DEF LogInTime, Ids
    <3>2. TsOf(i) \in 0 .. clock /\ TsOf(emitted) \in 0 .. clock /\ TsOf(e.id) \in 0 .. clock
      BY <1>0, <2>2, <3>1
    <3>. QED
      BY <1>0, <2>3, <3>1, <3>2
  <2>6. CASE ~IsFresh(e)
    <3>1. UNCHANGED <<delivered, shown, heard, pump>>
      BY <1>2, <2>6, DispatchFacts
    <3>. HIDE DEF e
    <3>2. \A a, b \in DOMAIN delivered : a < b => delivered[a] # delivered[b]
                                                /\ TsOf(delivered[a]) <= TsOf(delivered[b])
      BY DEF LogInTime
    <3>3. \A i \in Ids : shown[i] > 0 =>
            /\ i <= Len(posts)
            /\ \/ \E a \in DOMAIN delivered : delivered[a] = i
               \/ /\ Len(delivered) = Capacity
                  /\ \A a \in DOMAIN delivered : TsOf(i) <= TsOf(delivered[a])
      BY DEF LogInTime
    <3>. QED
      BY <2>1, <2>2, <2>4, <2>5, <3>1, <3>2, <3>3 DEF LogInTime, TsOf
  <2>7. CASE IsFresh(e)
    <3>. DEFINE t == Retained(Append(delivered, e.id))
    <3>1. /\ delivered' = t
          /\ \/ /\ shown' = [shown EXCEPT ![e.id] = @ + 1]
                /\ heard' = heard \cup {e.id} /\ pump' = pump
             \/ pump' = "parked" /\ shown' = shown /\ heard' = heard
      BY <1>2, <2>7, DispatchFacts
    <3>2. /\ t \in Seq(1 .. Len(posts)) /\ Len(t) <= Capacity /\ t[Len(t)] = e.id
          /\ \/ Len(t) = Len(delivered) + 1 /\ \A a \in 1 .. Len(delivered) : t[a] = delivered[a]
             \/ /\ Len(delivered) = Capacity /\ Len(t) = Capacity
                /\ \A a \in 1 .. Capacity - 1 : t[a] = delivered[a + 1]
      <4>. DEFINE k == e.id
                  S == 1 .. Len(posts)
      <4>1. delivered \in Seq(S) /\ Len(delivered) <= Capacity /\ k \in S
        BY <2>2, LogTyped
      <4>. HIDE DEF e, k, S
      <4>2. t = Retained(Append(delivered, k))
        BY DEF k, e
      <4>3. /\ Retained(Append(delivered, k)) \in Seq(S)
            /\ Len(Retained(Append(delivered, k))) <= Capacity
            /\ OneMore(Retained(Append(delivered, k)), delivered, k)
        BY <4>1, RetainedFact
      <4>. HIDE DEF t
      <4>4. t \in Seq(S) /\ Len(t) <= Capacity /\ OneMore(t, delivered, k)
        BY <4>2, <4>3
      <4>5. /\ t[Len(t)] = k
            /\ \/ Len(t) = Len(delivered) + 1 /\ \A a \in 1 .. Len(delivered) : t[a] = delivered[a]
               \/ /\ Len(delivered) = Capacity /\ Len(t) = Capacity
                  /\ \A a \in 1 .. Capacity - 1 : t[a] = delivered[a + 1]
        BY <4>4 DEF OneMore
      <4>. QED
        BY <4>4, <4>5 DEF k, S
    <3>. HIDE DEF t, e
    <3>0. /\ DOMAIN delivered = 1 .. Len(delivered) /\ Len(delivered) \in Nat
          /\ Capacity \in Nat \ {0}
      BY LogTyped
    <3>3. DOMAIN t = 1 .. Len(t) /\ Len(t) \in Nat \ {0}
      <4>1. DOMAIN t = 1 .. Len(t) /\ Len(t) \in Nat
        BY <3>2, LenProperties
      <4>2. Len(t) = Len(delivered) + 1 \/ Len(t) = Capacity
        BY <3>2
      <4>3. \A l, c \in Nat : c # 0 => l + 1 # 0 /\ c # 0
        OBVIOUS
      <4>4. Len(t) # 0
        BY <3>0, <4>2, <4>3
      <4>. QED
        BY <4>1, <4>4
    <3>4. PICK z \in {0, 1} :
            \A a \in 1 .. Len(t) - 1 : a + z \in DOMAIN delivered /\ t[a] = delivered[a + z]
      <4>1. CASE Len(t) = Len(delivered) + 1 /\ \A a \in 1 .. Len(delivered) : t[a] = delivered[a]
        <5>1. \A a \in 1 .. Len(t) - 1 : a + 0 = a /\ a \in 1 .. Len(delivered)
          BY <3>0, <4>1
        <5>2. \A a \in 1 .. Len(t) - 1 : a + 0 \in DOMAIN delivered /\ t[a] = delivered[a + 0]
          BY <3>0, <4>1, <5>1
        <5>. QED
          BY <5>2
      <4>2. CASE /\ Len(delivered) = Capacity /\ Len(t) = Capacity
                 /\ \A a \in 1 .. Capacity - 1 : t[a] = delivered[a + 1]
        <5>1. \A a \in 1 .. Len(t) - 1 : a + 1 \in DOMAIN delivered /\ t[a] = delivered[a + 1]
          BY <3>0, <4>2
        <5>. QED
          BY <5>1
      <4>. QED
        BY <3>2, <4>1, <4>2
    <3>5. \A a \in DOMAIN t : a # Len(t) => a \in 1 .. Len(t) - 1
      BY <3>3
    <3>6. \A a \in DOMAIN t : a # Len(t) => t[a] # e.id /\ TsOf(t[a]) <= TsOf(e.id)
      BY <2>4, <2>7, <3>4, <3>5 DEF IsFresh, Logged
    <3>7. \A a, b \in DOMAIN t : a < b => t[a] # t[b] /\ TsOf(t[a]) <= TsOf(t[b])
      <4>. SUFFICES ASSUME NEW a \in DOMAIN t, NEW b \in DOMAIN t, a < b
                    PROVE  t[a] # t[b] /\ TsOf(t[a]) <= TsOf(t[b])
        OBVIOUS
      <4>0. a # Len(t)
        BY <3>3
      <4>1. CASE b = Len(t)
        BY <3>2, <3>6, <4>0, <4>1
      <4>2. CASE b # Len(t)
        <5>0. a \in 1 .. Len(t) - 1 /\ b \in 1 .. Len(t) - 1 /\ a + z < b + z
          BY <3>3, <4>0, <4>2
        <5>1. /\ a + z \in DOMAIN delivered /\ b + z \in DOMAIN delivered
              /\ a + z < b + z /\ t[a] = delivered[a + z] /\ t[b] = delivered[b + z]
          BY <3>4, <5>0
        <5>. QED
          BY <5>1 DEF LogInTime
      <4>. QED
        BY <4>1, <4>2
    <3>8. TsOf(e.id) <= TsOf(e.id)
      BY <1>0, <2>2
    <3>9. \A a \in DOMAIN t : /\ TsOf(t[a]) <= TsOf(e.id)
                              /\ pump' # "parked" => shown'[t[a]] > 0 /\ t[a] \in heard'
      <4>. SUFFICES ASSUME NEW a \in DOMAIN t
                    PROVE  /\ TsOf(t[a]) <= TsOf(e.id)
                           /\ pump' # "parked" => shown'[t[a]] > 0 /\ t[a] \in heard'
        OBVIOUS
      <4>0. pump' # "parked" => /\ shown' = [shown EXCEPT ![e.id] = @ + 1]
                                /\ heard' = heard \cup {e.id}
        BY <3>1
      <4>1. CASE a = Len(t)
        <5>1. pump' # "parked" => shown'[e.id] > 0
          BY <2>2, <4>0, LogTyped
        <5>. QED
          BY <3>2, <3>8, <4>0, <4>1, <5>1
      <4>2. CASE a # Len(t)
        <5>1. /\ TsOf(t[a]) <= TsOf(e.id) /\ t[a] # e.id /\ t[a] \in heard /\ shown[t[a]] > 0
              /\ t[a] \in 1 .. Len(posts)
          BY <2>4, <3>4, <3>5, <3>6, <4>2
        <5>2. t[a] \in Ids
          BY <1>0, <5>1 DEF Ids
        <5>. QED
          BY <4>0, <5>1, <5>2, LogTyped
      <4>. QED
        BY <4>1, <4>2
    <3>10. \A i \in Ids : shown'[i] > 0 =>
             /\ i <= Len(posts) /\ TsOf(i) <= TsOf(e.id)
             /\ \/ \E a \in DOMAIN t : t[a] = i
                \/ Len(t) = Capacity /\ \A a \in DOMAIN t : TsOf(i) <= TsOf(t[a])
      <4>. SUFFICES ASSUME NEW i \in Ids, shown'[i] > 0
                    PROVE  /\ i <= Len(posts) /\ TsOf(i) <= TsOf(e.id)
                           /\ \/ \E a \in DOMAIN t : t[a] = i
                              \/ Len(t) = Capacity /\ \A a \in DOMAIN t : TsOf(i) <= TsOf(t[a])
        OBVIOUS
      <4>1. CASE i = e.id
        <5>0. Len(t) \in DOMAIN t
          BY <3>3
        <5>1. Len(t) \in DOMAIN t /\ t[Len(t)] = i
          BY <3>2, <4>1, <5>0
        <5>. QED
          BY <1>0, <2>2, <3>8, <4>1, <5>1
      <4>2. CASE i # e.id
        <5>1. shown[i] > 0
          BY <2>2, <3>1, <4>2, LogTyped
        <5>2. i \in 1 .. Len(posts) /\ TsOf(i) <= TsOf(e.id) /\ TsOf(i) \in 0 .. clock
          BY <2>5, <5>1
        <5>3. CASE Len(t) = Len(delivered) + 1
          <6>1. PICK a \in DOMAIN delivered : delivered[a] = i
            BY <3>2, <5>1, <5>3, LogTyped DEF LogInTime
          <6>2. a \in DOMAIN t /\ t[a] = i
            BY <3>2, <3>3, <5>3, <6>1, LogTyped
          <6>. QED
            BY <1>0, <5>2, <6>2
        <5>4. CASE Len(t) # Len(delivered) + 1
          <6>0. /\ Len(delivered) = Capacity /\ Len(t) = Capacity
                /\ \A a \in 1 .. Capacity - 1 : t[a] = delivered[a + 1]
            BY <3>2, <5>4
          <6>1. CASE \E a \in DOMAIN delivered : a # 1 /\ delivered[a] = i
            <7>1. PICK a \in DOMAIN delivered : a # 1 /\ delivered[a] = i
              BY <6>1
            <7>2. a - 1 \in DOMAIN t /\ t[a - 1] = i
              BY <3>0, <3>3, <6>0, <7>1
            <7>. QED
              BY <1>0, <5>2, <7>2
          <6>2. CASE ~\E a \in DOMAIN delivered : a # 1 /\ delivered[a] = i
            <7>1. \A a \in DOMAIN delivered : a # 1 => TsOf(i) <= TsOf(delivered[a])
              <8>1. CASE \E a \in DOMAIN delivered : delivered[a] = i
                <9>1. 1 \in DOMAIN delivered /\ delivered[1] = i
                  BY <6>2, <8>1
                <9>2. \A a \in DOMAIN delivered : a # 1 => 1 < a
                  BY LogTyped
                <9>. QED
                  BY <9>1, <9>2 DEF LogInTime
              <8>2. CASE ~\E a \in DOMAIN delivered : delivered[a] = i
                BY <5>1, <8>2 DEF LogInTime
              <8>. QED
                BY <8>1, <8>2
            <7>2. \A a \in DOMAIN t : TsOf(i) <= TsOf(t[a])
              <8>. SUFFICES ASSUME NEW a \in DOMAIN t
                            PROVE  TsOf(i) <= TsOf(t[a])
                OBVIOUS
              <8>1. CASE a = Len(t)
                BY <3>2, <5>2, <8>1
              <8>2. CASE a # Len(t)
                <9>1. a + 1 \in DOMAIN delivered /\ a + 1 # 1 /\ t[a] = delivered[a + 1]
                  BY <3>0, <3>3, <6>0, <8>2
                <9>. QED
                  BY <7>1, <9>1
              <8>. QED
                BY <8>1, <8>2
            <7>. QED
              BY <1>0, <5>2, <6>0, <7>2
          <6>. QED
            BY <6>1, <6>2
        <5>. QED
          BY <5>3, <5>4
      <4>. QED
        BY <4>1, <4>2
    <3>11. emitted' = e.id /\ e.id # 0 /\ posts' = posts
      BY <2>1, <2>2 DEF e
    <3>. QED
      BY <3>1, <3>7, <3>9, <3>10, <3>11 DEF LogInTime, TsOf
  <2>. QED
    BY <2>6, <2>7
<1>3. CASE GapReplay
  <2>1. UNCHANGED <<posts, emitted, delivered, shown, heard, pump>>
    BY <1>3, GapFacts
  <2>. QED
    BY <2>1 DEF LogInTime, TsOf
<1>4. CASE ~Post /\ ~Dispatch /\ ~GapReplay
  <2>1. CASE /\ UNCHANGED <<posts, emitted, delivered, shown>>
             /\ heard \subseteq heard' /\ (pump' = "parked" <=> pump = "parked")
    BY <2>1 DEF LogInTime, TsOf
  <2>2. CASE delivered' = <<>> /\ shown' = NoBlocks
    BY <2>2 DEF LogInTime, NoBlocks
  <2>. QED
    BY <1>4, <2>1, <2>2, StreamRests
<1>. QED
  BY <1>1, <1>2, <1>3, <1>4

-----------------------------------------------------------------------------
(* The pump says a thing once *)

LEMMA PumpStep ==
  ASSUME TypeOK, InStep, StreamInTime, LogInTime, PumpShowsOnce, [Next]_vars
  PROVE  PumpShowsOnce'
<1>. DEFINE Later(i) == {j \in 1 .. Len(posts) : shown[j] > 0 /\ posts[j].ts >= posts[i].ts}
<1>0. /\ Len(posts) \in Nat /\ Capacity \in Nat /\ shown \in [Ids -> Nat] /\ MaxPosts \in Nat
      /\ Len(posts) <= MaxPosts
  BY PostsTyped, LogTyped, DeliveryAssumption DEF InStep
<1>1. \A i : IsFiniteSet(Later(i)) /\ Cardinality(Later(i)) \in Nat
  BY <1>0, IndicesFinite
<1>2. \A i \in 1 .. Len(posts) : shown[i] > 1 => Cardinality(Later(i)) > Capacity
  BY DEF PumpShowsOnce
<1>3. CASE Post
  <2>1. /\ Len(posts') = Len(posts) + 1 /\ \A i \in 1 .. Len(posts) : posts'[i] = posts[i]
        /\ UNCHANGED shown
    BY <1>3, PostFacts
  <2>. SUFFICES ASSUME NEW i \in 1 .. Len(posts'), shown[i] > 1
                PROVE  Cardinality(Later(i)') > Capacity
    BY <2>1 DEF PumpShowsOnce
  <2>2. i \in 1 .. Len(posts)
    <3>1. Len(posts') <= MaxPosts
      BY <1>3, PostFacts, DeliveryAssumption
    <3>2. i \in Ids /\ shown[i] \in Nat
      BY <1>0, <2>1, <3>1 DEF Ids
    <3>. QED
      BY <1>0, <2>1, <3>2 DEF LogInTime
  <2>3. Later(i) \subseteq Later(i)'
    BY <1>0, <2>1, <2>2
  <2>4. IsFiniteSet(Later(i)') /\ Cardinality(Later(i)') \in Nat
    <3>1. Len(posts') \in Nat /\ Later(i)' \subseteq 1 .. Len(posts')
      BY <1>0, <2>1
    <3>. HIDE DEF Later
    <3>. QED
      BY <3>1, IndicesFinite
  <2>5. Cardinality(Later(i)) <= Cardinality(Later(i)')
    BY <2>3, <2>4, FS_Subset
  <2>. HIDE DEF Later
  <2>6. Cardinality(Later(i)) > Capacity /\ Cardinality(Later(i)) \in Nat
    BY <1>1, <1>2, <2>2
  <2>. QED
    BY <1>0, <2>4, <2>5, <2>6
<1>4. CASE Dispatch
  <2>. DEFINE e == inbox[1]
  <2>0. e.id \in 1 .. Len(posts) /\ e.id \in Ids /\ posts' = posts
    <3>1. e \in Event(Len(posts)) /\ posts' = posts
      BY <1>4, DispatchFacts
    <3>. QED
      BY <1>0, <3>1 DEF Event, Ids
  <2>1. \/ shown' = shown
        \/ IsFresh(e) /\ pump # "parked" /\ shown' = [shown EXCEPT ![e.id] = @ + 1]
    BY <1>4, DispatchFacts
  <2>. HIDE DEF e
  <2>2. \A j \in 1 .. Len(posts) : j \in Ids /\ shown[j] \in Nat /\ shown'[j] \in Nat /\ shown[j] <= shown'[j]
    BY <1>0, <2>0, <2>1 DEF Ids
  <2>. SUFFICES ASSUME NEW i \in 1 .. Len(posts), shown'[i] > 1
                PROVE  Cardinality(Later(i)') > Capacity
    BY <2>0 DEF PumpShowsOnce
  <2>3. Later(i) \subseteq Later(i)'
    BY <2>0, <2>2
  <2>4. IsFiniteSet(Later(i)') /\ Cardinality(Later(i)') \in Nat
    <3>1. Later(i)' \subseteq 1 .. Len(posts)
      BY <2>0
    <3>. HIDE DEF Later
    <3>. QED
      BY <1>0, <3>1, IndicesFinite
  <2>5. CASE shown[i] > 1
    <3>1. Cardinality(Later(i)) <= Cardinality(Later(i)')
      BY <2>3, <2>4, FS_Subset
    <3>. HIDE DEF Later
    <3>2. Cardinality(Later(i)) > Capacity /\ Cardinality(Later(i)) \in Nat
      BY <1>1, <1>2, <2>5
    <3>. QED
      BY <1>0, <2>4, <3>1, <3>2
  <2>6. CASE ~(shown[i] > 1)
    <3>1. i = e.id /\ IsFresh(e) /\ shown[i] = 1 /\ shown' = [shown EXCEPT ![e.id] = @ + 1]
      BY <1>0, <2>0, <2>1, <2>2, <2>6
    <3>2. i \in Ids /\ ~\E a \in DOMAIN delivered : delivered[a] = i
      BY <2>0, <3>1 DEF IsFresh, Logged
    <3>3. /\ Len(delivered) = Capacity /\ DOMAIN delivered = 1 .. Capacity
          /\ \A a \in 1 .. Capacity : TsOf(i) <= TsOf(delivered[a])
      <4>1. shown[i] > 0
        BY <3>1
      <4>2. Len(delivered) = Capacity /\ \A a \in DOMAIN delivered : TsOf(i) <= TsOf(delivered[a])
        BY <3>2, <4>1 DEF LogInTime
      <4>. QED
        BY <4>2, LogTyped
    <3>4. \A a \in 1 .. Capacity : /\ delivered[a] \in 1 .. Len(posts) /\ delivered[a] # i
                                   /\ shown[delivered[a]] > 0
      <4>1. pump # "parked"
        BY <1>4, DispatchFacts
      <4>. QED
        BY <3>2, <3>3, <4>1, LogTyped DEF LogInTime
    <3>5. \A a, b \in 1 .. Capacity : a # b => delivered[a] # delivered[b]
      <4>1. \A a, b \in 1 .. Capacity : a < b => delivered[a] # delivered[b]
        BY <3>3 DEF LogInTime
      <4>. QED
        BY <1>0, <4>1
    <3>. DEFINE f == [a \in 1 .. Capacity + 1 |-> IF a <= Capacity THEN delivered[a] ELSE i]
    <3>6. \A a \in 1 .. Capacity : delivered[a] \in Later(i)'
      <4>. SUFFICES ASSUME NEW a \in 1 .. Capacity
                    PROVE  delivered[a] \in Later(i)'
        OBVIOUS
      <4>1. delivered[a] \in 1 .. Len(posts) /\ shown'[delivered[a]] > 0
        BY <2>2, <3>4
      <4>2. posts[delivered[a]].ts >= posts[i].ts
        BY <3>3, <3>4, PostsTyped DEF TsOf
      <4>. QED
        BY <2>0, <4>1, <4>2
    <3>7. i \in Later(i)'
      BY <2>0, <2>2, PostsTyped DEF TsOf
    <3>8. f \in Injection(1 .. Capacity + 1, Later(i)')
      <4>. HIDE DEF Later
      <4>1. f \in [1 .. Capacity + 1 -> Later(i)']
        BY <1>0, <3>6, <3>7
      <4>2. \A a, b \in 1 .. Capacity + 1 : f[a] = f[b] => a = b
        BY <1>0, <3>4, <3>5
      <4>. HIDE DEF f
      <4>. QED
        BY <4>1, <4>2 DEF Injection, IsInjective
    <3>9. Cardinality(1 .. Capacity + 1) = Capacity + 1 /\ IsFiniteSet(1 .. Capacity + 1)
      <4>1. Capacity + 1 \in Int /\ ~(1 > Capacity + 1) /\ Capacity + 1 - 1 + 1 = Capacity + 1
        BY <1>0
      <4>. QED
        BY <4>1, FS_Interval
    <3>10. Cardinality(1 .. Capacity + 1) <= Cardinality(Later(i)')
      BY <2>4, <3>8, FS_Injection
    <3>. QED
      BY <1>0, <2>4, <3>9, <3>10
  <2>. QED
    BY <2>5, <2>6
<1>5. CASE GapReplay
  <2>1. UNCHANGED <<posts, shown>>
    BY <1>5, GapFacts
  <2>. QED
    BY <2>1 DEF PumpShowsOnce
<1>6. CASE ~Post /\ ~Dispatch /\ ~GapReplay
  <2>1. UNCHANGED posts /\ (UNCHANGED shown \/ shown' = NoBlocks)
    BY <1>6, StreamRests
  <2>2. CASE UNCHANGED shown
    BY <2>1, <2>2 DEF PumpShowsOnce
  <2>3. CASE shown' = NoBlocks
    <3>1. \A i \in 1 .. Len(posts) : ~(shown'[i] > 1)
      BY <1>0, <2>3 DEF NoBlocks, Ids
    <3>. QED
      BY <2>1, <3>1 DEF PumpShowsOnce
  <2>. QED
    BY <2>1, <2>2, <2>3
<1>. QED
  BY <1>3, <1>4, <1>5, <1>6

-----------------------------------------------------------------------------
(* An event that is still to come *)

LEMMA PostKeepsComing ==
  ASSUME TypeOK, Post, NEW e, Coming(e)
  PROVE  Coming(e)'
<1>1. PICK p \in DOMAIN inbox : inbox[p] = e /\ \A q \in 1 .. p - 1 : inbox[q].id <= e.id
  BY DEF Coming
<1>2. /\ inbox \in Seq(Event(Len(posts))) /\ Len(inbox) \in Nat /\ Len(inbox') \in Nat
      /\ Len(inbox') >= Len(inbox) /\ \A a \in 1 .. Len(inbox) : inbox'[a] = inbox[a]
      /\ inbox' \in Seq(Event(Len(posts) + 1))
  BY PostFacts
<1>3. DOMAIN inbox = 1 .. Len(inbox) /\ DOMAIN inbox' = 1 .. Len(inbox')
  BY <1>2, LenProperties
<1>4. /\ p \in DOMAIN inbox' /\ inbox'[p] = e
      /\ \A q \in 1 .. p - 1 : q \in 1 .. Len(inbox)
  BY <1>1, <1>2, <1>3
<1>5. \A q \in 1 .. p - 1 : inbox'[q].id <= e.id
  BY <1>1, <1>2, <1>4
<1>. QED
  BY <1>4, <1>5 DEF Coming

\* A message that reaches the queue is to come, as the last one.
LEMMA PostBringsComing ==
  ASSUME TypeOK, Post, from # -1, ReachesQueue(posts'[Len(posts) + 1]),
         NEW n, n = Len(posts) + 1
  PROVE  /\ Coming(PostedEvent(n))'
         /\ mode # "lazy" /\ MentionsMe(posts'[n]) => Coming(MentionEvent(n))'
<1>1. /\ Len(posts) \in Nat /\ inbox' \in Seq(Event(n))
      /\ \E a \in DOMAIN inbox' : inbox'[a] = PostedEvent(n)
      /\ mode # "lazy" /\ MentionsMe(posts'[n]) => \E a \in DOMAIN inbox' : inbox'[a] = MentionEvent(n)
  BY PostFacts
<1>2. DOMAIN inbox' = 1 .. Len(inbox') /\ Len(inbox') \in Nat
      /\ \A a \in 1 .. Len(inbox') : inbox'[a].id \in 1 .. n
  BY <1>1, EventsTyped
<1>3. \A p \in DOMAIN inbox' : \A q \in 1 .. p - 1 : inbox'[q].id <= n
  BY <1>1, <1>2
<1>4. PostedEvent(n).id = n /\ MentionEvent(n).id = n
  BY DEF PostedEvent, MentionEvent
<1>6. \A e : e.id = n /\ (\E a \in DOMAIN inbox' : inbox'[a] = e) =>
        \E p \in DOMAIN inbox' : inbox'[p] = e /\ \A q \in 1 .. p - 1 : inbox'[q].id <= e.id
  BY <1>3
<1>7. /\ \E p \in DOMAIN inbox' : inbox'[p] = PostedEvent(n)
                                   /\ \A q \in 1 .. p - 1 : inbox'[q].id <= PostedEvent(n).id
      /\ mode # "lazy" /\ MentionsMe(posts'[n]) =>
           \E p \in DOMAIN inbox' : inbox'[p] = MentionEvent(n)
                                    /\ \A q \in 1 .. p - 1 : inbox'[q].id <= MentionEvent(n).id
  BY <1>1, <1>4, <1>6
<1>. QED
  BY <1>7 DEF Coming, PostedEvent, MentionEvent

LEMMA DispatchKeepsComing ==
  ASSUME TypeOK, Dispatch, NEW e, Coming(e), e # inbox[1]
  PROVE  Coming(e)' /\ inbox[1].id <= e.id
<1>1. PICK p \in DOMAIN inbox : inbox[p] = e /\ \A q \in 1 .. p - 1 : inbox[q].id <= e.id
  BY DEF Coming
<1>2. /\ inbox \in Seq(Event(Len(posts))) /\ inbox' \in Seq(Event(Len(posts)))
      /\ Len(inbox) \in Nat \ {0} /\ Len(inbox') = Len(inbox) - 1
      /\ \A a \in 1 .. Len(inbox) - 1 : inbox'[a] = inbox[a + 1]
  BY DispatchFacts DEF TypeOK, Event
<1>3. DOMAIN inbox = 1 .. Len(inbox) /\ DOMAIN inbox' = 1 .. Len(inbox')
  BY <1>2, LenProperties
<1>4. p # 1 /\ p \in 2 .. Len(inbox) /\ p - 1 \in DOMAIN inbox' /\ inbox'[p - 1] = e
  BY <1>1, <1>2, <1>3
<1>5. \A q \in 1 .. p - 2 : q \in 1 .. Len(inbox) - 1 /\ q + 1 \in 1 .. p - 1
  BY <1>2, <1>4
<1>6. \A q \in 1 .. p - 2 : inbox'[q].id <= e.id
  BY <1>1, <1>2, <1>5
<1>7. inbox[1].id <= e.id /\ (p - 1) - 1 = p - 2
  BY <1>1, <1>4
<1>. QED
  BY <1>4, <1>6, <1>7 DEF Coming

\* A gap replay brings what it has lost again, or gives it up before anything surfaced.
LEMMA GapKeepsComing ==
  ASSUME TypeOK, StreamInTime, GapReplay, NEW i \in 1 .. Len(posts),
         NEW e \in {PostedEvent(i), MentionEvent(i)}, Coming(e),
         e = MentionEvent(i) => MentionsMe(posts[i]) /\ NotifiesMe(posts[i])
  PROVE  Coming(e)' \/ i \in excused'
<1>0. /\ Len(posts) \in Nat /\ clock \in Nat /\ inbox \in Seq(Event(Len(posts)))
      /\ \A j \in 1 .. Len(posts) : TsOf(j) \in 0 .. clock
      /\ emitted \in 0 .. Len(posts) /\ e.id = i
  BY PostsTyped DEF TypeOK, Event, PostedEvent, MentionEvent
<1>1. PICK p \in DOMAIN inbox : inbox[p] = e /\ \A q \in 1 .. p - 1 : inbox[q].id <= i
  BY <1>0 DEF Coming
<1>2. Len(inbox) \in Nat /\ DOMAIN inbox = 1 .. Len(inbox)
      /\ \A a \in 1 .. Len(inbox) : inbox[a].id \in 1 .. Len(posts)
  BY <1>0, EventsTyped
<1>3. PICK n \in 0 .. Len(inbox), r \in Seq(Event(Len(posts))) :
        /\ CutAt(n, r)
        /\ inbox' \in Seq(Event(Len(posts))) /\ Len(inbox') = n + Len(r)
        /\ \A a \in 1 .. n + Len(r) : inbox'[a] = IF a <= n THEN inbox[a] ELSE r[a - n]
  BY GapFacts
<1>. DEFINE last == IF n = 0 THEN emitted ELSE inbox[n].id
            lost == {inbox[a].id : a \in n + 1 .. Len(inbox)}
<1>4. p > n => i \in lost
  <2>1. p > n => p \in n + 1 .. Len(inbox) /\ inbox[p].id = i
    BY <1>0, <1>1, <1>2
  <2>. QED
    BY <2>1
<1>5. \/ p > n => i \in excused'
      \/ last # 0 /\ r \in Replay(TsOf(last)) /\ (p > n => i \in Reached \/ i \in excused')
  <2>. HIDE DEF lost
  <2>1. \/ excused' = excused \cup lost
        \/ last # 0 /\ r \in Replay(TsOf(last)) /\ excused' = excused \cup (lost \ Reached)
    BY <1>3 DEF CutAt, lost
  <2>. HIDE DEF last
  <2>. QED
    BY <1>4, <2>1
<1>6. CASE p <= n \/ (last # 0 /\ r \in Replay(TsOf(last)) /\ i \in Reached)
  <2>3. p > n => last \in 1 .. Len(posts) /\ r \in Replay(TsOf(last)) /\ i \in Reached
    <3>1. last # 0 => last \in 1 .. Len(posts)
      BY <1>0, <1>2
    <3>. HIDE DEF last
    <3>. QED
      BY <1>2, <1>6, <3>1
  <2>4. p > n => TsOf(last) <= TsOf(i)
    <3>. SUFFICES ASSUME p > n
                  PROVE  TsOf(last) <= TsOf(i)
      OBVIOUS
    <3>1. p \in DOMAIN inbox /\ inbox[p].id = i
      BY <1>0, <1>1
    <3>2. CASE n = 0
      <4>1. emitted # 0
        BY <1>0, <2>3, <3>2
      <4>. QED
        BY <3>1, <3>2, <4>1 DEF StreamInTime
    <3>3. CASE n # 0
      <4>1. n \in DOMAIN inbox /\ n <= p
        BY <1>2, <3>3
      <4>. QED
        BY <3>1, <3>3, <4>1 DEF StreamInTime
    <3>. QED
      BY <3>2, <3>3
  <2>. HIDE DEF last, lost
  <2>5. /\ Len(r) \in Nat /\ DOMAIN r = 1 .. Len(r) /\ DOMAIN inbox' = 1 .. n + Len(r)
        /\ \A a \in 1 .. Len(r) : r[a].id \in 1 .. Len(posts)
    <3>1. Len(r) \in Nat /\ DOMAIN r = 1 .. Len(r)
          /\ \A a \in 1 .. Len(r) : r[a].id \in 1 .. Len(posts)
      BY <1>0, EventsTyped
    <3>2. DOMAIN inbox' = 1 .. Len(inbox')
      BY <1>3, LenProperties
    <3>. QED
      BY <1>3, <3>1, <3>2
  <2>6. \A a \in 1 .. n : inbox'[a] = inbox[a] /\ a \in DOMAIN inbox'
    <3>1. \A a \in 1 .. n : a \in 1 .. n + Len(r) /\ a <= n
      BY <2>5
    <3>. QED
      BY <1>3, <2>5, <3>1
  <2>7. \A a \in 1 .. Len(r) : inbox'[n + a] = r[a] /\ n + a \in DOMAIN inbox'
    <3>1. \A a \in 1 .. Len(r) : n + a \in 1 .. n + Len(r) /\ ~(n + a <= n) /\ n + a - n = a
      BY <2>5
    <3>. QED
      BY <1>3, <2>5, <3>1
  <2>8. CASE p <= n
    <3>1. p \in 1 .. n /\ \A q \in 1 .. p - 1 : q \in 1 .. n
      BY <1>2, <2>8
    <3>2. p \in DOMAIN inbox' /\ inbox'[p] = e
      BY <1>1, <2>6, <3>1
    <3>3. \A q \in 1 .. p - 1 : inbox'[q].id <= e.id
      BY <1>0, <1>1, <2>6, <3>1
    <3>. QED
      BY <3>2, <3>3 DEF Coming
  <2>9. CASE p > n
    <3>1. TsOf(i) >= TsOf(last)
      BY <1>0, <2>3, <2>4, <2>9
    <3>2. /\ \A a, b \in DOMAIN r : a < b => r[a].id <= r[b].id
          /\ \E a \in DOMAIN r : r[a] = e
      BY <2>3, <2>9, <3>1, ReplayFacts
    <3>3. PICK a \in DOMAIN r : r[a] = e
      BY <3>2
    <3>4. n + a \in DOMAIN inbox' /\ inbox'[n + a] = e
      BY <2>5, <2>7, <3>3
    <3>5. \A q \in 1 .. n + a - 1 : inbox'[q].id <= e.id
      <4>. SUFFICES ASSUME NEW q \in 1 .. n + a - 1
                    PROVE  inbox'[q].id <= e.id
        OBVIOUS
      <4>1. CASE q <= n
        <5>1. q \in 1 .. n /\ q \in 1 .. p - 1
          BY <1>2, <2>9, <4>1
        <5>. QED
          BY <1>0, <1>1, <2>6, <5>1
      <4>2. CASE q > n
        <5>1. q - n \in DOMAIN r /\ q - n < a /\ n + (q - n) = q
          BY <2>5, <4>2
        <5>2. inbox'[q] = r[q - n]
          BY <2>5, <2>7, <5>1
        <5>. QED
          BY <3>2, <3>3, <5>1, <5>2
      <4>. QED
        BY <4>1, <4>2
    <3>. QED
      BY <3>4, <3>5 DEF Coming
  <2>. QED
    BY <1>2, <2>8, <2>9
<1>. QED
  BY <1>2, <1>5, <1>6

-----------------------------------------------------------------------------
(* A new-topics narrow surfaces the first message of a topic *)

LEMMA SameTopic ==
  ASSUME NEW m, NEW k, Key(m) = Key(k)
  PROVE  /\ AsksNewTopics(m) <=> AsksNewTopics(k)
         /\ RefMatches(m) <=> RefMatches(k)
         /\ RefKey(Key(m)) <=> RefMatches(m)
<1>1. m.chan = k.chan /\ m.topic = k.topic
  BY DEF Key
<1>2. Key(m)[1] = m.chan /\ Key(m)[2] = m.topic
  BY DEF Key
<1>. QED
  BY <1>1, <1>2 DEF AsksNewTopics, RefMatches, RefKey, Intent

\* What is not heard through another narrow ticks its topic when it is dispatched.
LEMMA DispatchTicks ==
  ASSUME TypeOK, TopicsTicked, Dispatch
  PROVE  /\ /\ inbox[1].kind = "message-posted" /\ AsksNewTopics(posts[inbox[1].id])
            /\ ~RefMatches(posts[inbox[1].id])
            => Key(posts[inbox[1].id]) \in seenTopics'
         /\ seenTopics \subseteq seenTopics'
         /\ \A k \in seen' : k \in seenTopics' \/ RefKey(k)
<1>. DEFINE m == posts[inbox[1].id]
            e == inbox[1]
<1>1. /\ seen' = IF e.kind = "message-posted" /\ AsksNewTopics(m) THEN seen \cup {Key(m)} ELSE seen
      /\ seenTopics' = IF /\ e.kind = "message-posted" /\ ShouldDeliver(e, m) /\ ~RefMatches(m)
                          /\ NewTopicsMatches(m)
                       THEN seenTopics \cup {Key(m)} ELSE seenTopics
  BY DispatchFacts
<1>2. \A k \in seen : k \in seenTopics \/ RefKey(k)
  BY DEF TopicsTicked
<1>3. RefKey(Key(m)) <=> RefMatches(m)
  BY SameTopic
<1>. HIDE DEF m, e
<1>4. e.kind = "message-posted" /\ AsksNewTopics(m) /\ ~RefMatches(m) => Key(m) \in seenTopics'
  <2>. SUFFICES ASSUME e.kind = "message-posted", AsksNewTopics(m), ~RefMatches(m)
                PROVE  Key(m) \in seenTopics'
    OBVIOUS
  <2>1. CASE ShouldDeliver(e, m)
    BY <1>1, <2>1 DEF NewTopicsMatches
  <2>2. CASE ~ShouldDeliver(e, m)
    <3>1. Key(m) \in seen
      BY <2>2 DEF ShouldDeliver, AsksNewTopics
    <3>. QED
      BY <1>1, <1>2, <1>3, <3>1
  <2>. QED
    BY <2>1, <2>2
<1>5. seenTopics \subseteq seenTopics'
  BY <1>1
<1>6. \A k \in seen' : k \in seenTopics' \/ RefKey(k)
  BY <1>1, <1>2, <1>3, <1>4, <1>5
<1>. QED
  BY <1>4, <1>5, <1>6 DEF m, e

LEMMA TickedStep ==
  ASSUME TypeOK, InStep, StreamInTime, TopicsTicked, [Next]_vars
  PROVE  TopicsTicked'
<1>0. Len(posts) \in Nat /\ from \in -1 .. Len(posts)
  BY PostsTyped DEF TypeOK
<1>1. CASE Post
  <2>. DEFINE n == Len(posts) + 1
  <2>1. /\ UNCHANGED <<narrow, seen, seenTopics, from, excused>> /\ Len(posts') = n
        /\ \A i \in 1 .. Len(posts) : posts'[i] = posts[i]
    BY <1>1, PostFacts DEF marks
  <2>. SUFFICES ASSUME from # -1, NEW j \in 1 .. n, from < j, j \notin excused,
                       AsksNewTopics(posts'[j]), ~RefMatches(posts'[j])
                PROVE  Key(posts'[j]) \in seenTopics \/ Coming(PostedEvent(j))'
    BY <2>1 DEF TopicsTicked, RefKey, RefMatches, AsksNewTopics
  <2>2. CASE j = n
    <3>1. ReachesQueue(posts'[j])
      <4>1. Intent("new-topics", posts'[j]).chan = posts'[j].chan
        BY DEF Intent
      <4>. QED
        BY <1>1, <4>1, PostFacts DEF AsksNewTopics, ReachesQueue, Subscribed, TypeOK
    <3>. QED
      BY <1>1, <2>2, <3>1, PostBringsComing
  <2>3. CASE j # n
    <3>1. j \in 1 .. Len(posts) /\ posts'[j] = posts[j]
      BY <1>0, <2>1, <2>3
    <3>2. Key(posts[j]) \in seenTopics \/ Coming(PostedEvent(j))
      BY <3>1 DEF TopicsTicked
    <3>. QED
      BY <1>1, <3>1, <3>2, PostKeepsComing
  <2>. QED
    BY <2>2, <2>3
<1>2. CASE Dispatch
  <2>1. UNCHANGED <<narrow, posts, from, excused>>
    BY <1>2, DispatchFacts DEF Dispatch
  <2>2. \A k \in seen' : k \in seenTopics' \/ RefKey(k)
    BY <1>2, DispatchTicks
  <2>. SUFFICES ASSUME from # -1, NEW j \in 1 .. Len(posts), from < j, j \notin excused,
                       AsksNewTopics(posts[j]), ~RefMatches(posts[j])
                PROVE  Key(posts[j]) \in seenTopics' \/ Coming(PostedEvent(j))'
    BY <2>1, <2>2 DEF TopicsTicked, RefKey, RefMatches, AsksNewTopics
  <2>3. CASE Key(posts[j]) \in seenTopics
    BY <1>2, <2>3, DispatchTicks
  <2>4. CASE Coming(PostedEvent(j)) /\ PostedEvent(j) # inbox[1]
    BY <1>2, <2>4, DispatchKeepsComing
  <2>5. CASE PostedEvent(j) = inbox[1]
    <3>1. inbox[1].id = j /\ inbox[1].kind = "message-posted"
      BY <2>5 DEF PostedEvent
    <3>. QED
      BY <1>2, <3>1, DispatchTicks
  <2>. QED
    BY <2>3, <2>4, <2>5 DEF TopicsTicked
<1>3. CASE GapReplay
  <2>1. UNCHANGED <<narrow, posts, from, seen, seenTopics>> /\ excused \subseteq excused'
    BY <1>3, GapFacts
  <2>. SUFFICES ASSUME from # -1, NEW j \in 1 .. Len(posts), from < j, j \notin excused',
                       AsksNewTopics(posts[j]), ~RefMatches(posts[j])
                PROVE  Key(posts[j]) \in seenTopics \/ Coming(PostedEvent(j))'
    BY <2>1 DEF TopicsTicked, RefKey, RefMatches, AsksNewTopics
  <2>2. Key(posts[j]) \in seenTopics \/ Coming(PostedEvent(j))
    BY <2>1 DEF TopicsTicked
  <2>3. PostedEvent(j) # MentionEvent(j)
    <3>1. PostedEvent(j).kind = "message-posted" /\ MentionEvent(j).kind = "mention-received"
      BY DEF PostedEvent, MentionEvent
    <3>. QED
      BY <3>1
  <2>. QED
    BY <1>3, <2>2, <2>3, GapKeepsComing
<1>4. CASE ~Post /\ ~Dispatch /\ ~GapReplay
  <2>1. /\ UNCHANGED posts /\ excused \subseteq excused'
        /\ \/ UNCHANGED <<narrow, inbox, seen, seenTopics>>
              /\ (UNCHANGED from \/ (from = -1 /\ from' = Len(posts)))
           \/ seen' = {} /\ from' = -1
    BY <1>4, StreamRests DEF InStep
  <2>2. CASE seen' = {} /\ from' = -1
    BY <2>2 DEF TopicsTicked
  <2>3. CASE UNCHANGED <<narrow, inbox, seen, seenTopics, from>>
    BY <2>1, <2>3 DEF TopicsTicked, RefKey, RefMatches, AsksNewTopics, Coming
  <2>4. CASE UNCHANGED <<narrow, seen, seenTopics>> /\ from' = Len(posts)
    <3>1. \A j \in 1 .. Len(posts) : ~(from' < j)
      BY <1>0, <2>4
    <3>. QED
      BY <2>1, <2>4, <3>1 DEF TopicsTicked, RefKey, RefMatches, AsksNewTopics
  <2>. QED
    BY <2>1, <2>2, <2>3, <2>4
<1>. QED
  BY <1>1, <1>2, <1>3, <1>4

LEMMA FirstStep ==
  ASSUME TypeOK, InStep, LogInTime, TopicsTicked, OnlyTheFirstOfATopic, [Next]_vars
  PROVE  OnlyTheFirstOfATopic'
<1>0. /\ Len(posts) \in Nat /\ from \in -1 .. Len(posts) /\ shown \in [Ids -> Nat]
      /\ MaxPosts \in Nat /\ Len(posts) <= MaxPosts
  BY PostsTyped, DeliveryAssumption DEF TypeOK, InStep
<1>1. CASE Post
  <2>1. /\ UNCHANGED <<narrow, shown, from, excused>> /\ Len(posts') = Len(posts) + 1
        /\ \A i \in 1 .. Len(posts) : posts'[i] = posts[i]
    BY <1>1, PostFacts DEF marks
  <2>. SUFFICES ASSUME NEW i \in 1 .. Len(posts'), shown[i] > 0,
                       ~RefMatches(posts'[i]), ~MentionsMe(posts'[i]),
                       NEW j \in (from + 1 .. i - 1) \ excused
                PROVE  Key(posts'[j]) # Key(posts'[i])
    BY <2>1 DEF OnlyTheFirstOfATopic, RefMatches
  <2>2. i \in 1 .. Len(posts)
    <3>1. Len(posts') <= MaxPosts
      BY <1>1, PostFacts, DeliveryAssumption
    <3>2. i \in Ids /\ shown[i] \in Nat
      BY <1>0, <2>1, <3>1 DEF Ids
    <3>. QED
      BY <1>0, <2>1, <3>2 DEF LogInTime
  <2>3. CASE from = -1
    <3>1. i \in Ids /\ emitted = 0
      BY <1>0, <2>2, <2>3 DEF Ids, InStep
    <3>. QED
      BY <3>1 DEF LogInTime
  <2>4. CASE from # -1
    <3>1. j \in 1 .. Len(posts)
      BY <1>0, <2>2, <2>4
    <3>. QED
      BY <2>1, <2>2, <3>1 DEF OnlyTheFirstOfATopic
  <2>. QED
    BY <2>3, <2>4
<1>2. CASE Dispatch
  <2>. DEFINE e == inbox[1]
  <2>1. /\ e \in Event(Len(posts)) /\ UNCHANGED <<narrow, posts, from, excused>>
        /\ (shown' = shown \/ (IsFresh(e) /\ shown' = [shown EXCEPT ![e.id] = @ + 1]))
    BY <1>2, DispatchFacts DEF Dispatch
  <2>. SUFFICES ASSUME NEW i \in 1 .. Len(posts), shown'[i] > 0,
                       ~RefMatches(posts[i]), ~MentionsMe(posts[i]),
                       NEW j \in (from + 1 .. i - 1) \ excused, Key(posts[j]) = Key(posts[i])
                PROVE  FALSE
    BY <2>1 DEF OnlyTheFirstOfATopic, RefMatches
  <2>2. CASE shown[i] > 0
    BY <2>2 DEF OnlyTheFirstOfATopic
  <2>3. CASE ~(shown[i] > 0)
    <3>1. i = e.id /\ IsFresh(e)
      <4>1. i \in Ids
        BY <1>0 DEF Ids
      <4>. HIDE DEF e
      <4>. QED
        BY <1>0, <2>1, <2>3, <4>1
    <3>2. /\ e.kind = "message-posted" /\ AsksNewTopics(posts[i]) /\ Key(posts[i]) \notin seenTopics
      BY <3>1 DEF IsFresh, Passes, NarrowMatches, NewTopicsMatches
    <3>3. from # -1
      BY <1>2 DEF Dispatch, InStep
    <3>4. j \in 1 .. Len(posts) /\ from < j /\ j < i
      BY <1>0, <3>3
    <3>5. AsksNewTopics(posts[j]) /\ ~RefMatches(posts[j])
      BY <3>2, SameTopic
    <3>6. Coming(PostedEvent(j))
      BY <3>2, <3>3, <3>4, <3>5 DEF TopicsTicked
    <3>7. PostedEvent(j).id = j
      BY DEF PostedEvent
    <3>8. PostedEvent(j) # inbox[1]
      BY <3>1, <3>4, <3>7
    <3>9. inbox[1].id <= j
      BY <1>2, <3>6, <3>7, <3>8, DispatchKeepsComing
    <3>. QED
      BY <1>0, <3>1, <3>4, <3>9
  <2>. QED
    BY <2>2, <2>3
<1>3. CASE GapReplay
  <2>1. UNCHANGED <<narrow, posts, from, shown>> /\ excused \subseteq excused'
    BY <1>3, GapFacts
  <2>. QED
    BY <2>1 DEF OnlyTheFirstOfATopic, RefMatches
<1>4. CASE ~Post /\ ~Dispatch /\ ~GapReplay
  <2>1. /\ UNCHANGED posts /\ excused \subseteq excused'
        /\ \/ /\ UNCHANGED <<narrow, shown>>
              /\ UNCHANGED from \/ (from = -1 /\ from' = Len(posts))
           \/ UNCHANGED shown /\ emitted = 0
           \/ shown' = NoBlocks
    BY <1>4, StreamRests DEF InStep
  <2>2. CASE shown' = NoBlocks
    <3>1. \A i \in 1 .. Len(posts) : ~(shown'[i] > 0)
      BY <1>0, <2>2 DEF NoBlocks, Ids
    <3>. QED
      BY <2>1, <3>1 DEF OnlyTheFirstOfATopic
  <2>3. CASE UNCHANGED <<narrow, shown, from>>
    BY <2>1, <2>3 DEF OnlyTheFirstOfATopic, RefMatches
  <2>4. CASE UNCHANGED shown /\ from' = Len(posts)
    <3>1. \A i \in 1 .. Len(posts) : from' + 1 .. i - 1 = {}
      BY <1>0, <2>4
    <3>. QED
      BY <2>1, <3>1 DEF OnlyTheFirstOfATopic
  <2>5. CASE UNCHANGED shown /\ emitted = 0
    <3>1. \A i \in 1 .. Len(posts) : ~(shown'[i] > 0)
      BY <1>0, <2>5 DEF LogInTime, Ids
    <3>. QED
      BY <2>1, <3>1 DEF OnlyTheFirstOfATopic
  <2>. QED
    BY <2>1, <2>2, <2>3, <2>4, <2>5
<1>. QED
  BY <1>1, <1>2, <1>3, <1>4

-----------------------------------------------------------------------------
(* The cursor tells the truth *)

\* Nothing but a post makes a mention pending.
LEMMA PendingShrinks ==
  ASSUME TypeOK, [Next]_vars, ~Post, NEW i \in 1 .. Len(posts), Pending(i)'
  PROVE  Pending(i) /\ (UNCHANGED since \/ ~(since' < TsOf(i)))
<1>. USE DEF atBoot, live, marks
<1>0. clock \in Nat /\ since \in {-1} \cup 0 .. clock /\ TsOf(i) \in 0 .. clock /\ since <= cursor
  BY PostsTyped DEF TypeOK, NoCursor
<1>1. CASE CatchUpMentions
  <2>1. UNCHANGED <<posts, heard, excused>> /\ (UNCHANGED since \/ since' = clock)
    BY <1>1 DEF CatchUpMentions
  <2>. QED
    BY <1>0, <2>1 DEF Pending, TsOf
<1>2. CASE ~CatchUpMentions
  <2>1. UNCHANGED <<posts, since>> /\ heard \subseteq heard' /\ excused \subseteq excused'
    <3>1. CASE Dispatch
      BY <3>1, DispatchFacts DEF Dispatch
    <3>2. CASE GapReplay
      BY <3>2, GapFacts
    <3>3. CASE Tick \/ Start \/ Bind \/ RegisterDefaults \/ RegisterFails \/ ProducerRegisters
         \/ Serve
      BY <3>3 DEF Tick, Start, Bind, RegisterDefaults, RegisterFails, ProducerRegisters, Serve
    <3>4. CASE ReplayAnswers \/ Surface \/ MentionsDone \/ CatchUpChannels
      BY <3>4 DEF ReplayAnswers, Surface, MentionsDone, CatchUpChannels
    <3>5. CASE CatchUpFails
      BY <3>5 DEF CatchUpFails
    <3>6. CASE Crash
      BY <3>6 DEF Crash
    <3>7. CASE UNCHANGED vars
      BY <3>7 DEF vars
    <3>. QED
      BY <1>2, <3>1, <3>2, <3>3, <3>4, <3>5, <3>6, <3>7 DEF Next, SeatStep
  <2>. QED
    BY <2>1 DEF Pending, TsOf
<1>. QED
  BY <1>1, <1>2

LEMMA PendingAtPost ==
  ASSUME TypeOK, InStep, PendingIsOnItsWay, Post
  PROVE  PendingIsOnItsWay'
<1>. DEFINE n == Len(posts) + 1
<1>1. /\ UNCHANGED <<mode, narrow, cursor, since, excused, boot, startedAt, todo, from, pump, heard>>
      /\ Len(posts') = n /\ \A i \in 1 .. Len(posts) : posts'[i] = posts[i]
      /\ posts'[n] \in Posted /\ posts'[n].ts = clock /\ Len(posts) \in Nat
  BY PostFacts DEF marks, atBoot
<1>2. from \in -1 .. Len(posts) /\ startedAt \in 0 .. clock /\ cursor <= clock /\ clock \in Nat
  BY PostsTyped DEF TypeOK, NoCursor
<1>. SUFFICES ASSUME mode = "defaults", NEW i \in 1 .. n, Pending(i)'
              PROVE  OnItsWay(i)'
  BY <1>1 DEF PendingIsOnItsWay
<1>3. CASE i = n
  <2>1. ReachesQueue(posts'[n]) /\ MentionsMe(posts'[n])
    BY <1>1, <1>3 DEF Pending, NotifiesMe, ReachesQueue, MentionsMe
  <2>2. from # -1 => Coming(MentionEvent(i))'
    BY <1>1, <1>3, <2>1, PostBringsComing
  <2>. QED
    BY <1>1, <1>2, <1>3, <2>2 DEF OnItsWay, TsOf
<1>4. CASE i # n
  <2>1. i \in 1 .. Len(posts) /\ posts'[i] = posts[i]
    BY <1>1, <1>4
  <2>2. Pending(i)
    BY <1>1, <2>1 DEF Pending, TsOf
  <2>3. OnItsWay(i)
    BY <2>1, <2>2 DEF PendingIsOnItsWay
  <2>4. Coming(MentionEvent(i)) => Coming(MentionEvent(i))'
    BY PostKeepsComing
  <2>. QED
    BY <1>1, <2>1, <2>3, <2>4 DEF OnItsWay, TsOf
<1>. QED
  BY <1>3, <1>4

\* A mention that is told leaves the pending ones; an earlier event leaves the
\* cursor before the mentions behind it.
LEMMA PendingAtDispatch ==
  ASSUME TypeOK, InStep, LogInTime, PendingIsOnItsWay, Dispatch
  PROVE  PendingIsOnItsWay'
<1>. DEFINE e == inbox[1]
<1>1. /\ UNCHANGED <<mode, narrow, posts, since, excused, beyond, boot, startedAt, todo, from>>
      /\ pump = "on" /\ e \in Event(Len(posts))
      /\ cursor' = IF Passes(e) /\ posts[e.id].by # "me" /\ e.kind = "mention-received"
                   THEN Advanced(TsOf(e.id)) ELSE cursor
      /\ IsFresh(e) => heard' = heard \cup {e.id} \/ pump' = "parked"
  BY DispatchFacts DEF Dispatch
<1>2. Len(posts) \in Nat /\ \A i \in 1 .. Len(posts) : TsOf(i) \in 0 .. clock
  BY PostsTyped
<1>. SUFFICES ASSUME mode = "defaults", NEW i \in 1 .. Len(posts), Pending(i)'
              PROVE  OnItsWay(i)'
  BY <1>1 DEF PendingIsOnItsWay
<1>3. Pending(i) /\ OnItsWay(i)
  <2>1. [Next]_vars /\ ~Post
    <3>1. [Next]_vars
      BY DEF Next, SeatStep
    <3>2. ~Post
      BY <1>1, <1>2, PostFacts
    <3>. QED
      BY <3>1, <3>2
  <2>. QED
    BY <2>1, PendingShrinks DEF PendingIsOnItsWay
<1>4. boot = "done" /\ from # -1
  BY <1>1 DEF InStep, Dispatch
<1>5. from < i /\ Coming(MentionEvent(i)) /\ MentionEvent(i).id = i
  BY <1>1, <1>3, <1>4 DEF OnItsWay, MentionEvent
<1>6. MentionEvent(i) = e => pump' = "parked"
  <2>. SUFFICES ASSUME MentionEvent(i) = e
                PROVE  pump' = "parked"
    OBVIOUS
  <2>1. e.id = i /\ e.kind = "mention-received"
    BY DEF MentionEvent
  <2>2. posts[i].by = "other" /\ MentionsMe(posts[i]) /\ i \notin heard'
    <3>1. i \notin heard'
      BY DEF Pending
    <3>2. posts[i].by = "other" /\ NotifiesMe(posts[i])
      BY <1>3 DEF Pending
    <3>. QED
      BY <3>1, <3>2 DEF NotifiesMe, MentionsMe
  <2>3. ~Logged(i)
    BY <1>1, <1>3 DEF Logged, LogInTime, Pending
  <2>. HIDE DEF e
  <2>4. Passes(e)
    BY <1>4, <2>1, <2>2 DEF Passes, ShouldDeliver, NarrowMatches
  <2>5. IsFresh(e)
    BY <2>1, <2>2, <2>3, <2>4 DEF IsFresh
  <2>. QED
    BY <1>1, <2>1, <2>2, <2>5
<1>7. MentionEvent(i) # e => Coming(MentionEvent(i))'
  BY <1>5, DispatchKeepsComing
<1>8. e.id \in 1 .. Len(posts) /\ e.id <= i
  <2>1. e.id \in 1 .. Len(posts)
    BY <1>1 DEF Event
  <2>2. MentionEvent(i) # e => e.id <= i
    BY <1>5, DispatchKeepsComing
  <2>. QED
    BY <1>5, <2>1, <2>2
<1>9. TsOf(e.id) <= TsOf(i)
  BY <1>8 DEF InStep
<1>10. cursor' <= TsOf(i)
  <2>1. cursor <= TsOf(i)
    BY <1>3 DEF OnItsWay
  <2>2. Advanced(TsOf(e.id)) \in {cursor, TsOf(e.id)}
    BY DEF Advanced
  <2>. HIDE DEF e
  <2>. QED
    BY <1>1, <1>9, <2>1, <2>2
<1>. QED
  BY <1>1, <1>4, <1>5, <1>6, <1>7, <1>10 DEF OnItsWay, TsOf

LEMMA PendingAtGap ==
  ASSUME TypeOK, StreamInTime, PendingIsOnItsWay, GapReplay
  PROVE  PendingIsOnItsWay'
<1>1. /\ UNCHANGED <<mode, narrow, posts, cursor, since, boot, startedAt, todo, pump, from, heard>>
      /\ excused \subseteq excused'
  BY GapFacts
<1>. SUFFICES ASSUME mode = "defaults", NEW i \in 1 .. Len(posts), Pending(i)'
              PROVE  OnItsWay(i)'
  BY <1>1 DEF PendingIsOnItsWay
<1>2. Pending(i) /\ OnItsWay(i)
  <2>1. Pending(i)
    BY <1>1 DEF Pending, TsOf
  <2>. QED
    BY <2>1 DEF PendingIsOnItsWay
<1>3. MentionsMe(posts[i]) /\ NotifiesMe(posts[i]) /\ i \notin excused'
  <2>1. NotifiesMe(posts[i])
    BY <1>2 DEF Pending
  <2>2. i \notin excused'
    BY DEF Pending
  <2>. QED
    BY <2>1, <2>2 DEF NotifiesMe, MentionsMe
<1>4. Coming(MentionEvent(i)) => Coming(MentionEvent(i))'
  BY <1>3, GapKeepsComing
<1>. QED
  BY <1>1, <1>2, <1>4 DEF OnItsWay, TsOf

\* The boot and its catch-ups: what is fetched is told, what is not fetched comes
\* over the queue, and what a failure leaves untold is given up.
LEMMA PendingElsewhere ==
  ASSUME TypeOK, InStep, PendingIsOnItsWay, [Next]_vars, ~Post, ~Dispatch, ~GapReplay
  PROVE  PendingIsOnItsWay'
<1>. USE DEF atBoot, live, marks
<1>0. /\ Len(posts) \in Nat /\ clock \in Nat /\ \A i \in 1 .. Len(posts) : TsOf(i) \in 0 .. clock
      /\ from \in -1 .. Len(posts) /\ todo \in Seq(1 .. Len(posts))
      /\ startedAt \in 0 .. clock /\ cursor \in {-1} \cup 0 .. clock
  BY PostsTyped DEF TypeOK, NoCursor
<1>1. UNCHANGED <<mode, posts>>
  BY StreamRests DEF Tick, Start, Bind, RegisterDefaults, RegisterFails, ProducerRegisters, CatchUpMentions,
                     ReplayAnswers, Surface, MentionsDone, CatchUpChannels, Serve, CatchUpFails,
                     Crash, Next, SeatStep, vars
<1>. SUFFICES ASSUME mode = "defaults"
              PROVE  \A i \in 1 .. Len(posts) : Pending(i)' => OnItsWay(i)'
  BY <1>1 DEF PendingIsOnItsWay
<1>3. \A i \in 1 .. Len(posts) : Pending(i)' =>
        /\ Pending(i) /\ (UNCHANGED since \/ ~(since' < TsOf(i))) /\ OnItsWay(i)
  BY PendingShrinks DEF PendingIsOnItsWay
<1>4. CASE UNCHANGED <<boot, cursor, startedAt, todo, from, pump, inbox>>
  BY <1>1, <1>3, <1>4 DEF OnItsWay, TsOf, Coming
<1>5. CASE Start
  <2>1. boot' = "up" /\ from' = -1 /\ UNCHANGED cursor
    BY <1>5 DEF Start, InStep
  <2>. QED
    BY <1>1, <1>3, <2>1 DEF OnItsWay, TsOf
<1>6. CASE Bind
  <2>1. boot' = "bound" /\ from' = -1 /\ UNCHANGED cursor
    BY <1>6 DEF Bind, InStep
  <2>. QED
    BY <1>1, <1>3, <2>1 DEF OnItsWay, TsOf
<1>7. CASE RegisterDefaults
  <2>1. boot' = "ready" /\ from' = Len(posts) /\ UNCHANGED cursor
    BY <1>7 DEF RegisterDefaults
  <2>2. \A i \in 1 .. Len(posts) : ~(from' < i)
    BY <1>0, <2>1
  <2>. QED
    BY <1>1, <1>3, <2>1, <2>2 DEF OnItsWay, TsOf
<1>18. CASE RegisterFails
  <2>1. boot' = "ready" /\ UNCHANGED <<cursor, from, pump, inbox>>
    BY <1>18 DEF RegisterFails
  <2>. QED
    BY <1>1, <1>3, <2>1 DEF OnItsWay, TsOf, Coming
<1>8. CASE ProducerRegisters
  <2>1. \A i \in 1 .. Len(posts) : Pending(i) /\ OnItsWay(i) => i \in excused'
    <3>1. excused' = excused \cup Missed
      BY <1>8 DEF ProducerRegisters
    <3>. QED
      BY <1>0, <3>1 DEF Pending, OnItsWay, Missed, TsOf
  <2>2. \A i \in 1 .. Len(posts) : ~Pending(i)'
    BY <1>3, <2>1 DEF Pending
  <2>. QED
    BY <2>2
<1>9. CASE CatchUpMentions
  <2>1. /\ from' = from /\ boot' \in {"skim", "replay"}
        /\ UNCHANGED <<inbox, pump>>
    BY <1>9 DEF CatchUpMentions
  <2>2. CASE boot' = "replay" /\ UNCHANGED cursor
    BY <1>1, <1>3, <2>1, <2>2 DEF OnItsWay, TsOf, Coming
  <2>3. CASE since' = clock
    <3>1. \A i \in 1 .. Len(posts) : ~(since' < TsOf(i))
      BY <1>0, <2>3
    <3>2. \A i \in 1 .. Len(posts) : ~Pending(i)'
      BY <1>1, <3>1 DEF Pending, TsOf
    <3>. QED
      BY <2>1, <3>2
  <2>. QED
    BY <1>9, <2>2, <2>3 DEF CatchUpMentions
<1>10. CASE ReplayAnswers
  <2>1. UNCHANGED <<cursor, startedAt, from, pump, inbox>> /\ boot = "replay" /\ boot' = "mentions"
    BY <1>10 DEF ReplayAnswers
  <2>2. \A i \in Reached : TsOf(i) >= cursor /\ NotifiesMe(posts[i]) =>
          \E a \in DOMAIN todo' : todo'[a] = i
    BY <1>10, MentionsFetched
  <2>4. \A i \in 1 .. Len(posts) : Pending(i)' /\ Pending(i) /\ OnItsWay(i) => i \in Reached
    <3>1. excused' = excused \cup Cut
      BY <1>10 DEF ReplayAnswers
    <3>2. \A i \in 1 .. Len(posts) : Pending(i) /\ OnItsWay(i) => i \in Missed
      BY <1>0 DEF Pending, OnItsWay, Missed, TsOf
    <3>. QED
      BY <3>1, <3>2 DEF Pending, Cut
  <2>3. \A i \in 1 .. Len(posts) : Pending(i) /\ OnItsWay(i) => TsOf(i) >= cursor /\ NotifiesMe(posts[i])
    BY <1>0 DEF Pending, OnItsWay
  <2>. QED
    BY <1>1, <1>3, <2>1, <2>2, <2>3, <2>4 DEF OnItsWay, TsOf, Coming
<1>11. CASE Surface
  <2>1. /\ UNCHANGED <<cursor, startedAt, from, pump, inbox, boot>> /\ todo # <<>>
        /\ todo' = Tail(todo) /\ heard' = heard \cup {Head(todo)}
    BY <1>11 DEF Surface
  <2>2. /\ Head(todo) = todo[1] /\ Len(todo) \in Nat \ {0} /\ DOMAIN todo = 1 .. Len(todo)
        /\ DOMAIN todo' = 1 .. Len(todo) - 1
        /\ \A a \in 1 .. Len(todo) - 1 : todo'[a] = todo[a + 1]
    <3>1. Len(todo) \in Nat \ {0} /\ Head(todo) = todo[1] /\ DOMAIN todo = 1 .. Len(todo)
      BY <1>0, <2>1, EmptySeq, LenProperties
    <3>2. /\ Len(Tail(todo)) = Len(todo) - 1 /\ Tail(todo) \in Seq(1 .. Len(posts))
          /\ \A a \in 1 .. Len(Tail(todo)) : Tail(todo)[a] = todo[a + 1]
      BY <1>0, <2>1, HeadTailProperties
    <3>3. DOMAIN Tail(todo) = 1 .. Len(Tail(todo))
      BY <3>2, LenProperties
    <3>. QED
      BY <2>1, <3>1, <3>2, <3>3
  <2>3. \A i \in 1 .. Len(posts) : Pending(i)' /\ (\E a \in DOMAIN todo : todo[a] = i) =>
          \E a \in DOMAIN todo' : todo'[a] = i
    <3>. SUFFICES ASSUME NEW i \in 1 .. Len(posts), Pending(i)',
                         NEW a \in DOMAIN todo, todo[a] = i
                  PROVE  \E b \in DOMAIN todo' : todo'[b] = i
      OBVIOUS
    <3>1. a # 1
      BY <2>1, <2>2 DEF Pending
    <3>2. a - 1 \in 1 .. Len(todo) - 1 /\ (a - 1) + 1 = a
      BY <2>2, <3>1
    <3>. QED
      BY <2>2, <3>2
  <2>. QED
    BY <1>1, <1>3, <2>1, <2>3 DEF OnItsWay, TsOf, Coming
<1>12. CASE MentionsDone
  <2>1. /\ UNCHANGED <<from, pump, inbox>> /\ boot = "mentions" /\ todo = <<>>
        /\ cursor' \in {cursor, startedAt} /\ boot' = "skim"
    BY <1>12 DEF MentionsDone, Advanced
  <2>2. \A i \in 1 .. Len(posts) : OnItsWay(i) =>
          from < i /\ startedAt <= TsOf(i) /\ cursor <= TsOf(i)
    BY <2>1 DEF OnItsWay
  <2>. QED
    BY <1>1, <1>3, <2>1, <2>2 DEF OnItsWay, TsOf, Coming
<1>13. CASE CatchUpFails
  <2>1. UNCHANGED <<cursor, startedAt, from, pump, inbox>>
    BY <1>13 DEF CatchUpFails
  <2>2. CASE boot = "channels" /\ boot' = "skimmed"
    BY <1>1, <1>3, <2>1, <2>2 DEF OnItsWay, TsOf, Coming
  <2>3. CASE boot \in {"replay", "mentions"} /\ excused' = excused \cup Missed
    <3>1. \A i \in 1 .. Len(posts) : Pending(i) /\ OnItsWay(i) => i \in excused'
      BY <1>0, <2>3 DEF Pending, OnItsWay, Missed, TsOf
    <3>2. \A i \in 1 .. Len(posts) : ~Pending(i)'
      BY <1>3, <3>1 DEF Pending
    <3>. QED
      BY <2>1, <2>3, <3>2
  <2>. QED
    BY <1>13, <2>2, <2>3 DEF CatchUpFails
<1>14. CASE CatchUpChannels
  <2>1. /\ UNCHANGED <<cursor, startedAt, from, pump, inbox>> /\ boot = "skim"
        /\ boot' \in {"skimmed", "channels"}
    BY <1>14 DEF CatchUpChannels
  <2>. QED
    BY <1>1, <1>3, <2>1 DEF OnItsWay, TsOf, Coming
<1>15. CASE Serve
  <2>1. /\ UNCHANGED <<cursor, startedAt, from, inbox>> /\ boot \in {"skimmed", "channels"}
        /\ boot' = "done" /\ (pump = "parked" => pump' = "parked")
    BY <1>15 DEF Serve
  <2>. QED
    BY <1>1, <1>3, <2>1 DEF OnItsWay, TsOf, Coming
<1>16. CASE Crash
  <2>1. boot' = "down" /\ from' = -1 /\ UNCHANGED cursor
    BY <1>16 DEF Crash
  <2>. QED
    BY <1>1, <1>3, <2>1 DEF OnItsWay, TsOf
<1>17. CASE Tick \/ UNCHANGED vars
  BY <1>4, <1>17 DEF Tick, vars
<1>. QED
  BY <1>5, <1>6, <1>7, <1>8, <1>9, <1>10, <1>11, <1>12, <1>13, <1>14, <1>15, <1>16, <1>17,
     <1>18 DEF Next, SeatStep

LEMMA BeyondStep ==
  ASSUME TypeOK, BeyondReach, [Next]_vars
  PROVE  BeyondReach'
<1>0. Len(posts) \in Nat /\ beyond \subseteq 1 .. Len(posts) /\ Reach \in Nat
  BY PostsTyped, DeliveryAssumption DEF TypeOK
<1>1. CASE Post
  <2>1. UNCHANGED beyond /\ Len(posts') = Len(posts) + 1
    BY <1>1, PostFacts DEF marks
  <2>. QED
    BY <1>0, <2>1 DEF BeyondReach
<1>2. CASE ReplayAnswers
  <2>1. beyond' = beyond \cup (Cut \ excused) /\ UNCHANGED posts
    BY <1>2 DEF ReplayAnswers
  <2>2. \A i \in Cut : i \in 1 .. Len(posts) /\ ~(i + Reach > Len(posts))
    BY DEF Cut, Missed, Reached
  <2>. QED
    BY <1>0, <2>1, <2>2 DEF BeyondReach
<1>3. CASE GapReplay
  <2>1. PICK n \in 0 .. Len(inbox), r \in Seq(Event(Len(posts))) : CutAt(n, r)
    BY <1>3, GapFacts
  <2>. DEFINE lost == {inbox[a].id : a \in n + 1 .. Len(inbox)}
  <2>2. UNCHANGED posts
    BY <1>3, GapFacts
  <2>3. lost \subseteq 1 .. Len(posts)
    <3>1. inbox \in Seq(Event(Len(posts)))
      BY DEF TypeOK, Event
    <3>. QED
      BY <1>0, <3>1, EventsTyped
  <2>4. beyond' \subseteq beyond \cup (lost \ Reached)
    BY <2>1 DEF CutAt
  <2>. HIDE DEF lost
  <2>5. \A i \in beyond' : i \in beyond \/ (i \in 1 .. Len(posts) /\ ~(i + Reach > Len(posts)))
    BY <2>3, <2>4 DEF Reached
  <2>6. \A i \in 1 .. Len(posts) : ~(i + Reach > Len(posts)) => i + Reach <= Len(posts)
    BY <1>0
  <2>7. \A i \in beyond' : i + Reach <= Len(posts)
    BY <2>5, <2>6 DEF BeyondReach
  <2>. QED
    BY <2>2, <2>7 DEF BeyondReach
<1>4. CASE ~Post /\ ~ReplayAnswers /\ ~GapReplay
  <2>1. UNCHANGED <<posts, beyond>>
    <3>. USE DEF marks, live
    <3>1. CASE Tick \/ Start \/ Bind \/ RegisterDefaults \/ RegisterFails \/ ProducerRegisters
      BY <3>1 DEF Tick, Start, Bind, RegisterDefaults, RegisterFails, ProducerRegisters
    <3>2. CASE CatchUpMentions \/ Surface \/ MentionsDone \/ CatchUpChannels \/ Serve
      BY <3>2 DEF CatchUpMentions, Surface, MentionsDone, CatchUpChannels, Serve
    <3>3. CASE Dispatch
      BY <3>3 DEF Dispatch
    <3>4. CASE CatchUpFails
      BY <3>4 DEF CatchUpFails
    <3>5. CASE Crash
      BY <3>5 DEF Crash
    <3>6. CASE UNCHANGED vars
      BY <3>6 DEF vars
    <3>. QED
      BY <1>4, <3>1, <3>2, <3>3, <3>4, <3>5, <3>6 DEF Next, SeatStep
  <2>. QED
    BY <2>1 DEF BeyondReach
<1>. QED
  BY <1>1, <1>2, <1>3, <1>4

-----------------------------------------------------------------------------
(* The theorems *)

LEMMA InitDelivery == Init => DeliveryInv
<1>. SUFFICES ASSUME Init PROVE DeliveryInv
  OBVIOUS
<1>. USE DEF NoCursor
<1>0. Len(posts) = 0 /\ Len(inbox) = 0 /\ Len(delivered) = 0 /\ MaxPosts \in Nat
      /\ Capacity \in Nat \ {0} /\ MaxClock \in Nat \ {0}
  BY DeliveryAssumption DEF Init
<1>1. shown \in [Ids -> Nat] /\ skimmed \in [Ids -> Nat] /\ \A i \in Ids : shown[i] = 0
  BY DEF Init, NoBlocks
<1>2. \A S : posts \in Seq(S) /\ todo \in Seq(S) /\ inbox \in Seq(S) /\ delivered \in Seq(S)
  BY DEF Init
<1>3. TypeOK
  <2>1. /\ mode \in Modes /\ clock \in 0 .. MaxClock /\ cursor \in {-1} \cup 0 .. clock
        /\ since \in {-1} \cup 0 .. clock /\ since <= cursor /\ startedAt \in 0 .. clock
        /\ from \in -1 .. Len(posts) /\ emitted \in 0 .. Len(posts)
    BY <1>0 DEF Init
  <2>2. /\ boot \in {"down"} /\ pump \in {"off"} /\ Len(delivered) <= Capacity
        /\ heard \subseteq 1 .. Len(posts) /\ excused \subseteq 1 .. Len(posts)
        /\ beyond \subseteq excused /\ narrow \subseteq Intents
    BY <1>0 DEF Init
  <2>. QED
    BY <1>1, <1>2, <2>1, <2>2 DEF TypeOK
<1>4. InStep /\ StreamInTime
  BY <1>0 DEF Init, InStep, StreamInTime
<1>5. LogInTime
  BY <1>0, <1>1 DEF Init, LogInTime
<1>6. PumpShowsOnce /\ OnlyTheFirstOfATopic
  BY <1>0 DEF PumpShowsOnce, OnlyTheFirstOfATopic
<1>7. TopicsTicked /\ PendingIsOnItsWay /\ BeyondReach
  BY <1>0 DEF Init, TopicsTicked, PendingIsOnItsWay, BeyondReach
<1>. QED
  BY <1>3, <1>4, <1>5, <1>6, <1>7 DEF DeliveryInv

LEMMA StepDelivery == DeliveryInv /\ [Next]_vars => DeliveryInv'
<1>. SUFFICES ASSUME DeliveryInv, [Next]_vars PROVE DeliveryInv'
  OBVIOUS
<1>0. /\ TypeOK /\ InStep /\ StreamInTime /\ LogInTime /\ PumpShowsOnce
      /\ TopicsTicked /\ OnlyTheFirstOfATopic /\ PendingIsOnItsWay /\ BeyondReach
  BY DEF DeliveryInv
<1>1. TypeOK' /\ InStep' /\ StreamInTime'
  BY <1>0, TypeStep, InStepStep, StreamStep
<1>2. LogInTime' /\ PumpShowsOnce'
  BY <1>0, LogStep, PumpStep
<1>3. TopicsTicked' /\ OnlyTheFirstOfATopic'
  BY <1>0, TickedStep, FirstStep
<1>4. PendingIsOnItsWay' /\ BeyondReach'
  BY <1>0, PendingAtPost, PendingAtDispatch, PendingAtGap, PendingElsewhere, BeyondStep
<1>. QED
  BY <1>1, <1>2, <1>3, <1>4 DEF DeliveryInv

LEMMA DeliveryInvariant == Spec => []DeliveryInv
BY InitDelivery, StepDelivery, PTL DEF Spec

\* Every variable of a seat holds a value of its kind, through any sequence of
\* posts, boots, catch-ups, dispatches, dead queues and crashes.
THEOREM DeliveryTypeCorrect == Spec => []TypeOK
<1>1. DeliveryInv => TypeOK
  BY DEF DeliveryInv
<1>. QED
  BY <1>1, DeliveryInvariant, PTL

\* event-pump.ts: the pump sends a second block for a message only after a whole
\* log of blocks no older than it, however often a dead queue replays history.
THEOREM BlocksAreShownOnce == Spec => []PumpShowsOnce
<1>1. DeliveryInv => PumpShowsOnce
  BY DEF DeliveryInv
<1>. QED
  BY <1>1, DeliveryInvariant, PTL

\* narrow-set.ts and adapter.ts: what is shown for a new-topics subscription alone
\* is the first message of its topic that the queue of this life carried.
THEOREM TopicsSurfaceOnce == Spec => []OnlyTheFirstOfATopic
<1>1. DeliveryInv => OnlyTheFirstOfATopic
  BY DEF DeliveryInv
<1>. QED
  BY <1>1, DeliveryInvariant, PTL

\* mentions-catch-up.ts and cursor-store.ts: wherever the process dies, no mention
\* older than the cursor is left that neither was told nor given up, by a failure
\* that is logged or Reach messages behind the newest one a replay answered.
THEOREM CursorIsTruthful == Spec => []CursorTellsTruth
<1>1. DeliveryInv => CursorTellsTruth
  <2>. SUFFICES ASSUME DeliveryInv, NEW i \in 1 .. Len(posts), Passed(i)
                PROVE  i \in heard \cup excused
    BY DEF CursorTellsTruth, DeliveryInv, BeyondReach
  <2>0. /\ mode = "defaults" /\ posts[i].by = "other" /\ NotifiesMe(posts[i])
        /\ since < posts[i].ts /\ posts[i].ts < cursor
    BY DEF Passed
  <2>1. Pending(i) => cursor <= posts[i].ts
    BY <2>0 DEF DeliveryInv, PendingIsOnItsWay, OnItsWay, TsOf
  <2>2. posts[i].ts \in 0 .. clock /\ clock \in Nat /\ cursor \in {-1} \cup 0 .. clock
    BY PostsTyped DEF DeliveryInv, TypeOK, TsOf, NoCursor
  <2>3. ~(cursor <= posts[i].ts)
    BY <2>0, <2>2
  <2>. QED
    BY <2>0, <2>1, <2>3 DEF Pending, TsOf
<1>. QED
  BY <1>1, DeliveryInvariant, PTL
=============================================================================
