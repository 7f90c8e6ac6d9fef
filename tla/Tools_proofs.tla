----------------------------- MODULE Tools_proofs -----------------------------
(***************************************************************************)
(* Proofs about Memory and Tools, for any number of seats, members, calls  *)
(* at once, channels and threads.  Of the in-memory substrate: no event    *)
(* waits behind a stream, what is announced live as a mention is what a    *)
(* replay announces, and every variable keeps its type.  Of the tools, on  *)
(* any substrate: the type invariant, that a thread the seat took part in  *)
(* is heard, passes and is recorded, and that the orientation names each   *)
(* recent thread once, newest first.                                       *)
(***************************************************************************)
EXTENDS Tools, SequenceTheorems, FiniteSetTheorems, WellFoundedInduction, NaturalsInduction,
        TLAPS

-----------------------------------------------------------------------------
(* The in-memory substrate *)

\* NothingWaitsBehindAStream with what its steps need: every seat has a queue and
\* a slot of its own.
FeedsInOrder ==
  /\ waiting = [s \in Seats |-> waiting[s]]
  /\ slot = [s \in Seats |-> slot[s]]
  /\ NothingWaitsBehindAStream

-----------------------------------------------------------------------------
(* The feed *)

\* What is dispatched waits only where no stream has the hook.
LEMMA DispatchKeeps ==
  ASSUME FeedsInOrder, NEW events, Dispatch(events), UNCHANGED slot
  PROVE  FeedsInOrder'
  BY DEF FeedsInOrder, Dispatch, NothingWaitsBehindAStream

\* Neither does a step that leaves the feed alone put anything behind a stream.
LEMMA RestKeeps ==
  ASSUME FeedsInOrder, UNCHANGED <<waiting, slot>>
  PROVE  FeedsInOrder'
  BY DEF FeedsInOrder, NothingWaitsBehindAStream

LEMMA DeliverKeeps ==
  ASSUME FeedsInOrder, NEW sender, NEW ch, NEW mentions, NEW thread, NEW notice,
         Deliver(sender, ch, mentions, thread, notice), UNCHANGED slot
  PROVE  FeedsInOrder'
<1> DEFINE m == [id |-> Len(byId) + 1, ch |-> ch, thread |-> thread, sender |-> sender,
                 mentions |-> mentions, notice |-> notice]
<1>1. Dispatch([s \in Seats |-> OnPost(s, m)])
  BY DEF Deliver
<1> HIDE DEF m
<1> QED
  BY <1>1, DispatchKeeps

LEMMA IdentityKeeps == ASSUME FeedsInOrder, Identity PROVE FeedsInOrder'
<1>1. UNCHANGED <<waiting, slot>>
  BY DEF Identity, Acquire, Release, Seed, DeactivateAgent, feed
<1> QED
  BY <1>1, RestKeeps

LEMMA PublishesKeeps == ASSUME FeedsInOrder, Publishes PROVE FeedsInOrder'
<1>1. ASSUME NEW s, NEW ch, NEW t, NEW b, Post(s, ch, t, b) PROVE FeedsInOrder'
  BY <1>1, DeliverKeeps DEF Post
<1>2. ASSUME NEW i, NEW ch, NEW t, NEW b, PeerPost(i, ch, t, b) PROVE FeedsInOrder'
  BY <1>2, DeliverKeeps DEF PeerPost
<1>3. ASSUME NEW s, NEW id, NEW b, Edit(s, id, b) PROVE FeedsInOrder'
  BY <1>3, RestKeeps DEF Edit, feed
<1>4. ASSUME NEW s, NEW id, NEW e, React(s, id, e) PROVE FeedsInOrder'
  BY <1>4, DispatchKeeps DEF React
<1>5. ASSUME NEW s, NEW id, NEW e, Unreact(s, id, e) PROVE FeedsInOrder'
  BY <1>5, DispatchKeeps DEF Unreact
<1>6. ASSUME NEW s, NEW ch, NEW t, NEW wanted, SetThreadResolved(s, ch, t, wanted)
      PROVE  FeedsInOrder'
  <2>1. CASE (<<ch, t>> \in resolved) = wanted
    BY <1>6, <2>1, RestKeeps DEF SetThreadResolved
  <2>2. CASE (<<ch, t>> \in resolved) # wanted
    BY <1>6, <2>2, DeliverKeeps DEF SetThreadResolved
  <2> QED
    BY <2>1, <2>2
<1>7. ASSUME NEW s, NEW ch, NEW text, SetChannelDescription(s, ch, text) PROVE FeedsInOrder'
  BY <1>7, RestKeeps DEF SetChannelDescription, feed
<1> QED
  BY <1>1, <1>2, <1>3, <1>4, <1>5, <1>6, <1>7 DEF Publishes

LEMMA ListensKeeps == ASSUME FeedsInOrder, NEW s \in Seats, Listens(s) PROVE FeedsInOrder'
<1>1. ASSUME NEW key, Subscribe(s, key) \/ Unsubscribe(s, key) PROVE FeedsInOrder'
  BY <1>1, RestKeeps DEF Subscribe, Unsubscribe, feed
<1>2. CASE OpenStream(s)
  BY <1>2 DEF OpenStream, FeedsInOrder, NothingWaitsBehindAStream
<1>3. ASSUME NEW n, CloseStream(s, n) PROVE FeedsInOrder'
  BY <1>3 DEF CloseStream, FeedsInOrder, NothingWaitsBehindAStream
<1> QED
  BY <1>1, <1>2, <1>3 DEF Listens

\* No event waits while a stream has the hook, whatever order streams open and
\* close in and whoever posts meanwhile (memory/adapter.ts events, dispatch).
THEOREM FeedDrains == MemorySpec => []NothingWaitsBehindAStream
<1>1. MemoryInit => FeedsInOrder
  BY DEF MemoryInit, FirstState, FeedsInOrder, NothingWaitsBehindAStream
<1>2. FeedsInOrder /\ [MemoryNext]_memoryVars => FeedsInOrder'
  <2> SUFFICES ASSUME FeedsInOrder, [MemoryNext]_memoryVars PROVE FeedsInOrder'
    OBVIOUS
  <2>1. CASE UNCHANGED memoryVars
    BY <2>1, RestKeeps DEF memoryVars
  <2>2. CASE MemoryNext
    BY <2>2, IdentityKeeps, PublishesKeeps, ListensKeeps DEF MemoryNext
  <2> QED
    BY <2>1, <2>2
<1>3. FeedsInOrder => NothingWaitsBehindAStream
  BY DEF FeedsInOrder
<1> QED
  BY <1>1, <1>2, <1>3, PTL DEF MemorySpec

-----------------------------------------------------------------------------
(* Live and replayed mentions *)

\* Events of the two kinds are told apart, and of three shapes of a feed only
\* the one with a second event holds the mention.
LEMMA MentionIsTheSecond ==
  ASSUME NEW id, NEW P
  PROVE  Event("mention-received", id) \in
           Range(<<Event("message-posted", id)>>
                   \o (IF P THEN <<Event("mention-received", id)>> ELSE << >>)) <=> P
<1> DEFINE posted == Event("message-posted", id)
           mention == Event("mention-received", id)
<1>1. posted # mention
  BY DEF Event
<1> HIDE DEF posted, mention
<1>2. CASE P
  <2> DEFINE both == <<posted>> \o <<mention>>
  <2>1. /\ <<posted>> \in Seq({posted, mention}) /\ <<mention>> \in Seq({posted, mention})
        /\ Len(<<posted>>) = 1 /\ Len(<<mention>>) = 1
    OBVIOUS
  <2>2. both \in Seq({posted, mention}) /\ Len(both) = 2 /\ both[2] = mention
    BY <2>1, ConcatProperties
  <2> QED
    BY <1>2, <2>2 DEF Range, posted, mention
<1>3. CASE ~P
  <2>1. <<posted>> \o << >> = <<posted>>
    BY <<posted>> \in Seq({posted}), ConcatEmptySeq
  <2>2. mention \notin Range(<<posted>>)
    BY <1>1 DEF Range
  <2> QED
    BY <1>3, <2>1, <2>2 DEF posted, mention
<1> QED
  BY <1>2, <1>3

\* A seat that is bound and hears mentions: the delivery filter passes the
\* message, and as a mention, exactly when it notifies the identity.
LEMMA FilterAgrees ==
  ASSUME NEW s \in Seats, NEW m, bound[s] # Nobody, MentionsKey \in subs[s]
  PROVE  (FirstOfItsTopic(s, m) \/ MatchesStaticSub(s, m)) /\ MentionsIdentity(m.mentions, bound[s])
           <=> NotifiesIdentity(m.mentions, bound[s], HoldsChannel(s, m.ch))
<1>1. CASE HoldsChannel(s, m.ch)
  BY <1>1 DEF MatchesStaticSub, NotifiesIdentity
<1>2. CASE ~HoldsChannel(s, m.ch)
  <2>1. /\ NewTopicsKey(m.ch) \notin subs[s] /\ ChannelKey(m.ch) \notin subs[s]
        /\ ThreadKey(m.ch, m.thread) \notin subs[s]
    BY <1>2 DEF HoldsChannel, NewTopicsKey, ChannelKey, ThreadKey, SubKey
  <2> QED
    BY <1>2, <2>1 DEF FirstOfItsTopic, MatchesStaticSub, NotifiesIdentity, MentionsIdentity
<1> QED
  BY <1>1, <1>2

LEMMA LiveIsReplay ==
  ASSUME NEW s \in Seats, NEW m, bound[s] # Nobody, MentionsKey \in subs[s]
  PROVE  Event("mention-received", m.id) \in Range(OnPost(s, m))
           <=> Event("mention-received", m.id) \in Range(ReplayEvents(s, m))
<1> DEFINE mention == Event("mention-received", m.id)
           live == bound[s] # Nobody /\ MentionsIdentity(m.mentions, bound[s])
           passes == FirstOfItsTopic(s, m) \/ MatchesStaticSub(s, m)
           replayed == NotifiesIdentity(m.mentions, bound[s], HoldsChannel(s, m.ch))
<1>1. mention \in Range(ReplayEvents(s, m)) <=> replayed
  BY MentionIsTheSecond, Zenon DEF ReplayEvents
<1>2. mention \in Range(OnPost(s, m)) <=> passes /\ live
  <2>1. CASE passes
    BY <2>1, MentionIsTheSecond DEF OnPost
  <2>2. CASE ~passes
    <3>1. OnPost(s, m) = << >>
      BY <2>2 DEF OnPost
    <3> QED
      BY <2>2, <3>1 DEF Range
  <2> QED
    BY <2>1, <2>2
<1> QED
  BY <1>1, <1>2, FilterAgrees

\* A message posted while a seat is bound and hears mentions is announced live
\* as a mention exactly when a replay announces it (memory/adapter.ts, the
\* delivery filter against replay).
THEOREM LiveMatchesReplay == MemorySpec => ReplayMatchesLive
<1>1. ASSUME [MemoryNext]_memoryVars
      PROVE  [\A s \in Seats :
                Len(byId') > Len(byId) /\ bound[s] # Nobody /\ MentionsKey \in subs[s]
                  => LET m == byId'[Len(byId')]
                         mention == Event("mention-received", m.id)
                     IN mention \in Range(OnPost(s, m))
                          <=> mention \in Range(ReplayEvents(s, m))]_memoryVars
  BY LiveIsReplay
<1> QED
  BY <1>1, PTL DEF MemorySpec, ReplayMatchesLive

-----------------------------------------------------------------------------
(* Types *)

\* The types with what their proof needs: every seat has a slot and a set of
\* streams of its own.
MemoryTyped ==
  /\ MemoryTypeOK
  /\ slot = [s \in Seats |-> slot[s]] /\ open = [s \in Seats |-> open[s]]

\* The least member of a set of numbers, which is what FiniteSetsExt calls Min.
LEMMA MinIsMember ==
  ASSUME NEW S, S \subseteq Nat, S # {}
  PROVE  Min(S) \in S
<1> DEFINE Below == OpToRel(<, Nat)
<1>1. IsWellFoundedOn(Below, Nat)
  BY NatLessThanWellFounded
<1>2. \A x, y \in S : <<y, x>> \notin Below => x <= y
  BY DEF OpToRel
<1> HIDE DEF Below
<1>3. PICK x \in S : \A y \in S : <<y, x>> \notin Below
  BY <1>1, WFMin
<1> QED
  BY <1>2, <1>3 DEF Min

\* Members and messages are numbered without a gap.
LEMMA Numbering ==
  ASSUME PeopleType
  PROVE  /\ DOMAIN members = 1 .. Len(members) /\ Len(members) \in Nat
         /\ DOMAIN members \subseteq MemberIds /\ DOMAIN members \subseteq Nat
<1>1. DOMAIN members = 1 .. Len(members) /\ Len(members) \in Nat /\ Len(members) <= MaxMembers
  BY LenProperties DEF PeopleType
<1> QED
  BY <1>1, MemoryAssumption DEF MemoryAssumption, MemberIds

LEMMA MessageNumbering ==
  ASSUME MessagesType
  PROVE  /\ DOMAIN byId = 1 .. Len(byId) /\ Len(byId) \in Nat
         /\ DOMAIN byId \subseteq MessageIds
         /\ \A id \in DOMAIN byId : byId[id] \in StoredMessage
<1>1. DOMAIN byId = 1 .. Len(byId) /\ Len(byId) \in Nat /\ Len(byId) <= MaxMessages
      /\ byId \in [1 .. Len(byId) -> StoredMessage]
  BY LenProperties DEF MessagesType
<1> QED
  BY <1>1, MemoryAssumption DEF MemoryAssumption, MessageIds

\* A body mentions members, or everyone.
LEMMA MentionsTyped ==
  ASSUME PeopleType, NEW body
  PROVE  MentionsIn(body) \subseteq MemberIds \cup {Wildcard}
<1>1. ASSUME NEW n, Answers(n) # {} PROVE Min(Answers(n)) \in MemberIds
  <2>1. Answers(n) \subseteq DOMAIN members
    BY DEF Answers
  <2>2. Answers(n) \subseteq Nat /\ Answers(n) \subseteq MemberIds
    BY <2>1, Numbering
  <2> QED
    BY <1>1, <2>2, MinIsMember
<1> QED
  BY <1>1 DEF MentionsIn

\* What a seat is sent of a post or a reaction is a sequence of events.
Events == Seq([kind : EventKinds, id : MessageIds])

LEMMA SentTyped ==
  ASSUME NEW s, NEW m, m.id \in MessageIds
  PROVE  /\ OnPost(s, m) \in Events
         /\ \A kind \in {"reaction-added", "reaction-removed"} : OnReaction(s, kind, m) \in Events
<1> DEFINE E == [kind : EventKinds, id : MessageIds]
<1>1. \A kind \in EventKinds : Event(kind, m.id) \in E
  BY DEF Event
<1> HIDE DEF E
<1>2. \A e \in E : <<e>> \in Seq(E)
  OBVIOUS
<1>3. << >> \in Seq(E)
  OBVIOUS
<1>4. \A kind \in EventKinds : <<Event(kind, m.id)>> \in Seq(E)
  BY <1>1, <1>2
<1>5. OnPost(s, m) \in Seq(E)
  <2> DEFINE first == <<Event("message-posted", m.id)>>
             second == IF bound[s] # Nobody /\ MentionsIdentity(m.mentions, bound[s])
                         THEN <<Event("mention-received", m.id)>> ELSE << >>
  <2>1. first \in Seq(E) /\ second \in Seq(E)
    BY <1>3, <1>4 DEF EventKinds
  <2>2. OnPost(s, m) \in {<< >>, first \o second}
    BY DEF OnPost
  <2> HIDE DEF first, second
  <2>3. first \o second \in Seq(E)
    BY <2>1, ConcatProperties
  <2> QED
    BY <2>2, <2>3, <1>3
<1>6. \A kind \in {"reaction-added", "reaction-removed"} : OnReaction(s, kind, m) \in Seq(E)
  BY <1>3, <1>4 DEF OnReaction, EventKinds
<1> QED
  BY <1>5, <1>6 DEF Events, E

LEMMA DispatchTyped ==
  ASSUME waiting \in [Seats -> Events], NEW sent \in [Seats -> Events], Dispatch(sent)
  PROVE  waiting' \in [Seats -> Events]
<1>1. \A s \in Seats : waiting[s] \o sent[s] \in Events
  BY ConcatProperties DEF Events
<1> QED
  BY <1>1 DEF Dispatch

\* A delivered message keeps every type of the messages and the feed.
LEMMA DeliverTyped ==
  ASSUME MemoryTyped, NEW sender \in MemberIds \cup {NotificationBot}, NEW ch \in ChannelNames,
         NEW mentions \in SUBSET (MemberIds \cup {Wildcard}),
         NEW thread \in Threads \cup {NoThread}, NEW notice \in Notices \cup {"none"},
         Deliver(sender, ch, mentions, thread, notice),
         UNCHANGED <<reactions, subs, slot, open>>
  PROVE  /\ MessagesType' /\ FeedType'
         /\ Len(byId') = Len(byId) + 1
         /\ byId'[Len(byId')] = [id |-> Len(byId) + 1, ch |-> ch, thread |-> thread,
                                 sender |-> sender, mentions |-> mentions, notice |-> notice]
         /\ \A id \in DOMAIN byId : id \in DOMAIN byId' /\ byId'[id] = byId[id]
<1> DEFINE m == [id |-> Len(byId) + 1, ch |-> ch, thread |-> thread, sender |-> sender,
                 mentions |-> mentions, notice |-> notice]
<1> USE DEF MemoryTyped, MemoryTypeOK
<1>1. /\ Len(byId) < MaxMessages
      /\ byId' = Append(byId, m)
      /\ buckets' = [buckets EXCEPT ![ch] = Append(@, m)]
      /\ seen' = [s \in Seats |-> IF FirstOfItsTopic(s, m) THEN seen[s] \cup {<<ch, thread>>}
                                                           ELSE seen[s]]
      /\ Dispatch([s \in Seats |-> OnPost(s, m)])
  BY DEF Deliver
<1>2. DOMAIN byId = 1 .. Len(byId) /\ Len(byId) \in Nat
  BY MessageNumbering
<1>3. m \in StoredMessage /\ m.id \in MessageIds /\ m.ch = ch /\ m.thread = thread
  BY <1>1, <1>2, MemoryAssumption DEF MemoryAssumption, StoredMessage, MessageIds
<1> HIDE DEF m
<1>4. /\ byId' \in Seq(StoredMessage) /\ Len(byId') = Len(byId) + 1
      /\ byId'[Len(byId) + 1] = m
      /\ \A id \in 1 .. Len(byId) : byId'[id] = byId[id]
  BY <1>1, <1>3, AppendProperties DEF MessagesType
<1>5. DOMAIN byId' = 1 .. Len(byId) + 1
  BY <1>4, LenProperties
<1>6. DOMAIN byId \subseteq DOMAIN byId'
  BY <1>2, <1>5
<1>7. buckets' \in [ChannelNames -> Seq(StoredMessage)]
  <2>1. Append(buckets[ch], m) \in Seq(StoredMessage)
    BY <1>3, AppendProperties DEF MessagesType
  <2> QED
    BY <1>1, <2>1 DEF MessagesType
<1>8. MessagesType'
  <2>1. Len(byId') <= MaxMessages
    BY <1>1, <1>2, <1>4, MemoryAssumption DEF MemoryAssumption
  <2>2. reactions' \subseteq (DOMAIN byId') \X Emojis \X MemberIds
    BY <1>6 DEF MessagesType
  <2> QED
    BY <1>4, <1>7, <2>1, <2>2 DEF MessagesType
<1>9. FeedType'
  <2>1. seen' \in [Seats -> SUBSET (ChannelNames \X Threads)]
    <3>1. \A s \in Seats : FirstOfItsTopic(s, m) => thread \in Threads
      BY <1>3 DEF FirstOfItsTopic
    <3> QED
      BY <1>1, <3>1 DEF FeedType
  <2>2. waiting' \in [Seats -> Events]
    <3>1. [s \in Seats |-> OnPost(s, m)] \in [Seats -> Events]
      BY <1>3, SentTyped
    <3> QED
      BY <1>1, <3>1, DispatchTyped DEF FeedType, Events
  <2> QED
    BY <2>1, <2>2 DEF FeedType, Events
<1> QED
  BY <1>2, <1>4, <1>5, <1>6, <1>8, <1>9 DEF m

-----------------------------------------------------------------------------
(* Every operation keeps the types, and the messages in their channel and thread *)

StaysInPlace ==
  \A id \in DOMAIN byId :
    id \in DOMAIN byId' /\ byId'[id].ch = byId[id].ch /\ byId'[id].thread = byId[id].thread

LEMMA AcquireTyped ==
  ASSUME MemoryTyped, NEW s \in Seats, NEW name \in Acquirable, Acquire(s, name)
  PROVE  MemoryTyped' /\ byId' = byId
<1> USE DEF MemoryTyped, MemoryTypeOK
<1>1. UNCHANGED <<stored, resolved, described, seen, feed>>
  BY DEF Acquire
<1>2. /\ members' = Registered(name, "agent") /\ Len(members') <= MaxMembers
      /\ bound' = [bound EXCEPT ![s] = IdOf(name)]
      /\ subs' = [subs EXCEPT ![s] = @ \cup {MentionsKey}]
      /\ inactive' \subseteq inactive
  BY DEF Acquire
<1>3. [name |-> name, kind |-> "agent"] \in [name : Names, kind : Kinds]
  BY MemoryAssumption DEF MemoryAssumption, Kinds
<1>4. Len(members) \in Nat /\ DOMAIN members = 1 .. Len(members) /\ DOMAIN members \subseteq Nat
  BY Numbering
<1>5. /\ MessagesType' /\ ChannelsType' /\ FeedType' /\ byId' = byId
      /\ slot' = [t \in Seats |-> slot'[t]] /\ open' = [t \in Seats |-> open'[t]]
  <2>1. subs' \in [Seats -> SUBSET Keys]
    <3>1. MentionsKey \in Keys
      BY DEF Keys
    <3> QED
      BY <3>1, <1>2 DEF FeedType
  <2> QED
    BY <2>1, <1>1 DEF MessagesType, ChannelsType, FeedType, stored, feed
<1>6. CASE Named(name) = {}
  <2>1. members' = Append(members, [name |-> name, kind |-> "agent"])
        /\ IdOf(name) = Len(members) + 1
    BY <1>2, <1>6 DEF Registered, IdOf
  <2>2. members' \in Seq([name : Names, kind : Kinds]) /\ Len(members') = Len(members) + 1
    BY <2>1, <1>3, AppendProperties DEF PeopleType
  <2>3. DOMAIN members' = 1 .. Len(members) + 1
    BY <2>2, LenProperties
  <2>4. DOMAIN members \subseteq DOMAIN members' /\ IdOf(name) \in DOMAIN members'
    BY <2>1, <2>3, <1>4
  <2>5. PeopleType'
    BY <2>2, <2>4, <1>2 DEF PeopleType
  <2> QED
    BY <2>5, <1>5
<1>7. CASE Named(name) # {}
  <2>1. members' = members /\ IdOf(name) = Min(Named(name))
    BY <1>2, <1>7 DEF Registered, IdOf
  <2>2. Named(name) \subseteq DOMAIN members /\ Named(name) \subseteq Nat
    BY <1>4 DEF Named
  <2>3. IdOf(name) \in DOMAIN members
    BY <2>1, <2>2, <1>7, MinIsMember
  <2>4. PeopleType'
    BY <2>1, <2>3, <1>2 DEF PeopleType
  <2> QED
    BY <2>4, <1>5
<1> QED
  BY <1>6, <1>7

LEMMA SeedTyped ==
  ASSUME MemoryTyped, NEW name \in Names, NEW kind \in Kinds, Seed(name, kind)
  PROVE  MemoryTyped' /\ byId' = byId
<1> USE DEF MemoryTyped, MemoryTypeOK
<1>1. /\ UNCHANGED <<stored, resolved, described, seen, feed>> /\ UNCHANGED <<inactive, bound, subs>>
      /\ members' = Append(members, [name |-> name, kind |-> kind]) /\ Len(members) < MaxMembers
  BY DEF Seed, Registered
<1>2. Len(members) \in Nat /\ DOMAIN members = 1 .. Len(members)
  BY Numbering
<1>3. members' \in Seq([name : Names, kind : Kinds]) /\ Len(members') = Len(members) + 1
  BY <1>1, AppendProperties DEF PeopleType
<1>4. DOMAIN members' = 1 .. Len(members) + 1
  BY <1>3, LenProperties
<1>5. DOMAIN members \subseteq DOMAIN members' /\ Len(members') <= MaxMembers
  BY <1>1, <1>2, <1>3, <1>4, MemoryAssumption DEF MemoryAssumption
<1> QED
  BY <1>1, <1>3, <1>5
  DEF PeopleType, MessagesType, ChannelsType, FeedType, stored, feed

LEMMA LeavingTyped ==
  ASSUME MemoryTyped,
         \/ \E s \in Seats, persistent \in BOOLEAN : Release(s, persistent)
         \/ \E i \in DOMAIN members : DeactivateAgent(i)
  PROVE  MemoryTyped' /\ byId' = byId
<1> USE DEF MemoryTyped, MemoryTypeOK
<1>1. UNCHANGED <<members, stored, resolved, described, subs, seen, feed>>
  BY DEF Release, DeactivateAgent
<1>2. /\ bound' \in [Seats -> {Nobody} \cup DOMAIN members]
      /\ inactive' \subseteq DOMAIN members
  BY DEF Release, DeactivateAgent, PeopleType
<1> QED
  BY <1>1, <1>2 DEF PeopleType, MessagesType, ChannelsType, FeedType, stored, feed

LEMMA PostTyped ==
  ASSUME MemoryTyped, NEW s \in Seats, NEW ch \in ChannelNames,
         NEW t \in Threads \cup {NoThread}, NEW body, Post(s, ch, t, body)
  PROVE  /\ MemoryTyped' /\ StaysInPlace /\ subs' = subs
         /\ Len(byId') \in DOMAIN byId'
         /\ byId'[Len(byId')].ch = ch /\ byId'[Len(byId')].thread = KeptThread(t)
<1> USE DEF MemoryTyped, MemoryTypeOK
<1>1. /\ Deliver(bound[s], ch, MentionsIn(body), KeptThread(t), "none")
      /\ UNCHANGED <<people, reactions, resolved, described, bound, subs, slot, open>>
  BY DEF Post
<1>2. bound[s] \in MemberIds \cup {NotificationBot}
  BY Numbering DEF PeopleType, Nobody, NotificationBot
<1>3. KeptThread(t) \in Threads \cup {NoThread}
  BY MemoryAssumption DEF MemoryAssumption, KeptThread
<1>4. MentionsIn(body) \in SUBSET (MemberIds \cup {Wildcard})
  BY MentionsTyped
<1>5. /\ MessagesType' /\ FeedType' /\ Len(byId') = Len(byId) + 1
      /\ byId'[Len(byId')].ch = ch /\ byId'[Len(byId')].thread = KeptThread(t)
      /\ StaysInPlace
  <2> DEFINE m == [id |-> Len(byId) + 1, ch |-> ch, thread |-> KeptThread(t),
                   sender |-> bound[s], mentions |-> MentionsIn(body), notice |-> "none"]
  <2>1. /\ MessagesType' /\ FeedType' /\ Len(byId') = Len(byId) + 1
        /\ byId'[Len(byId')] = m
        /\ \A id \in DOMAIN byId : id \in DOMAIN byId' /\ byId'[id] = byId[id]
    <3>1. "none" \in Notices \cup {"none"}
      OBVIOUS
    <3> QED
      BY <3>1, <1>1, <1>2, <1>3, <1>4, DeliverTyped
  <2>2. m.ch = ch /\ m.thread = KeptThread(t)
    OBVIOUS
  <2> HIDE DEF m
  <2> QED
    BY <2>1, <2>2 DEF StaysInPlace
<1>6. Len(byId') \in DOMAIN byId'
  <2>1. byId' \in Seq(StoredMessage)
    BY <1>5 DEF MessagesType
  <2>2. DOMAIN byId' = 1 .. Len(byId')
    BY <2>1, LenProperties
  <2> QED
    BY <2>2, <1>5, MessageNumbering
<1> QED
  BY <1>1, <1>5, <1>6 DEF PeopleType, ChannelsType, people

LEMMA PeerPostTyped ==
  ASSUME MemoryTyped, NEW i \in DOMAIN members, NEW ch \in ChannelNames,
         NEW t \in Threads \cup {NoThread}, NEW body, PeerPost(i, ch, t, body)
  PROVE  MemoryTyped' /\ StaysInPlace /\ subs' = subs
<1> USE DEF MemoryTyped, MemoryTypeOK
<1>1. /\ Deliver(i, ch, MentionsIn(body), t, "none")
      /\ UNCHANGED <<people, reactions, resolved, described, bound, subs, slot, open>>
  BY DEF PeerPost
<1>2. i \in MemberIds \cup {NotificationBot}
  BY Numbering
<1>3. MentionsIn(body) \in SUBSET (MemberIds \cup {Wildcard})
  BY MentionsTyped
<1>4. MessagesType' /\ FeedType' /\ StaysInPlace
  BY <1>1, <1>2, <1>3, DeliverTyped DEF StaysInPlace
<1> QED
  BY <1>1, <1>4 DEF PeopleType, ChannelsType, people

LEMMA ResolveTyped ==
  ASSUME MemoryTyped, NEW s \in Seats, NEW ch \in ChannelNames, NEW t \in Threads,
         NEW wanted \in BOOLEAN, SetThreadResolved(s, ch, t, wanted)
  PROVE  MemoryTyped' /\ StaysInPlace /\ subs' = subs
<1> USE DEF MemoryTyped, MemoryTypeOK
<1>1. UNCHANGED <<people, reactions, described, bound, subs, slot, open>>
  BY DEF SetThreadResolved
<1>2. CASE (<<ch, t>> \in resolved) = wanted
  BY <1>1, <1>2 DEF SetThreadResolved, PeopleType, MessagesType, ChannelsType, FeedType,
     people, StaysInPlace
<1>3. CASE (<<ch, t>> \in resolved) # wanted
  <2>1. /\ resolved' \subseteq resolved \cup {<<ch, t>>}
        /\ Deliver(NotificationBot, ch, {}, t, IF wanted THEN "resolved" ELSE "unresolved")
    BY <1>3 DEF SetThreadResolved
  <2>2. (IF wanted THEN "resolved" ELSE "unresolved") \in Notices \cup {"none"}
    BY DEF Notices
  <2>3. MessagesType' /\ FeedType' /\ StaysInPlace
    BY <1>1, <2>1, <2>2, DeliverTyped DEF StaysInPlace
  <2> QED
    BY <1>1, <2>1, <2>3 DEF PeopleType, ChannelsType, people
<1> QED
  BY <1>2, <1>3

LEMMA EditTyped ==
  ASSUME MemoryTyped, NEW s \in Seats, NEW id \in DOMAIN byId, NEW body, Edit(s, id, body)
  PROVE  MemoryTyped' /\ StaysInPlace /\ subs' = subs
<1> USE DEF MemoryTyped, MemoryTypeOK
<1> DEFINE m == [byId[id] EXCEPT !.mentions = MentionsIn(body)]
<1>1. /\ byId' = [byId EXCEPT ![id] = m]
      /\ buckets' = [buckets EXCEPT ![byId[id].ch] =
                        [i \in DOMAIN @ |-> IF @[i] = byId[id] THEN byId'[id] ELSE @[i]]]
      /\ UNCHANGED <<people, reactions, resolved, described, bound, subs, seen, feed>>
  BY DEF Edit
<1>2. byId[id] \in StoredMessage /\ DOMAIN byId = 1 .. Len(byId)
  BY MessageNumbering
<1>3. m \in StoredMessage /\ m.ch = byId[id].ch /\ m.thread = byId[id].thread
  <2>1. MentionsIn(body) \in SUBSET (MemberIds \cup {Wildcard})
    BY MentionsTyped
  <2> QED
    BY <1>2, <2>1 DEF StoredMessage
<1> HIDE DEF m
<1>4. /\ byId' \in Seq(StoredMessage) /\ Len(byId') = Len(byId)
      /\ \A j \in 1 .. Len(byId) : byId'[j] = IF j = id THEN m ELSE byId[j]
  BY <1>1, <1>2, <1>3, ExceptSeq DEF MessagesType
<1>5. DOMAIN byId' = DOMAIN byId
  BY <1>1
<1>6. StaysInPlace
  BY <1>2, <1>3, <1>4, <1>5 DEF StaysInPlace
<1>7. buckets' \in [ChannelNames -> Seq(StoredMessage)]
  <2> DEFINE b == buckets[byId[id].ch]
             e == [i \in DOMAIN b |-> IF b[i] = byId[id] THEN byId'[id] ELSE b[i]]
  <2>1. b \in Seq(StoredMessage)
    BY <1>2 DEF MessagesType, StoredMessage
  <2>2. DOMAIN b = 1 .. Len(b) /\ Len(b) \in Nat /\ b \in [1 .. Len(b) -> StoredMessage]
    BY <2>1, LenProperties
  <2>3. byId'[id] \in StoredMessage
    BY <1>2, <1>3, <1>4
  <2>4. e \in [1 .. Len(b) -> StoredMessage]
    BY <2>2, <2>3
  <2>5. e \in Seq(StoredMessage)
    BY <2>2, <2>4, SeqDef
  <2> HIDE DEF e
  <2>6. buckets' = [buckets EXCEPT ![byId[id].ch] = e]
    BY <1>1 DEF e
  <2> QED
    BY <2>5, <2>6 DEF MessagesType
<1> QED
  BY <1>1, <1>4, <1>5, <1>6, <1>7
  DEF PeopleType, MessagesType, ChannelsType, FeedType, people, feed

LEMMA ReactTyped ==
  ASSUME MemoryTyped, NEW s \in Seats, NEW id \in DOMAIN byId, NEW emoji \in Emojis,
         React(s, id, emoji) \/ Unreact(s, id, emoji)
  PROVE  MemoryTyped' /\ byId' = byId /\ subs' = subs
<1> USE DEF MemoryTyped, MemoryTypeOK
<1>1. PICK kind \in {"reaction-added", "reaction-removed"} :
        Dispatch([t \in Seats |-> OnReaction(t, kind, byId[id])])
  BY DEF React, Unreact
<1>2. /\ UNCHANGED <<people, byId, buckets, resolved, described, bound, subs, seen, slot, open>>
      /\ bound[s] # Nobody
      /\ reactions' \subseteq reactions \cup {<<id, emoji, bound[s]>>}
  BY DEF React, Unreact
<1>3. bound[s] \in MemberIds
  BY <1>2, Numbering DEF PeopleType
<1>4. waiting' \in [Seats -> Events]
  <2>1. byId[id].id \in MessageIds
    BY MessageNumbering DEF StoredMessage
  <2>2. [t \in Seats |-> OnReaction(t, kind, byId[id])] \in [Seats -> Events]
    BY <2>1, SentTyped
  <2> QED
    BY <1>1, <2>2, DispatchTyped DEF FeedType, Events
<1>5. MessagesType'
  <2>1. reactions' \subseteq (DOMAIN byId) \X Emojis \X MemberIds
    BY <1>2, <1>3 DEF MessagesType
  <2> QED
    BY <1>2, <2>1 DEF MessagesType
<1> QED
  BY <1>2, <1>4, <1>5 DEF PeopleType, ChannelsType, FeedType, people, Events

LEMMA DescribeTyped ==
  ASSUME MemoryTyped, NEW s \in Seats, NEW ch \in ChannelNames, NEW text,
         SetChannelDescription(s, ch, text)
  PROVE  MemoryTyped' /\ byId' = byId /\ subs' = subs
<1> USE DEF MemoryTyped, MemoryTypeOK
<1>1. /\ described' = [described EXCEPT ![ch] = text] /\ text \in Storable \cup {NoText}
      /\ UNCHANGED <<people, stored, resolved, bound, subs, seen, feed>>
  BY DEF SetChannelDescription
<1>2. described' \in [ChannelNames -> Storable \cup {NoText}]
  BY <1>1 DEF ChannelsType
<1> QED
  BY <1>1, <1>2
  DEF PeopleType, MessagesType, ChannelsType, FeedType, people, stored, feed

LEMMA HearingTyped ==
  ASSUME MemoryTyped, NEW s \in Seats, NEW key \in Keys, Subscribe(s, key) \/ Unsubscribe(s, key)
  PROVE  MemoryTyped' /\ byId' = byId
<1> USE DEF MemoryTyped, MemoryTypeOK
<1>1. /\ subs' \in [Seats -> SUBSET Keys]
      /\ UNCHANGED <<people, stored, resolved, described, bound, seen, feed>>
  BY DEF Subscribe, Unsubscribe, Without, FeedType
<1> QED
  BY <1>1
  DEF PeopleType, MessagesType, ChannelsType, FeedType, people, stored, feed

LEMMA StreamsTyped ==
  ASSUME MemoryTyped, NEW s \in Seats, OpenStream(s) \/ \E n \in open[s] : CloseStream(s, n)
  PROVE  MemoryTyped' /\ byId' = byId
<1> USE DEF MemoryTyped, MemoryTypeOK
<1>1. UNCHANGED <<people, stored, resolved, described, bound, subs, seen>>
  BY DEF OpenStream, CloseStream
<1>2. PeopleType' /\ MessagesType' /\ ChannelsType'
  BY <1>1 DEF PeopleType, MessagesType, ChannelsType, people, stored
<1>3. CASE OpenStream(s)
  <2> DEFINE n == Max(open[s] \cup {slot[s]}) + 1
  <2>1. /\ waiting' = [waiting EXCEPT ![s] = << >>]
        /\ open' = [open EXCEPT ![s] = @ \cup {n}] /\ slot' = [slot EXCEPT ![s] = n]
    BY <1>3 DEF OpenStream
  <2> HIDE DEF n
  <2>2. waiting' \in [Seats -> Seq([kind : EventKinds, id : MessageIds])]
    <3>1. << >> \in Seq([kind : EventKinds, id : MessageIds])
      OBVIOUS
    <3> QED
      BY <2>1, <3>1 DEF FeedType
  <2>3. \A t \in Seats : slot'[t] \in open'[t] \cup {NoStream}
    BY <2>1 DEF FeedType
  <2>4. slot' = [t \in Seats |-> slot'[t]] /\ open' = [t \in Seats |-> open'[t]]
    BY <2>1
  <2> QED
    BY <1>1, <1>2, <2>2, <2>3, <2>4 DEF FeedType, stored
<1>4. CASE \E n \in open[s] : CloseStream(s, n)
  <2>1. PICK n \in open[s] :
          /\ open' = [open EXCEPT ![s] = @ \ {n}]
          /\ slot' = IF slot[s] = n THEN [slot EXCEPT ![s] = NoStream] ELSE slot
          /\ waiting' = waiting
    BY <1>4 DEF CloseStream
  <2>2. \A t \in Seats : slot'[t] \in open'[t] \cup {NoStream}
    BY <2>1 DEF FeedType
  <2>3. slot' = [t \in Seats |-> slot'[t]] /\ open' = [t \in Seats |-> open'[t]]
    BY <2>1
  <2> QED
    BY <1>1, <1>2, <2>1, <2>2, <2>3 DEF FeedType, stored
<1> QED
  BY <1>3, <1>4

LEMMA FirstTyped == ASSUME NEW n \in {NoStream, 1}, FirstState(n) PROVE MemoryTyped
<1> USE DEF FirstState
<1>1. PeopleType
  BY MemoryAssumption DEF MemoryAssumption, PeopleType
<1>2. MessagesType
  BY MemoryAssumption DEF MemoryAssumption, MessagesType
<1>3. ChannelsType /\ FeedType
  BY DEF ChannelsType, FeedType
<1> QED
  BY <1>1, <1>2, <1>3 DEF MemoryTyped, MemoryTypeOK

\* Whatever the seats and their peers do, members, messages, subscriptions and
\* feeds keep their types: no id points past the messages or the members, nobody is
\* bound to a member that does not exist (memory/adapter.ts).
THEOREM MemoryTypeCorrect == MemorySpec => []MemoryTypeOK
<1>1. MemoryInit => MemoryTyped
  BY FirstTyped DEF MemoryInit
<1>2. MemoryTyped /\ [MemoryNext]_memoryVars => MemoryTyped'
  <2> SUFFICES ASSUME MemoryTyped, [MemoryNext]_memoryVars PROVE MemoryTyped'
    OBVIOUS
  <2>1. CASE Identity
    BY <2>1, AcquireTyped, LeavingTyped, SeedTyped DEF Identity
  <2>2. CASE Publishes
    BY <2>2, PostTyped, PeerPostTyped, EditTyped, ReactTyped, ResolveTyped, DescribeTyped
    DEF Publishes
  <2>3. CASE \E s \in Seats : Listens(s)
    BY <2>3, HearingTyped, StreamsTyped, AskableAssumption DEF Listens, AskableAssumption
  <2>4. CASE UNCHANGED memoryVars
    BY <2>4 DEF memoryVars, MemoryTyped, MemoryTypeOK, PeopleType, MessagesType,
       ChannelsType, FeedType
  <2> QED
    BY <2>1, <2>2, <2>3, <2>4 DEF MemoryNext
<1>3. MemoryTyped => MemoryTypeOK
  BY DEF MemoryTyped
<1> QED
  BY <1>1, <1>2, <1>3, PTL DEF MemorySpec

-----------------------------------------------------------------------------
(* The tools: what a call relies on *)

\* A reference that is cached names the place the message lives in, or leaves
\* its thread open.
CachedInPlace ==
  \A id \in DOMAIN cache :
    cache[id].ch = byId[id].ch /\ cache[id].thread \in {NoThread, byId[id].thread}

KeyOf(id) == ThreadKey(byId[id].ch, byId[id].thread)

\* A call on its way to hear a message's thread knows that thread; once it has
\* added the narrow it is held, and once it has subscribed it is heard, until an
\* unsubscribe or a refusal makes the call forget the message.
CallsInPlace ==
  \A c \in Calls :
    /\ call[c].at = "idle" => call[c] = Idle
    /\ call[c].id # 0 =>
         /\ call[c].id \in DOMAIN byId
         /\ call[c].at \in {"engage", "subscribing"} => call[c].key = KeyOf(call[c].id)
         /\ call[c].at \in {"subscribing", "persist"} => KeyOf(call[c].id) \in narrow
         /\ call[c].at = "persist" => KeyOf(call[c].id) \in subs[Self]

EngagedHeld == \A id \in engaged : KeyOf(id) \in subs[Self] /\ KeyOf(id) \in narrow

\* What was recorded is in the record, or in a channel held whole that the record
\* does not name.
Recorded(ch, key) == key \in record \/ (ChannelKey(ch) \in narrow /\ \A k \in record : k.ch # ch)
SavedIsRecorded == saved \subseteq engaged /\ \A id \in saved : Recorded(byId[id].ch, KeyOf(id))

\* What EngagedIsHeard rests on.
Engaging ==
  MemoryTyped /\ TypeOK /\ CachedInPlace /\ CallsInPlace /\ EngagedHeld /\ SavedIsRecorded

CallRecord == [at : Stages, id : {0} \cup MessageIds, key : Keys, held : BOOLEAN]
RefRecord == [ch : ChannelNames, thread : Threads \cup {NoThread}, link : Links]

-----------------------------------------------------------------------------
(* Lemmas about the operators *)

LEMMA KeysTyped ==
  /\ MentionsKey \in Keys
  /\ \A ch \in ChannelNames, t \in Threads : ThreadKey(ch, t) \in Keys
  /\ \A ch, t : ThreadKey(ch, t).kind = "thread"
  BY DEF Keys, ThreadKey, SubKey

\* What a removal does not cover it spares.
LEMMA WithoutSpares ==
  ASSUME NEW keys, NEW key, NEW k \in keys, Without({k}, key) # {}
  PROVE  k \in Without(keys, key)
  BY DEF Without

LEMMA RememberTyped ==
  ASSUME DOMAIN cache \subseteq DOMAIN byId, Range(cache) \subseteq RefRecord, CachedInPlace,
         StaysInPlace, NEW id \in DOMAIN byId', NEW ref \in RefRecord, Remember(id, ref),
         ref.ch = byId'[id].ch, ref.thread \in {NoThread, byId'[id].thread}
  PROVE  /\ DOMAIN cache' \subseteq DOMAIN byId' /\ Range(cache') \subseteq RefRecord
         /\ CachedInPlace'
<1>1. cache' = [i \in {id} \cup DOMAIN cache |-> IF i = id THEN ref ELSE cache[i]]
  BY DEF Remember
<1>2. DOMAIN cache' = {id} \cup DOMAIN cache
  BY <1>1
<1>3. \A i \in DOMAIN cache : i \in DOMAIN byId'
         /\ byId'[i].ch = byId[i].ch /\ byId'[i].thread = byId[i].thread
  BY DEF StaysInPlace
<1>4. CachedInPlace'
  BY <1>1, <1>2, <1>3 DEF CachedInPlace
<1>5. Range(cache') \subseteq RefRecord
  BY <1>1, <1>2 DEF Range
<1> QED
  BY <1>2, <1>3, <1>4, <1>5

\* The reference of a message, cached or rebuilt, names the message's channel.
LEMMA ReferenceTyped ==
  ASSUME Engaging, NEW id \in DOMAIN byId, NEW chArg \in ChannelArgs(id), CanReconstruct(id, chArg)
  PROVE  /\ ReconstructMessageRef(id, chArg) \in RefRecord
         /\ ReconstructMessageRef(id, chArg).ch = byId[id].ch
         /\ ReconstructMessageRef(id, chArg).thread \in {NoThread, byId[id].thread}
<1>1. CASE id \in DOMAIN cache
  <2>1. ReconstructMessageRef(id, chArg) = cache[id]
    BY <1>1 DEF ReconstructMessageRef
  <2>2. cache[id] \in RefRecord
    BY <1>1 DEF Engaging, TypeOK, Range, RefRecord
  <2> QED
    BY <2>1, <2>2, <1>1 DEF Engaging, CachedInPlace
<1>2. CASE id \notin DOMAIN cache
  <2>1. ReconstructMessageRef(id, chArg) = Ref(byId[id].ch, NoThread, "placeholder")
    BY <1>2 DEF ReconstructMessageRef, CanReconstruct, ChannelArgs
  <2>2. byId[id].ch \in ChannelNames
    BY MessageNumbering DEF Engaging, MemoryTyped, MemoryTypeOK, StoredMessage
  <2> QED
    BY <2>1, <2>2 DEF Ref, RefRecord, Links
<1> QED
  BY <1>1, <1>2

\* Going on to a thread takes the message's own place along.
LEMMA GoesOnTyped ==
  ASSUME call \in [Calls -> CallRecord], CallsInPlace, StaysInPlace,
         subs' = subs, narrow' = narrow, MessagesType',
         NEW c \in Calls, NEW id \in DOMAIN byId', id # 0,
         NEW t, t \in {NoThread, byId'[id].thread}, GoesOn(c, id, byId'[id].ch, t)
  PROVE  call' \in [Calls -> CallRecord] /\ CallsInPlace'
<1> DEFINE next == IF t = NoThread THEN Idle
                   ELSE [Idle EXCEPT !.at = "engage", !.id = id,
                                     !.key = ThreadKey(byId'[id].ch, t)]
<1>1. call' = [call EXCEPT ![c] = next]
  BY DEF GoesOn
<1>2. id \in MessageIds /\ byId'[id] \in StoredMessage
  <2>1. /\ byId' \in Seq(StoredMessage) /\ Len(byId') <= MaxMessages
    BY DEF MessagesType
  <2>2. byId' \in [1 .. Len(byId') -> StoredMessage] /\ DOMAIN byId' = 1 .. Len(byId')
        /\ Len(byId') \in Nat
    BY <2>1, LenProperties
  <2> QED
    BY <2>1, <2>2, MemoryAssumption DEF MemoryAssumption, MessageIds
<1>3. /\ next \in CallRecord
      /\ next.at = "idle" => next = Idle
      /\ next.at \notin {"subscribing", "persist"}
      /\ next.id # 0 => next.id = id /\ next.key = ThreadKey(byId'[id].ch, byId'[id].thread)
  <2>1. CASE t = NoThread
    BY <2>1, KeysTyped DEF Idle, CallRecord, Stages
  <2>2. CASE t # NoThread
    <3>1. t = byId'[id].thread /\ t \in Threads /\ byId'[id].ch \in ChannelNames
      BY <2>2, <1>2 DEF StoredMessage
    <3>2. ThreadKey(byId'[id].ch, t) \in Keys
      BY <3>1, KeysTyped
    <3>3. next = [at |-> "engage", id |-> id, key |-> ThreadKey(byId'[id].ch, t),
                 held |-> FALSE]
      BY <2>2 DEF Idle
    <3> HIDE DEF next
    <3> QED
      BY <3>1, <3>2, <3>3, <1>2 DEF CallRecord, Stages
  <2> QED
    BY <2>1, <2>2
<1> HIDE DEF next
<1>4. call' \in [Calls -> CallRecord] /\ call'[c] = next /\ \A d \in Calls \ {c} : call'[d] = call[d]
  BY <1>1, <1>3
<1>5. \A i \in DOMAIN byId : i \in DOMAIN byId' /\ KeyOf(i)' = KeyOf(i)
  BY DEF StaysInPlace, KeyOf
<1>6. next.id # 0 => next.id = id /\ next.key = KeyOf(id)'
  BY <1>3 DEF KeyOf
<1> QED
  BY <1>3, <1>4, <1>5, <1>6 DEF CallsInPlace

\* Messages stay in their place, and what was heard still is.
LEMMA EngagedKept ==
  ASSUME EngagedHeld, SavedIsRecorded, engaged \subseteq DOMAIN byId, StaysInPlace,
         subs[Self] \subseteq subs'[Self], UNCHANGED <<narrow, record, engaged, saved>>
  PROVE  EngagedHeld' /\ SavedIsRecorded' /\ engaged' \subseteq DOMAIN byId'
<1>1. \A id \in engaged : /\ id \in DOMAIN byId' /\ KeyOf(id)' = KeyOf(id)
                          /\ byId'[id].ch = byId[id].ch
  BY DEF StaysInPlace, KeyOf
<1>2. EngagedHeld'
  BY <1>1 DEF EngagedHeld
<1>3. SavedIsRecorded'
  BY <1>1 DEF SavedIsRecorded, Recorded
<1> QED
  BY <1>1, <1>2, <1>3

LEMMA CallsKept ==
  ASSUME CallsInPlace, StaysInPlace, subs[Self] \subseteq subs'[Self], UNCHANGED <<narrow, call>>
  PROVE  CallsInPlace'
<1>1. \A c \in Calls : call[c].id # 0 =>
        call[c].id \in DOMAIN byId' /\ KeyOf(call[c].id)' = KeyOf(call[c].id)
  BY DEF CallsInPlace, StaysInPlace, KeyOf
<1> QED
  BY <1>1 DEF CallsInPlace

LEMMA CacheKept ==
  ASSUME CachedInPlace, DOMAIN cache \subseteq DOMAIN byId, StaysInPlace, UNCHANGED cache
  PROVE  CachedInPlace' /\ DOMAIN cache' \subseteq DOMAIN byId'
  BY DEF CachedInPlace, StaysInPlace

LEMMA SameMessages == ASSUME byId' = byId PROVE StaysInPlace
  BY DEF StaysInPlace

-----------------------------------------------------------------------------
(* The tools *)

\* A step of the substrate none of the tools' own variables takes part in.
LEMMA SubstrateEngaging ==
  ASSUME Engaging, MemoryTyped', StaysInPlace, subs[Self] \subseteq subs'[Self], UNCHANGED toolVars
  PROVE  Engaging'
<1> USE DEF toolVars, Engaging, TypeOK
<1>1. CachedInPlace' /\ DOMAIN cache' \subseteq DOMAIN byId' /\ CallsInPlace'
  BY CacheKept, CallsKept
<1>2. EngagedHeld' /\ SavedIsRecorded' /\ engaged' \subseteq DOMAIN byId'
  BY EngagedKept
<1>3. Range(cache') \subseteq [ch : ChannelNames, thread : Threads \cup {NoThread}, link : Links]
  BY DEF Range
<1> QED
  BY <1>1, <1>2, <1>3 DEF MemoryTyped

LEMMA PostEngaging ==
  ASSUME Engaging, NEW c \in Calls, NEW ch \in ChannelNames, NEW t \in Threads \cup {NoThread},
         NEW b, PostTool(c, ch, t, b)
  PROVE  Engaging'
<1> USE DEF Engaging, TypeOK
<1> DEFINE id == Len(byId')
<1>1. /\ Post(Self, ch, t, b) /\ Remember(id, Ref(ch, KeptThread(t), "permalink"))
      /\ GoesOn(c, id, ch, KeptThread(t))
      /\ UNCHANGED <<narrow, record, known, engaged, saved>>
  BY DEF PostTool
<1>2. /\ MemoryTyped' /\ StaysInPlace /\ subs' = subs /\ id \in DOMAIN byId'
      /\ byId'[id].ch = ch /\ byId'[id].thread = KeptThread(t)
  BY <1>1, PostTyped, ToolsAssumption DEF ToolsAssumption
<1>3. id # 0
  <2>1. byId' \in Seq(StoredMessage)
    BY <1>2 DEF MemoryTyped, MemoryTypeOK, MessagesType
  <2>2. DOMAIN byId' = 1 .. id
    BY <2>1, LenProperties
  <2> QED
    BY <2>2, <1>2
<1>4. Ref(ch, KeptThread(t), "permalink") \in RefRecord
      /\ Ref(ch, KeptThread(t), "permalink").ch = ch
      /\ Ref(ch, KeptThread(t), "permalink").thread = KeptThread(t)
  BY MemoryAssumption DEF MemoryAssumption, KeptThread, Ref, RefRecord, Links
<1> HIDE DEF id
<1>5. /\ DOMAIN cache' \subseteq DOMAIN byId' /\ Range(cache') \subseteq RefRecord
      /\ CachedInPlace'
  BY <1>1, <1>2, <1>4, RememberTyped DEF RefRecord
<1>6. call' \in [Calls -> CallRecord] /\ CallsInPlace'
  <2>1. call \in [Calls -> CallRecord] /\ MessagesType'
    BY <1>2 DEF CallRecord, MemoryTyped, MemoryTypeOK
  <2>2. KeptThread(t) \in {NoThread, byId'[id].thread}
    BY <1>2
  <2> QED
    BY <2>1, <2>2, <1>1, <1>2, <1>3, GoesOnTyped
<1>7. EngagedHeld' /\ SavedIsRecorded' /\ engaged' \subseteq DOMAIN byId'
  BY <1>1, <1>2, EngagedKept
<1> QED
  BY <1>1, <1>2, <1>5, <1>6, <1>7 DEF MemoryTyped, RefRecord, CallRecord

LEMMA EditEngaging ==
  ASSUME Engaging, NEW c \in Calls, NEW id \in DOMAIN byId, NEW chArg \in ChannelArgs(id),
         NEW b, EditTool(c, id, chArg, b)
  PROVE  Engaging'
<1> USE DEF Engaging, TypeOK
<1>1. /\ CanReconstruct(id, chArg) /\ Edit(Self, id, b)
      /\ Remember(id, ReconstructMessageRef(id, chArg))
      /\ UNCHANGED <<narrow, record, known, call, engaged, saved>>
  BY DEF EditTool
<1>2. MemoryTyped' /\ StaysInPlace /\ subs' = subs
  BY <1>1, EditTyped, ToolsAssumption DEF ToolsAssumption
<1>3. /\ ReconstructMessageRef(id, chArg) \in RefRecord
      /\ ReconstructMessageRef(id, chArg).ch = byId[id].ch
      /\ ReconstructMessageRef(id, chArg).thread \in {NoThread, byId[id].thread}
  BY <1>1, ReferenceTyped
<1>4. /\ DOMAIN cache' \subseteq DOMAIN byId' /\ Range(cache') \subseteq RefRecord
      /\ CachedInPlace'
  <2>1. id \in DOMAIN byId' /\ byId'[id].ch = byId[id].ch /\ byId'[id].thread = byId[id].thread
    BY <1>2 DEF StaysInPlace
  <2> QED
    BY <2>1, <1>1, <1>2, <1>3, RememberTyped DEF RefRecord
<1>5. CallsInPlace'
  BY <1>1, <1>2, CallsKept
<1>6. EngagedHeld' /\ SavedIsRecorded' /\ engaged' \subseteq DOMAIN byId'
  BY <1>1, <1>2, EngagedKept
<1> QED
  BY <1>1, <1>2, <1>4, <1>5, <1>6 DEF MemoryTyped, RefRecord

LEMMA ReactEngaging ==
  ASSUME Engaging, NEW c \in Calls, NEW id \in DOMAIN byId, NEW chArg \in ChannelArgs(id),
         NEW threadArg \in ThreadArgs(id), NEW e \in Emojis, ReactTool(c, id, chArg, threadArg, e)
  PROVE  Engaging'
<1> USE DEF Engaging, TypeOK
<1> DEFINE ref == ReconstructMessageRef(id, chArg)
           t == IF ref.thread # NoThread THEN ref.thread ELSE threadArg
<1>1. /\ CanReconstruct(id, chArg) /\ React(Self, id, e) /\ Remember(id, ref)
      /\ GoesOn(c, id, ref.ch, t)
      /\ UNCHANGED <<narrow, record, known, engaged, saved>>
  BY DEF ReactTool
<1>2. MemoryTyped' /\ byId' = byId /\ subs' = subs /\ StaysInPlace
  BY <1>1, ReactTyped, SameMessages, ToolsAssumption DEF ToolsAssumption
<1>3. ref \in RefRecord /\ ref.ch = byId[id].ch /\ ref.thread \in {NoThread, byId[id].thread}
  BY <1>1, ReferenceTyped
<1>4. t \in {NoThread, byId[id].thread}
  BY <1>3 DEF ThreadArgs
<1>5. id # 0
  BY MessageNumbering DEF MemoryTyped, MemoryTypeOK
<1> HIDE DEF ref, t
<1>6. /\ DOMAIN cache' \subseteq DOMAIN byId' /\ Range(cache') \subseteq RefRecord
      /\ CachedInPlace'
  BY <1>1, <1>2, <1>3, RememberTyped DEF RefRecord
<1>7. call' \in [Calls -> CallRecord] /\ CallsInPlace'
  <2>1. call \in [Calls -> CallRecord] /\ MessagesType'
    BY <1>2 DEF CallRecord, MemoryTyped, MemoryTypeOK
  <2> QED
    BY <2>1, <1>1, <1>2, <1>3, <1>4, <1>5, GoesOnTyped
<1>8. EngagedHeld' /\ SavedIsRecorded' /\ engaged' \subseteq DOMAIN byId'
  BY <1>1, <1>2, EngagedKept
<1> QED
  BY <1>1, <1>2, <1>6, <1>7, <1>8 DEF MemoryTyped, RefRecord, CallRecord

\* The narrow is added, and its call knows what it added.
LEMMA NarrowEngaging ==
  ASSUME Engaging, NEW c \in Calls, NEW key \in Keys, NEW id,
         id # 0 => call[c].at = "engage" /\ id = call[c].id /\ key = call[c].key,
         id = 0 \/ id = call[c].id,
         NarrowWhileSubscribing(c, id, key)
  PROVE  Engaging'
<1> USE DEF Engaging, TypeOK
<1> DEFINE next == [at |-> "subscribing", id |-> id, key |-> key, held |-> key \in narrow]
<1>1. /\ narrow' = narrow \cup {key} /\ call' = [call EXCEPT ![c] = next]
      /\ UNCHANGED <<memoryVars, cache, record, known, engaged, saved>>
  BY DEF NarrowWhileSubscribing
<1>2. /\ MemoryTyped' /\ byId' = byId /\ subs' = subs /\ CachedInPlace'
      /\ \A i : KeyOf(i)' = KeyOf(i)
  BY <1>1 DEF memoryVars, MemoryTyped, MemoryTypeOK, PeopleType, MessagesType, ChannelsType,
     FeedType, CachedInPlace, KeyOf
<1>3. next \in CallRecord
  <2>1. call[c].id \in {0} \cup MessageIds /\ (key \in narrow) \in BOOLEAN
    OBVIOUS
  <2> QED
    BY <2>1 DEF CallRecord, Stages
<1>4. id # 0 => id \in DOMAIN byId /\ key = KeyOf(id)
  BY DEF CallsInPlace
<1>5. next.at = "subscribing" /\ next.id = id /\ next.key = key
  OBVIOUS
<1> HIDE DEF next
<1>6. call' \in [Calls -> CallRecord] /\ call'[c] = next /\ \A d \in Calls \ {c} : call'[d] = call[d]
  BY <1>1, <1>3 DEF CallRecord
<1>7. CallsInPlace'
  BY <1>1, <1>2, <1>4, <1>5, <1>6 DEF CallsInPlace
<1>8. EngagedHeld' /\ SavedIsRecorded'
  BY <1>1, <1>2 DEF EngagedHeld, SavedIsRecorded, Recorded
<1>9. narrow' \subseteq Keys /\ record' \subseteq Keys /\ engaged' \subseteq DOMAIN byId'
  BY <1>1, <1>2
<1> QED
  BY <1>1, <1>2, <1>6, <1>7, <1>8, <1>9 DEF MemoryTyped, CallRecord

LEMMA SubscribedEngaging ==
  ASSUME Engaging, NEW c \in Calls, Subscribed(c) PROVE Engaging'
<1> USE DEF Engaging, TypeOK
<1> DEFINE next == [Idle EXCEPT !.at = "persist", !.id = call[c].id]
           key == call[c].key
<1>1. /\ call[c].at = "subscribing" /\ Subscribe(Self, key)
      /\ subs' = [subs EXCEPT ![Self] = @ \cup {key}]
      /\ call' = [call EXCEPT ![c] = next]
      /\ UNCHANGED <<cache, narrow, record, known, engaged, saved>>
  BY DEF Subscribed, Subscribe
<1>2. key \in Keys
  OBVIOUS
<1>3. MemoryTyped' /\ byId' = byId /\ StaysInPlace
  BY <1>1, <1>2, HearingTyped, SameMessages, ToolsAssumption DEF ToolsAssumption
<1>4. subs'[Self] = subs[Self] \cup {key}
  BY <1>1, ToolsAssumption DEF ToolsAssumption, MemoryTyped, MemoryTypeOK, FeedType
<1>5. next \in CallRecord /\ next.at = "persist" /\ next.id = call[c].id
  BY KeysTyped DEF Idle, CallRecord, Stages
<1>6. \A i : KeyOf(i)' = KeyOf(i)
  BY <1>3 DEF KeyOf
<1> HIDE DEF next, key
<1>7. call' \in [Calls -> CallRecord] /\ call'[c] = next /\ \A d \in Calls \ {c} : call'[d] = call[d]
  BY <1>1, <1>5 DEF CallRecord
<1>8. CallsInPlace'
  <2>1. call[c].id # 0 => call[c].id \in DOMAIN byId /\ key = KeyOf(call[c].id)
                          /\ KeyOf(call[c].id) \in narrow
    BY <1>1 DEF CallsInPlace, key
  <2> QED
    BY <2>1, <1>1, <1>3, <1>4, <1>5, <1>6, <1>7 DEF CallsInPlace
<1>9. EngagedHeld' /\ SavedIsRecorded' /\ engaged' \subseteq DOMAIN byId'
  BY <1>1, <1>3, <1>4, EngagedKept
<1>10. CachedInPlace'
  BY <1>1, <1>3 DEF CachedInPlace
<1> QED
  BY <1>1, <1>3, <1>7, <1>8, <1>9, <1>10 DEF MemoryTyped, CallRecord

\* Only the call itself changes, and forgets its message.
LEMMA CallEnds ==
  ASSUME Engaging, NEW c \in Calls, call' = [call EXCEPT ![c] = Idle],
         UNCHANGED <<memoryVars, cache, narrow, record, known, engaged, saved>>
  PROVE  Engaging'
<1> USE DEF Engaging, TypeOK
<1>1. MemoryTyped' /\ byId' = byId /\ subs' = subs /\ CachedInPlace'
      /\ \A i : KeyOf(i)' = KeyOf(i)
  BY DEF memoryVars, MemoryTyped, MemoryTypeOK, PeopleType, MessagesType, ChannelsType,
     FeedType, CachedInPlace, KeyOf
<1>2. EngagedHeld' /\ SavedIsRecorded' /\ engaged' \subseteq DOMAIN byId'
  BY <1>1 DEF EngagedHeld, SavedIsRecorded, Recorded
<1>3. Idle \in CallRecord /\ Idle.id = 0
  BY KeysTyped DEF Idle, CallRecord, Stages
<1>4. call' \in [Calls -> CallRecord] /\ call'[c] = Idle /\ \A d \in Calls \ {c} : call'[d] = call[d]
  BY <1>3 DEF CallRecord
<1>5. CallsInPlace'
  BY <1>1, <1>3, <1>4 DEF CallsInPlace
<1> QED
  BY <1>1, <1>2, <1>4, <1>5 DEF memoryVars, MemoryTyped, CallRecord

\* A key that is taken away covers the thread of a message, or spares it and its
\* channel held whole.
LEMMA CoverOrSpare ==
  ASSUME NEW keys, NEW key \in Keys, NEW id, ~Covers(key, id)
  PROVE  /\ KeyOf(id) \in keys => KeyOf(id) \in Without(keys, key)
         /\ ChannelKey(byId[id].ch) \in keys => ChannelKey(byId[id].ch) \in Without(keys, key)
<1> DEFINE ch == byId[id].ch
<1>1. Without({KeyOf(id)}, key) # {}
  BY DEF Covers, KeyOf
<1>2. KeyOf(id) \in keys => KeyOf(id) \in Without(keys, key)
  BY <1>1, WithoutSpares
<1>3. KeyOf(id).ch = ch /\ ChannelKey(ch).ch = ch /\ ChannelKey(ch).kind = "channel"
  BY DEF KeyOf, ThreadKey, ChannelKey, SubKey
<1>4. ChannelKey(ch) \in keys => ChannelKey(ch) \in Without(keys, key)
  <2>1. CASE key.kind = "channel"
    BY <2>1, <1>1, <1>3 DEF Without
  <2>2. CASE key.kind # "channel"
    BY <2>2, <1>3 DEF Without
  <2> QED
    BY <2>1, <2>2
<1> QED
  BY <1>2, <1>4

\* Of a message that still counts as engaged, and of a call that still has one,
\* nothing was taken away.
LEMMA ForgetEngaging ==
  ASSUME Engaging, NEW c \in Calls, NEW key \in Keys, NEW next \in CallRecord, NEW stages,
         next.id = 0, next.at # "idle" \/ next = Idle, "idle" \notin stages,
         Forget(c, next, key, stages),
         \/ /\ narrow' = Without(narrow, key) /\ UNCHANGED memoryVars
            /\ stages = {"subscribing", "persist"}
         \/ narrow' = narrow /\ Unsubscribe(Self, key) /\ stages = {"persist"},
         UNCHANGED <<cache, record, known>>
  PROVE  Engaging'
<1> USE DEF Engaging, TypeOK
<1> DEFINE forgets(d) == call[d].at \in stages /\ call[d].id # 0 /\ Covers(key, call[d].id)
<1>1. /\ engaged' = {id \in engaged : ~Covers(key, id)} /\ saved' = saved \cap engaged'
      /\ call' = [d \in Calls |-> IF d = c THEN next
                                 ELSE IF forgets(d) THEN [call[d] EXCEPT !.id = 0] ELSE call[d]]
  BY DEF Forget
<1>2. MemoryTyped' /\ byId' = byId
  <2>1. CASE UNCHANGED memoryVars
    BY <2>1 DEF memoryVars, MemoryTyped, MemoryTypeOK, PeopleType, MessagesType, ChannelsType,
       FeedType
  <2>2. CASE Unsubscribe(Self, key)
    BY <2>2, HearingTyped, ToolsAssumption DEF ToolsAssumption
  <2> QED
    BY <2>1, <2>2
<1>3. /\ narrow' \in {narrow, Without(narrow, key)}
      /\ subs'[Self] \in {subs[Self], Without(subs[Self], key)}
      /\ stages = {"persist"} => narrow' = narrow
      /\ stages # {"persist"} => subs' = subs
  <2>1. CASE UNCHANGED memoryVars /\ narrow' = Without(narrow, key) /\ stages = {"subscribing", "persist"}
    BY <2>1 DEF memoryVars
  <2>2. CASE Unsubscribe(Self, key) /\ narrow' = narrow /\ stages = {"persist"}
    <3>1. subs' = [subs EXCEPT ![Self] = Without(@, key)]
      BY <2>2 DEF Unsubscribe
    <3> QED
      BY <2>2, <3>1, ToolsAssumption DEF ToolsAssumption, MemoryTyped, MemoryTypeOK, FeedType
  <2> QED
    BY <2>1, <2>2
<1>4. ASSUME NEW id, ~Covers(key, id)
      PROVE  /\ KeyOf(id) \in narrow => KeyOf(id) \in narrow'
             /\ KeyOf(id) \in subs[Self] => KeyOf(id) \in subs'[Self]
             /\ ChannelKey(byId[id].ch) \in narrow => ChannelKey(byId[id].ch) \in narrow'
  BY <1>3, <1>4, CoverOrSpare
<1>5. \A id : KeyOf(id)' = KeyOf(id)
  BY <1>2 DEF KeyOf
<1>6. EngagedHeld'
  BY <1>1, <1>4, <1>5 DEF EngagedHeld
<1>7. SavedIsRecorded'
  <2>1. ASSUME NEW id \in saved' PROVE id \in saved /\ ~Covers(key, id) /\ id \in engaged'
    BY <1>1
  <2> QED
    BY <2>1, <1>2, <1>4, <1>5 DEF SavedIsRecorded, Recorded
<1>8. /\ call' \in [Calls -> CallRecord] /\ call'[c] = next
      /\ \A d \in Calls \ {c} :
           \/ call'[d].id = 0 /\ call'[d].at = call[d].at /\ call[d].at \in stages
           \/ call'[d] = call[d] /\ ~forgets(d)
  <2>1. call \in [Calls -> CallRecord]
    BY DEF CallRecord
  <2>2. \A d \in Calls : /\ [call[d] EXCEPT !.id = 0] \in CallRecord
                         /\ [call[d] EXCEPT !.id = 0].id = 0
                         /\ [call[d] EXCEPT !.id = 0].at = call[d].at
    BY <2>1 DEF CallRecord
  <2> QED
    BY <2>1, <2>2, <1>1
<1> HIDE DEF forgets
<1>9. CallsInPlace'
  <2>1. ASSUME NEW d \in Calls, call'[d].id # 0
        PROVE  d # c /\ call'[d] = call[d] /\ ~forgets(d)
    BY <2>1, <1>8
  <2>2. ASSUME NEW d \in Calls, call'[d].id # 0, call'[d].at \in {"subscribing", "persist"}
        PROVE  KeyOf(call'[d].id) \in narrow'
    BY <2>1, <2>2, <1>3, <1>4 DEF CallsInPlace, forgets
  <2>3. ASSUME NEW d \in Calls, call'[d].id # 0, call'[d].at = "persist"
        PROVE  KeyOf(call'[d].id) \in subs'[Self]
    BY <2>1, <2>3, <1>3, <1>4 DEF CallsInPlace, forgets
  <2>4. ASSUME NEW d \in Calls, call'[d].at = "idle" PROVE call'[d] = Idle
    BY <2>4, <1>8 DEF CallsInPlace
  <2>5. ASSUME NEW d \in Calls, call'[d].id # 0
        PROVE  /\ call'[d].id \in DOMAIN byId
               /\ call'[d].at \in {"engage", "subscribing"} => call'[d].key = KeyOf(call'[d].id)
    BY <2>1, <2>5 DEF CallsInPlace
  <2> QED
    BY <2>2, <2>3, <2>4, <2>5, <1>2, <1>5 DEF CallsInPlace
<1>10. CachedInPlace'
  BY <1>2 DEF CachedInPlace
<1>11. narrow' \subseteq Keys /\ record' \subseteq Keys /\ engaged' \subseteq DOMAIN byId'
  BY <1>1, <1>2, <1>3 DEF Without
<1> QED
  BY <1>2, <1>6, <1>7, <1>8, <1>9, <1>10, <1>11 DEF MemoryTyped, CallRecord

LEMMA RefusedEngaging ==
  ASSUME Engaging, NEW c \in Calls, SubscribeRefused(c) PROVE Engaging'
<1>1. CASE call[c].held
  BY <1>1, CallEnds DEF SubscribeRefused
<1>2. CASE ~call[c].held
  <2>1. Idle \in CallRecord /\ Idle.id = 0
    BY KeysTyped DEF Idle, CallRecord, Stages
  <2>2. call[c].key \in Keys
    BY DEF Engaging, TypeOK
  <2> QED
    BY <1>2, <2>1, <2>2, ForgetEngaging DEF SubscribeRefused
<1> QED
  BY <1>1, <1>2

LEMMA UnsubscribeEngaging ==
  ASSUME Engaging, NEW c \in Calls, NEW key \in Keys, UnsubscribeTool(c, key)
  PROVE  Engaging'
<1> DEFINE next == [Idle EXCEPT !.at = "leaving", !.key = key]
<1>1. next \in CallRecord /\ next.id = 0 /\ next.at # "idle"
  BY DEF Idle, CallRecord, Stages
<1> HIDE DEF next
<1> QED
  BY <1>1, ForgetEngaging DEF UnsubscribeTool, next

LEMMA UnsubscribedEngaging ==
  ASSUME Engaging, NEW c \in Calls, Unsubscribed(c) PROVE Engaging'
<1> DEFINE next == [Idle EXCEPT !.at = "persist"]
<1>1. next \in CallRecord /\ next.id = 0 /\ next.at # "idle"
  BY KeysTyped DEF Idle, CallRecord, Stages
<1>2. call[c].key \in Keys
  BY DEF Engaging, TypeOK
<1> HIDE DEF next
<1> QED
  BY <1>1, <1>2, ForgetEngaging DEF Unsubscribed, next

\* A record that is written holds every thread that is held, or its whole channel.
LEMMA PersistEngaging == ASSUME Engaging, NEW c \in Calls, Persist(c) PROVE Engaging'
<1> USE DEF Engaging, TypeOK
<1>1. /\ call[c].at = "persist"
      /\ record' = IF known THEN TopicLevelIntents(narrow) ELSE record
      /\ engaged' = engaged \cup ({call[c].id} \ {0})
      /\ saved' = IF known THEN engaged' ELSE saved
      /\ call' = [call EXCEPT ![c] = Idle]
      /\ UNCHANGED <<memoryVars, cache, narrow, known>>
  BY DEF Persist
<1>2. MemoryTyped' /\ CachedInPlace' /\ byId' = byId /\ subs' = subs
      /\ \A i : KeyOf(i)' = KeyOf(i)
  BY <1>1 DEF memoryVars, MemoryTyped, MemoryTypeOK, PeopleType, MessagesType, ChannelsType,
     FeedType, CachedInPlace, KeyOf
<1>3. \A id \in engaged' : id \in DOMAIN byId /\ KeyOf(id) \in subs[Self] /\ KeyOf(id) \in narrow
  BY <1>1 DEF EngagedHeld, CallsInPlace
<1>4. EngagedHeld' /\ engaged' \subseteq DOMAIN byId'
  BY <1>1, <1>2, <1>3 DEF EngagedHeld
<1>5. SavedIsRecorded'
  <2>1. CASE ~known
    BY <2>1, <1>1, <1>2 DEF SavedIsRecorded, Recorded
  <2>2. CASE known
    <3>1. record' = TopicLevelIntents(narrow) /\ saved' = engaged'
      BY <2>2, <1>1
    <3>2. ASSUME NEW id \in engaged' PROVE Recorded(byId[id].ch, KeyOf(id))'
      <4> DEFINE ch == byId[id].ch
      <4>1. KeyOf(id) \in narrow /\ KeyOf(id).kind = "thread" /\ KeyOf(id).ch = ch
        BY <1>3 DEF KeyOf, ThreadKey, SubKey
      <4>2. CASE ChannelKey(ch) \in narrow
        <5>1. \A k \in record' : k.ch # ch
          BY <3>1, <4>2 DEF TopicLevelIntents
        <5> QED
          BY <5>1, <4>2, <1>1, <1>2 DEF Recorded
      <4>3. CASE ChannelKey(ch) \notin narrow
        BY <3>1, <4>1, <4>3, <1>2 DEF TopicLevelIntents, Recorded
      <4> QED
        BY <4>2, <4>3
    <3> QED
      BY <3>1, <3>2, <1>2 DEF SavedIsRecorded
  <2> QED
    BY <2>1, <2>2
<1>6. Idle \in CallRecord /\ Idle.id = 0
  BY KeysTyped DEF Idle, CallRecord, Stages
<1>7. call' \in [Calls -> CallRecord] /\ call'[c] = Idle /\ \A d \in Calls \ {c} : call'[d] = call[d]
  BY <1>1, <1>6 DEF CallRecord
<1>8. CallsInPlace'
  BY <1>1, <1>2, <1>6, <1>7 DEF CallsInPlace
<1>9. record' \subseteq Keys
  BY <1>1 DEF TopicLevelIntents
<1> QED
  BY <1>1, <1>2, <1>4, <1>5, <1>7, <1>8, <1>9 DEF memoryVars, MemoryTyped, CallRecord

LEMMA FeedEngaging == ASSUME Engaging, FeedSession PROVE Engaging'
<1> USE DEF Engaging, TypeOK
<1>1. known' = TRUE /\ UNCHANGED <<memoryVars, cache, narrow, record, call, engaged, saved>>
  BY DEF FeedSession
<1>2. MemoryTyped' /\ CachedInPlace' /\ CallsInPlace' /\ EngagedHeld' /\ SavedIsRecorded'
  BY <1>1 DEF memoryVars, MemoryTyped, MemoryTypeOK, PeopleType, MessagesType, ChannelsType,
     FeedType, CachedInPlace, CallsInPlace, EngagedHeld, SavedIsRecorded, Recorded, KeyOf
<1> QED
  BY <1>1, <1>2 DEF memoryVars, MemoryTyped

-----------------------------------------------------------------------------
(* The theorems *)

LEMMA InitEngaging == Init => Engaging
<1> SUFFICES ASSUME Init PROVE Engaging
  OBVIOUS
<1> USE DEF Init
<1>1. MemoryTyped
  BY FirstTyped
<1>2. DOMAIN cache = {} /\ Range(cache) = {}
  BY DEF NoRefs, Range
<1>3. Idle \in CallRecord /\ Idle.id = 0
  BY KeysTyped DEF Idle, CallRecord, Stages
<1>4. call \in [Calls -> CallRecord] /\ \A c \in Calls : call[c] = Idle
  BY <1>3
<1> QED
  BY <1>1, <1>2, <1>3, <1>4
  DEF Engaging, TypeOK, CachedInPlace, CallsInPlace, EngagedHeld, SavedIsRecorded, MemoryTyped, CallRecord

LEMMA WritesEngaging == ASSUME Engaging, NEW c \in Calls, Writes(c) PROVE Engaging'
<1> USE ToolsAssumption DEF ToolsAssumption
<1>1. ASSUME NEW id \in DOMAIN byId, NEW ch \in ChannelArgs(id), NEW e \in Emojis,
             UnreactTool(c, id, ch, e)
      PROVE  Engaging'
  BY <1>1, ReactTyped, SameMessages, SubstrateEngaging DEF UnreactTool, Engaging
<1>2. ASSUME NEW ch \in ChannelNames, NEW t \in Threads, NEW wanted \in BOOLEAN,
             ResolveTool(c, ch, t, wanted)
      PROVE  Engaging'
  BY <1>2, ResolveTyped, SubstrateEngaging DEF ResolveTool, Engaging
<1>3. ASSUME NEW ch \in ChannelNames, NEW text, DescribeTool(c, ch, text) PROVE Engaging'
  BY <1>3, DescribeTyped, SameMessages, SubstrateEngaging DEF DescribeTool, Engaging
<1> QED
  BY <1>1, <1>2, <1>3, PostEngaging, EditEngaging, ReactEngaging DEF Writes

LEMMA HearsEngaging == ASSUME Engaging, NEW c \in Calls, Hears(c) PROVE Engaging'
<1>1. ASSUME NEW key \in Askable, SubscribeTool(c, key) PROVE Engaging'
  <2>1. key \in Keys
    BY AskableAssumption DEF AskableAssumption
  <2>2. PICK id : id = 0 /\ NarrowWhileSubscribing(c, id, key)
    BY <1>1 DEF SubscribeTool
  <2> QED
    BY <2>1, <2>2, NarrowEngaging
<1>2. ASSUME NEW key \in Askable, UnsubscribeTool(c, key) PROVE Engaging'
  BY <1>2, UnsubscribeEngaging, AskableAssumption DEF AskableAssumption
<1>3. CASE StickyThreadEngagement(c)
  <2>1. call[c].key \in Keys
    BY DEF Engaging, TypeOK
  <2> QED
    BY <2>1, <1>3, NarrowEngaging DEF StickyThreadEngagement
<1>4. CASE UnsubscribeRefused(c)
  BY <1>4, CallEnds DEF UnsubscribeRefused
<1> QED
  BY <1>1, <1>2, <1>3, <1>4, SubscribedEngaging, RefusedEngaging, UnsubscribedEngaging,
     PersistEngaging DEF Hears

LEMMA OthersEngaging ==
  ASSUME Engaging, SeatBinds \/ SeatLeaves \/ Peers PROVE Engaging'
<1> USE ToolsAssumption DEF ToolsAssumption, Engaging
<1>1. CASE SeatBinds
  <2>1. Acquire(Self, SelfName) /\ UNCHANGED toolVars
    BY <1>1 DEF SeatBinds
  <2>2. MemoryTyped' /\ byId' = byId
    BY <2>1, AcquireTyped
  <2>3. subs[Self] \subseteq subs'[Self]
    BY <2>1 DEF Acquire, MemoryTyped, MemoryTypeOK, FeedType
  <2> QED
    BY <2>1, <2>2, <2>3, SameMessages, SubstrateEngaging
<1>2. CASE SeatLeaves
  <2>1. (\E persistent \in BOOLEAN : Release(Self, persistent)) /\ UNCHANGED toolVars
    BY <1>2 DEF SeatLeaves
  <2>2. MemoryTyped' /\ byId' = byId /\ subs' = subs
    BY <2>1, LeavingTyped DEF Release
  <2> QED
    BY <2>1, <2>2, SameMessages, SubstrateEngaging
<1>3. CASE Peers
  <2>1. ASSUME NEW name \in Names, Seed(name, "human"), UNCHANGED toolVars PROVE Engaging'
    <3>1. MemoryTyped' /\ byId' = byId /\ subs' = subs
      BY <2>1, SeedTyped DEF Seed, Kinds
    <3> QED
      BY <2>1, <3>1, SameMessages, SubstrateEngaging
  <2>2. ASSUME NEW i \in DOMAIN members, NEW ch \in ChannelNames,
               NEW t \in Threads \cup {NoThread}, NEW b, PeerPost(i, ch, t, b),
               UNCHANGED toolVars
        PROVE  Engaging'
    BY <2>2, PeerPostTyped, SubstrateEngaging
  <2> QED
    BY <2>1, <2>2, <1>3 DEF Peers
<1> QED
  BY <1>1, <1>2, <1>3

LEMMA StepEngaging == ASSUME Engaging, [Next]_vars PROVE Engaging'
<1>1. CASE UNCHANGED vars
  <2>1. UNCHANGED toolVars /\ UNCHANGED memoryVars
    BY <1>1 DEF vars
  <2>2. MemoryTyped' /\ byId' = byId /\ subs' = subs
    BY <2>1 DEF Engaging, memoryVars, MemoryTyped, MemoryTypeOK, PeopleType, MessagesType,
       ChannelsType, FeedType
  <2> QED
    BY <2>1, <2>2, SameMessages, SubstrateEngaging
<1> QED
  BY <1>1, WritesEngaging, HearsEngaging, OthersEngaging, FeedEngaging DEF Next

LEMMA AlwaysEngaging == Spec => []Engaging
  BY InitEngaging, StepEngaging, PTL DEF Spec

\* Whatever calls overlap, the cache, the narrow set, the record and the calls
\* keep their types: nothing is cached, engaged with or recorded that the
\* substrate does not have (mcp/tools.ts).
THEOREM ToolsTypeCorrect == Spec => []TypeOK
<1>1. Engaging => TypeOK
  BY DEF Engaging
<1> QED
  BY <1>1, AlwaysEngaging, PTL

\* A thread the seat took part in is subscribed to, passes the narrow set and is
\* heard again after a start from the record, whatever other calls subscribed,
\* unsubscribed, were refused or persisted between the post and its record
\* (tools.ts stickyThreadEngagement, narrowWhileSubscribing; topicLevelIntents).
THEOREM EngagementIsHeard == Spec => []EngagedIsHeard
<1>1. ASSUME Engaging PROVE EngagedIsHeard
  <2>1. ASSUME NEW id \in engaged, id \in saved
        PROVE  CombineWithRealm(SubscriptionRows(Self), record)
                 \cap {KeyOf(id), ChannelKey(byId[id].ch)} # {}
    <3> DEFINE ch == byId[id].ch
    <3>1. KeyOf(id) \in subs[Self] /\ KeyOf(id).ch = ch /\ KeyOf(id).kind = "thread"
      BY <1>1 DEF Engaging, EngagedHeld, KeyOf, ThreadKey, SubKey
    <3>2. KeyOf(id) # MentionsKey
      BY <3>1 DEF MentionsKey, SubKey
    <3>3. ch \in SubscriptionRows(Self)
      BY <3>1, <3>2 DEF SubscriptionRows
    <3>4. CASE KeyOf(id) \in record
      BY <3>4 DEF CombineWithRealm
    <3>5. CASE \A k \in record : k.ch # ch
      BY <3>3, <3>5 DEF CombineWithRealm
    <3> QED
      BY <1>1, <2>1, <3>4, <3>5 DEF Engaging, SavedIsRecorded, Recorded
  <2> QED
    BY <1>1, <2>1 DEF Engaging, EngagedHeld, EngagedIsHeard, KeyOf
<1> QED
  BY <1>1, AlwaysEngaging, PTL

-----------------------------------------------------------------------------
(* Orientation: messages in order *)

LEMMA LeastExists ==
  ASSUME NEW S, S \subseteq Nat, S # {}
  PROVE  \E m \in S : \A j \in S : m <= j
<1>1. PICK m \in S : \A j \in S : <<j, m>> \notin OpToRel(<, Nat)
  BY NatLessThanWellFounded, WFMin
<1>2. \A j \in S : ~(j < m)
  BY <1>1 DEF OpToRel
<1> QED
  BY <1>2

\* Every set of messages whose numbers are bounded has a newest one.
LEMMA NewestExists ==
  ASSUME NEW S, NEW N \in Nat, \A m \in S : m.id \in 0 .. N, S # {}
  PROVE  \E m \in S : \A n \in S : n.id <= m.id
<1> DEFINE Ages == {N - m.id : m \in S}
<1>1. Ages \subseteq Nat /\ Ages # {}
  OBVIOUS
<1> HIDE DEF Ages
<1>2. PICK a \in Ages : \A b \in Ages : a <= b
  BY <1>1, LeastExists
<1>3. PICK m \in S : a = N - m.id
  BY <1>2 DEF Ages
<1>4. ASSUME NEW n \in S PROVE n.id <= m.id
  <2>1. N - n.id \in Ages
    BY DEF Ages
  <2>2. N - m.id <= N - n.id
    BY <2>1, <1>2, <1>3
  <2>3. m.id \in 0 .. N /\ n.id \in 0 .. N
    OBVIOUS
  <2> QED
    BY <2>2, <2>3
<1> QED
  BY <1>4

\* Messages with numbers of their own, bounded by N.
Numbered(S, N) ==
  /\ IsFiniteSet(S) /\ \A m \in S : m.id \in 0 .. N
  /\ \A m, n \in S : m.id = n.id => m = n

NewerThan(S, m) == {n \in S : n.id > m.id}

\* Of such messages the newest has no newer one, the next has one, and so on: no
\* rank is left out.
LEMMA NewestRankTaken ==
  ASSUME NEW S, NEW N \in Nat, Numbered(S, N)
  PROVE  \A k \in 1 .. Cardinality(S) : \E m \in S : Cardinality(NewerThan(S, m)) = k - 1
<1> DEFINE Taken(k) == \E m \in S : Cardinality(NewerThan(S, m)) = k - 1
           Free == {k \in 1 .. Cardinality(S) : ~Taken(k)}
<1> USE DEF Numbered
<1>1. Cardinality(S) \in Nat
  BY FS_CardinalityType
<1>2. SUFFICES ASSUME Free # {} PROVE FALSE
  OBVIOUS
<1>3. PICK k \in Free : \A n \in Free : k <= n
  <2>1. Free \subseteq Nat
    BY <1>1
  <2> HIDE DEF Free
  <2> QED
    BY <1>2, <2>1, LeastExists
<1>4. CASE k = 1
  <2>1. S # {}
    BY <1>1, <1>3, <1>4, FS_EmptySet
  <2>2. PICK m \in S : \A n \in S : n.id <= m.id
    BY <2>1, NewestExists
  <2>3. NewerThan(S, m) = {}
    <3>1. m.id \in Nat /\ \A n \in S : n.id \in Nat /\ ~(n.id > m.id)
      BY <2>2
    <3> QED
      BY <3>1 DEF NewerThan
  <2>4. Cardinality(NewerThan(S, m)) = k - 1
    <3>1. Cardinality(NewerThan(S, m)) = 0
      BY <2>3, FS_EmptySet
    <3> QED
      BY <1>4, <3>1
  <2> QED
    BY <1>3, <2>4
<1>5. CASE k # 1
  <2>1. k - 1 \in 1 .. Cardinality(S) /\ k - 1 \notin Free /\ k \in 1 .. Cardinality(S)
    BY <1>1, <1>3, <1>5
  <2>2. PICK i \in S : Cardinality(NewerThan(S, i)) = k - 2
    BY <1>1, <2>1
  <2> DEFINE Upto == NewerThan(S, i) \cup {i}
             Rest == S \ Upto
  <2>3. IsFiniteSet(NewerThan(S, i)) /\ i \notin NewerThan(S, i)
    BY FS_Subset DEF NewerThan
  <2>4. IsFiniteSet(Upto) /\ Cardinality(Upto) = k - 1
    BY <1>1, <2>1, <2>2, <2>3, FS_AddElement
  <2>5. Rest # {}
    <3>1. Upto \subseteq S
      BY DEF NewerThan
    <3>2. Cardinality(Upto) # Cardinality(S)
      BY <1>1, <2>1, <2>4
    <3> QED
      BY <3>1, <3>2
  <2>6. PICK m \in Rest : \A n \in Rest : n.id <= m.id
    <3>1. \A n \in Rest : n.id \in 0 .. N
      OBVIOUS
    <3> HIDE DEF Rest
    <3> QED
      BY <2>5, <3>1, NewestExists
  <2>7. NewerThan(S, m) = Upto
    <3>1. m \in S /\ m.id \in Nat /\ i.id \in Nat /\ \A n \in S : n.id \in Nat
      BY <2>6
    <3>2. m # i /\ ~(m.id > i.id)
      BY <2>6 DEF NewerThan
    <3>3. m.id < i.id
      BY <3>1, <3>2
    <3>4. ASSUME NEW n \in S PROVE n.id > m.id <=> n \in Upto
      <4>1. n \in Upto => n.id > m.id
        BY <3>1, <3>3 DEF NewerThan
      <4>2. n \notin Upto => n.id <= m.id
        BY <2>6
      <4> QED
        BY <3>1, <4>1, <4>2
    <3> QED
      BY <3>4 DEF NewerThan
  <2>8. Cardinality(NewerThan(S, m)) = k - 1 /\ m \in S
    BY <2>4, <2>6, <2>7
  <2> QED
    BY <1>3, <2>8
<1> QED
  BY <1>4, <1>5

\* A message that is older has more newer ones.
LEMMA OlderHasMore ==
  ASSUME NEW S, NEW N \in Nat, Numbered(S, N), NEW a \in S, NEW b \in S, a.id > b.id
  PROVE  Cardinality(NewerThan(S, a)) < Cardinality(NewerThan(S, b))
<1> DEFINE A == NewerThan(S, a)
           B == NewerThan(S, b)
<1>1. A \subseteq B /\ a \in B /\ a \notin A /\ B \subseteq S
  <2>1. a.id \in Nat /\ b.id \in Nat /\ \A n \in S : n.id \in Nat
    BY DEF Numbered
  <2>2. \A n \in S : n.id > a.id => n.id > b.id
    BY <2>1
  <2>3. ~(a.id > a.id)
    BY <2>1
  <2> QED
    BY <2>2, <2>3 DEF NewerThan
<1> HIDE DEF A, B
<1>2. IsFiniteSet(B)
  BY <1>1, FS_Subset DEF Numbered
<1>3. Cardinality(A) <= Cardinality(B) /\ Cardinality(A) # Cardinality(B) /\ IsFiniteSet(A)
  BY <1>1, <1>2, FS_Subset
<1>4. Cardinality(A) \in Nat /\ Cardinality(B) \in Nat
  BY <1>2, <1>3, FS_CardinalityType
<1>5. Cardinality(A) < Cardinality(B)
  BY ONLY <1>3, <1>4
<1> QED
  BY <1>5 DEF A, B

\* NewestFirst lists such messages once each, from the newest on.
LEMMA NewestFirstListed ==
  ASSUME NEW S, NEW N \in Nat, Numbered(S, N)
  PROVE  /\ NewestFirst(S) \in Seq(S)
         /\ \A j, k \in DOMAIN NewestFirst(S) :
              j < k => NewestFirst(S)[j].id > NewestFirst(S)[k].id
         /\ \A m \in S : \E k \in DOMAIN NewestFirst(S) : NewestFirst(S)[k] = m
<1> DEFINE L == NewestFirst(S)
           size == Cardinality(S)
           Rank(m) == Cardinality(NewerThan(S, m))
<1>1. size \in Nat
  BY FS_CardinalityType DEF Numbered
<1>2. L \in [1 .. size -> S] /\ \A k \in 1 .. size : Rank(L[k]) = k - 1
  <2>1. \A k \in 1 .. size : \E m \in S : Rank(m) = k - 1
    BY NewestRankTaken
  <2> QED
    BY <2>1 DEF NewestFirst, NewerThan
<1>3. L \in Seq(S) /\ DOMAIN L = 1 .. size
  BY <1>1, <1>2, SeqDef
<1>4. ASSUME NEW a \in S, NEW b \in S
      PROVE  /\ a.id \in Nat /\ b.id \in Nat /\ Rank(a) \in Nat /\ Rank(b) \in Nat
             /\ a.id > b.id => Rank(a) < Rank(b)
             /\ b.id > a.id => Rank(b) < Rank(a)
             /\ a.id = b.id => a = b
  <2>1. Rank(a) \in Nat /\ Rank(b) \in Nat
    BY FS_Subset, FS_CardinalityType DEF NewerThan, Numbered
  <2>2. a.id \in Nat /\ b.id \in Nat /\ (a.id = b.id => a = b)
    BY DEF Numbered
  <2> QED
    BY <2>1, <2>2, OlderHasMore
<1>5. ASSUME NEW j \in 1 .. size, NEW k \in 1 .. size, j < k PROVE L[j].id > L[k].id
  <2>1. Rank(L[j]) = j - 1 /\ Rank(L[k]) = k - 1 /\ L[j] \in S /\ L[k] \in S
    BY <1>2
  <2>2. Rank(L[j]) < Rank(L[k])
    BY <1>1, <1>5, <2>1
  <2> DEFINE a == L[j]
             b == L[k]
  <2>3. a \in S /\ b \in S /\ Rank(a) < Rank(b)
    BY <2>1, <2>2
  <2> HIDE DEF a, b, Rank, L
  <2>4. a.id > b.id
    BY <2>3, <1>4
  <2> QED
    BY <2>4 DEF a, b
<1>6. ASSUME NEW m \in S PROVE \E k \in 1 .. size : L[k] = m
  <2> DEFINE A == NewerThan(S, m)
  <2>1. A \subseteq S /\ A # S
    <3>1. ~(m.id > m.id)
      BY <1>4
    <3> QED
      BY <3>1 DEF NewerThan
  <2> HIDE DEF A
  <2>2. Cardinality(A) \in Nat /\ Cardinality(A) <= size /\ Cardinality(A) # size
    BY <2>1, FS_Subset, FS_CardinalityType DEF Numbered
  <2>3. Rank(m) = Cardinality(A)
    BY DEF A
  <2>4. PICK k \in 1 .. size : k = Rank(m) + 1
    <3> HIDE DEF Rank, size
    <3> QED
      BY <1>1, <2>2, <2>3
  <2>5. Rank(L[k]) = k - 1 /\ L[k] \in S
    BY <1>2
  <2>6. PICK a \in S : a = L[k]
    BY <2>5
  <2> HIDE DEF Rank, L
  <2>7. Rank(a) = Rank(m)
    BY <2>2, <2>3, <2>4, <2>5, <2>6
  <2>8. a = m
    BY <2>7, <1>4
  <2> QED
    BY <2>6, <2>8
<1> QED
  BY <1>3, <1>5, <1>6

-----------------------------------------------------------------------------
(* Orientation: the walk *)

\* What the walk holds after one more message.
Met(told, m, limit) ==
  IF Len(told) = limit \/ \E j \in DOMAIN told : SameThread(told[j], m)
  THEN told ELSE Append(told, m)

WalkTo(messages, limit, n, told) ==
  told = [k \in 0 .. n |-> IF k = 0 THEN << >> ELSE Met(told[k - 1], messages[k], limit)]

\* The walk is defined on every list, however long.
LEMMA WalkExists ==
  ASSUME NEW E, NEW messages \in Seq(E), NEW limit
  PROVE  \E told : WalkTo(messages, limit, Len(messages), told)
<1> DEFINE Bad == {n \in 0 .. Len(messages) : ~\E told : WalkTo(messages, limit, n, told)}
<1>1. Len(messages) \in Nat
  BY LenProperties
<1>2. SUFFICES ASSUME Bad # {} PROVE FALSE
  BY <1>1
<1>3. PICK n \in Bad : \A k \in Bad : n <= k
  <2>1. Bad \subseteq Nat
    BY <1>1
  <2> HIDE DEF Bad
  <2> QED
    BY <1>2, <2>1, LeastExists
<1>4. n \in 0 .. Len(messages) /\ ~\E told : WalkTo(messages, limit, n, told)
  BY <1>3
<1>5. CASE n = 0
  <2> DEFINE told == [k \in 0 .. 0 |-> << >>]
  <2>1. told = [k \in 0 .. 0 |-> IF k = 0 THEN << >> ELSE Met(told[k - 1], messages[k], limit)]
    OBVIOUS
  <2> HIDE DEF told
  <2>2. WalkTo(messages, limit, 0, told)
    BY <2>1 DEF WalkTo
  <2> QED
    BY <1>4, <1>5, <2>2
<1>6. CASE n # 0
  <2>1. n - 1 \in 0 .. Len(messages) /\ n - 1 \notin Bad /\ n \in Nat
    BY <1>1, <1>3, <1>4, <1>6
  <2>2. PICK told : WalkTo(messages, limit, n - 1, told)
    BY <2>1
  <2> DEFINE next == [k \in 0 .. n |-> IF k = n THEN Met(told[n - 1], messages[n], limit)
                                               ELSE told[k]]
  <2>3. told = [k \in 0 .. n - 1 |->
                  IF k = 0 THEN << >> ELSE Met(told[k - 1], messages[k], limit)]
    BY <2>2 DEF WalkTo
  <2>4. ASSUME NEW k \in 0 .. n
        PROVE  next[k] = IF k = 0 THEN << >> ELSE Met(next[k - 1], messages[k], limit)
    <3>1. CASE k = n
      <4>1. n - 1 \in 0 .. n /\ n - 1 # n
        BY <1>6, <2>1
      <4>2. next[n - 1] = told[n - 1] /\ next[n] = Met(told[n - 1], messages[n], limit)
        BY <4>1, <3>1
      <4> QED
        BY <1>6, <3>1, <4>2
    <3>2. CASE k # n /\ k = 0
      BY <2>1, <2>3, <3>2, <1>6
    <3>3. CASE k # n /\ k # 0
      <4>1. k \in 0 .. n - 1 /\ k - 1 \in 0 .. n /\ k - 1 # n
        BY <2>1, <3>3
      <4>2. told[k] = Met(told[k - 1], messages[k], limit)
        BY <2>3, <3>3, <4>1
      <4> QED
        BY <3>3, <4>1, <4>2
    <3> QED
      BY <3>1, <3>2, <3>3
  <2>5. next = [k \in 0 .. n |->
                  IF k = 0 THEN << >> ELSE Met(next[k - 1], messages[k], limit)]
    <3>1. DOMAIN next = 0 .. n /\ next = [k \in 0 .. n |-> next[k]]
      OBVIOUS
    <3> HIDE DEF next
    <3> QED
      BY <2>4, <3>1
  <2> HIDE DEF next
  <2>6. WalkTo(messages, limit, n, next)
    BY <2>5 DEF WalkTo
  <2> QED
    BY <1>4, <2>6
<1> QED
  BY <1>5, <1>6

\* The walk goes from one message to the next, and ends with the last.
LEMMA WalkSteps ==
  ASSUME NEW E, NEW messages \in Seq(E), NEW limit
  PROVE  \E told : /\ told[0] = << >>
                   /\ \A n \in 1 .. Len(messages) :
                        told[n] = Met(told[n - 1], messages[n], limit)
                   /\ FirstPerThread(messages, limit) = told[Len(messages)]
<1> DEFINE told == CHOOSE t : WalkTo(messages, limit, Len(messages), t)
           N == Len(messages)
<1>1. FirstPerThread(messages, limit) = told[N]
  BY DEF FirstPerThread, WalkTo, Met
<1>2. WalkTo(messages, limit, N, told)
  BY WalkExists
<1>3. N \in Nat
  BY LenProperties
<1> HIDE DEF told, N
<1>4. told = [k \in 0 .. N |-> IF k = 0 THEN << >> ELSE Met(told[k - 1], messages[k], limit)]
  BY <1>2 DEF WalkTo
<1>5. told[0] = << >>
  BY <1>3, <1>4
<1>6. \A n \in 1 .. N : told[n] = Met(told[n - 1], messages[n], limit)
  BY <1>3, <1>4
<1> QED
  BY <1>1, <1>5, <1>6 DEF N

\* What has been told of the first n messages of a list: the first of a thread,
\* and every thread among them unless the limit was reached by earlier ones.
ToldSoFar(messages, limit, n, told) ==
  /\ told \in Seq(StoredMessage)
  /\ \A j \in DOMAIN told : \E i \in 1 .. n :
       told[j] = messages[i] /\ \A k \in 1 .. i - 1 : ~SameThread(messages[k], messages[i])
  /\ \A i \in 1 .. n :
       \/ \E j \in DOMAIN told : SameThread(told[j], messages[i])
       \/ Len(told) = limit /\ \A j \in DOMAIN told : told[j].id > messages[i].id

LEMMA MetTells ==
  ASSUME NEW messages \in Seq(StoredMessage), NEW limit, NEW n \in 1 .. Len(messages), NEW told,
         ToldSoFar(messages, limit, n - 1, told),
         \A j, k \in 1 .. Len(messages) : j < k => messages[j].id > messages[k].id
  PROVE  ToldSoFar(messages, limit, n, Met(told, messages[n], limit))
<1> DEFINE m == messages[n]
<1>1. Len(messages) \in Nat /\ messages \in [1 .. Len(messages) -> StoredMessage]
  BY LenProperties
<1>2. n \in Nat /\ m \in StoredMessage /\ \A i \in 1 .. n : i \in 1 .. n - 1 \/ i = n
  BY <1>1
<1>3. told \in Seq(StoredMessage) /\ DOMAIN told = 1 .. Len(told) /\ Len(told) \in Nat
  BY LenProperties DEF ToldSoFar
<1>4. \A i \in 1 .. n - 1 : i \in 1 .. n /\ i \in 1 .. Len(messages) /\ i < n
  BY <1>1
<1>5. \A j \in DOMAIN told : told[j].id > m.id
  <2> SUFFICES ASSUME NEW j \in DOMAIN told PROVE told[j].id > m.id
    OBVIOUS
  <2>1. PICK i \in 1 .. n - 1 : told[j] = messages[i]
    BY DEF ToldSoFar
  <2> QED
    BY <1>4, <2>1
<1> HIDE DEF m
<1>6. CASE Len(told) = limit \/ \E j \in DOMAIN told : SameThread(told[j], m)
  <2>1. Met(told, m, limit) = told
    BY <1>6 DEF Met
  <2>2. \A j \in DOMAIN told : \E i \in 1 .. n :
          told[j] = messages[i] /\ \A k \in 1 .. i - 1 : ~SameThread(messages[k], messages[i])
    BY <1>4 DEF ToldSoFar
  <2>3. ASSUME NEW i \in 1 .. n
        PROVE  \/ \E j \in DOMAIN told : SameThread(told[j], messages[i])
               \/ Len(told) = limit /\ \A j \in DOMAIN told : told[j].id > messages[i].id
    <3>1. CASE i \in 1 .. n - 1
      BY <3>1 DEF ToldSoFar
    <3>2. CASE i = n
      BY <1>5, <1>6, <3>2 DEF m
    <3> QED
      BY <1>2, <3>1, <3>2
  <2>4. ToldSoFar(messages, limit, n, told)
    BY <1>3, <2>2, <2>3 DEF ToldSoFar
  <2> QED
    BY <2>1, <2>4 DEF m
<1>7. CASE ~(Len(told) = limit \/ \E j \in DOMAIN told : SameThread(told[j], m))
  <2> DEFINE more == Append(told, m)
  <2>1. Met(told, m, limit) = more
    BY <1>7 DEF Met
  <2>2. /\ more \in Seq(StoredMessage) /\ Len(more) = Len(told) + 1
        /\ \A j \in 1 .. Len(told) : more[j] = told[j]
        /\ more[Len(told) + 1] = m
    BY <1>2, <1>3, AppendProperties
  <2> HIDE DEF more
  <2>3. DOMAIN more = 1 .. Len(told) + 1
    BY <2>2, LenProperties
  <2>4. \A k \in 1 .. n - 1 : \E j \in DOMAIN told : SameThread(told[j], messages[k])
    BY <1>7 DEF ToldSoFar
  <2>5. \A k \in 1 .. n - 1 : ~SameThread(messages[k], m)
    BY <1>7, <2>4 DEF SameThread
  <2>6. ASSUME NEW j \in DOMAIN more
        PROVE  \E i \in 1 .. n :
                 more[j] = messages[i] /\ \A k \in 1 .. i - 1 : ~SameThread(messages[k], messages[i])
    <3>1. CASE j \in DOMAIN told
      <4>1. PICK i \in 1 .. n - 1 :
              told[j] = messages[i] /\ \A k \in 1 .. i - 1 : ~SameThread(messages[k], messages[i])
        BY <3>1 DEF ToldSoFar
      <4> QED
        BY <1>3, <1>4, <2>2, <3>1, <4>1
    <3>2. CASE j = Len(told) + 1
      BY <1>2, <2>2, <2>5, <3>2 DEF m
    <3> QED
      BY <1>3, <2>3, <3>1, <3>2
  <2>7. ASSUME NEW i \in 1 .. n
        PROVE  \E j \in DOMAIN more : SameThread(more[j], messages[i])
    <3>1. CASE i \in 1 .. n - 1
      <4>1. PICK j \in DOMAIN told : SameThread(told[j], messages[i])
        BY <2>4, <3>1
      <4>2. j \in DOMAIN more /\ more[j] = told[j]
        BY <1>3, <2>2, <2>3
      <4> QED
        BY <4>1, <4>2
    <3>2. CASE i = n
      <4>1. Len(told) + 1 \in DOMAIN more
        BY <1>3, <2>3
      <4> QED
        BY <2>2, <3>2, <4>1 DEF m, SameThread
    <3> QED
      BY <1>2, <3>1, <3>2
  <2>8. ToldSoFar(messages, limit, n, more)
    BY <2>2, <2>6, <2>7 DEF ToldSoFar
  <2> QED
    BY <2>1, <2>8 DEF m
<1> QED
  BY <1>6, <1>7

\* The walk over a list from the newest on tells all of it, up to the limit.
LEMMA WalkTells ==
  ASSUME NEW messages \in Seq(StoredMessage), NEW limit,
         \A j, k \in 1 .. Len(messages) : j < k => messages[j].id > messages[k].id
  PROVE  ToldSoFar(messages, limit, Len(messages), FirstPerThread(messages, limit))
<1> DEFINE N == Len(messages)
<1>1. N \in Nat
  BY LenProperties
<1>2. PICK told : /\ told[0] = << >>
                  /\ \A n \in 1 .. N : told[n] = Met(told[n - 1], messages[n], limit)
                  /\ FirstPerThread(messages, limit) = told[N]
  BY WalkSteps
<1> DEFINE Bad == {n \in 0 .. N : ~ToldSoFar(messages, limit, n, told[n])}
<1>3. Bad = {}
  <2>1. SUFFICES ASSUME Bad # {} PROVE FALSE
    OBVIOUS
  <2>2. PICK n \in Bad : \A k \in Bad : n <= k
    <3>1. Bad \subseteq Nat
      BY <1>1
    <3> HIDE DEF Bad
    <3> QED
      BY <2>1, <3>1, LeastExists
  <2>3. n \in 0 .. N /\ ~ToldSoFar(messages, limit, n, told[n])
    BY <2>2
  <2>4. CASE n = 0
    <3>1. << >> \in Seq(StoredMessage) /\ DOMAIN << >> = {}
      BY EmptySeq
    <3>2. 1 .. 0 = {}
      OBVIOUS
    <3>3. ToldSoFar(messages, limit, 0, << >>)
      BY <3>1, <3>2 DEF ToldSoFar
    <3> QED
      BY <1>2, <2>3, <2>4, <3>3
  <2>5. CASE n # 0
    <3>1. n - 1 \in 0 .. N /\ n - 1 \notin Bad /\ n \in 1 .. N
      BY <1>1, <2>2, <2>3, <2>5
    <3>2. ToldSoFar(messages, limit, n - 1, told[n - 1])
      BY <3>1
    <3>3. told[n] = Met(told[n - 1], messages[n], limit)
      BY <1>2, <3>1
    <3> QED
      BY <2>3, <3>1, <3>2, <3>3, MetTells
  <2> QED
    BY <2>4, <2>5
<1> QED
  BY <1>1, <1>2, <1>3

-----------------------------------------------------------------------------
(* Orientation: the buckets *)

\* A channel's bucket holds the channel's messages as the index has them, in the
\* order of their numbers, and every message of the index is in one.
BucketsInOrder ==
  /\ \A id \in DOMAIN byId :
       /\ byId[id].id = id
       /\ \E p \in DOMAIN buckets[byId[id].ch] : buckets[byId[id].ch][p] = byId[id]
  /\ \A ch \in ChannelNames : \A p \in DOMAIN buckets[ch] :
       /\ buckets[ch][p].ch = ch /\ buckets[ch][p].id \in DOMAIN byId
       /\ byId[buckets[ch][p].id] = buckets[ch][p]
  /\ \A ch \in ChannelNames : \A p, q \in DOMAIN buckets[ch] :
       p < q => buckets[ch][p].id < buckets[ch][q].id

LEMMA SameInOrder == ASSUME BucketsInOrder, UNCHANGED <<byId, buckets>> PROVE BucketsInOrder'
  BY DEF BucketsInOrder

\* A new message has the next number, and comes last in its channel.
LEMMA DeliverInOrder ==
  ASSUME MemoryTyped, BucketsInOrder, NEW sender, NEW ch \in ChannelNames, NEW mentions, NEW thread,
         NEW notice, Deliver(sender, ch, mentions, thread, notice), MessagesType'
  PROVE  BucketsInOrder'
<1> DEFINE m == [id |-> Len(byId) + 1, ch |-> ch, thread |-> thread, sender |-> sender,
                 mentions |-> mentions, notice |-> notice]
           b == buckets[ch]
           N == Len(byId)
<1>1. byId' = Append(byId, m) /\ buckets' = [buckets EXCEPT ![ch] = Append(@, m)]
  BY DEF Deliver
<1>2. /\ N \in Nat /\ DOMAIN byId = 1 .. N
      /\ \A id \in DOMAIN byId : byId[id].ch \in ChannelNames
  BY MessageNumbering DEF MemoryTyped, MemoryTypeOK, StoredMessage
<1>3. b \in Seq(StoredMessage) /\ buckets \in [ChannelNames -> Seq(StoredMessage)]
  BY DEF MemoryTyped, MemoryTypeOK, MessagesType
<1>4. DOMAIN b = 1 .. Len(b) /\ Len(b) \in Nat
  BY <1>3, LenProperties
<1>5. m.id = N + 1 /\ m.ch = ch
  OBVIOUS
<1> HIDE DEF m
<1>6. Len(byId') = N + 1 /\ DOMAIN byId' = 1 .. N + 1 /\ byId'[N + 1] = m
      /\ \A id \in 1 .. N : byId'[id] = byId[id]
  BY <1>1, <1>2 DEF MemoryTyped, MemoryTypeOK, MessagesType
<1>7. DOMAIN buckets'[ch] = 1 .. Len(b) + 1 /\ buckets'[ch][Len(b) + 1] = m
      /\ \A p \in 1 .. Len(b) : buckets'[ch][p] = b[p]
  BY <1>1, <1>3, <1>4
<1>8. \A c \in ChannelNames : c # ch => buckets'[c] = buckets[c]
  BY <1>1, <1>3
<1> HIDE DEF b, N
<1>9. ASSUME NEW id \in DOMAIN byId'
      PROVE  /\ byId'[id].id = id
             /\ \E p \in DOMAIN buckets'[byId'[id].ch] : buckets'[byId'[id].ch][p] = byId'[id]
  <2>1. CASE id \in 1 .. N
    <3>1. byId'[id] = byId[id] /\ id \in DOMAIN byId /\ byId[id].id = id
      BY <1>2, <1>6, <2>1 DEF BucketsInOrder
    <3>2. PICK p \in DOMAIN buckets[byId[id].ch] : buckets[byId[id].ch][p] = byId[id]
      BY <3>1 DEF BucketsInOrder
    <3>3. p \in DOMAIN buckets'[byId[id].ch] /\ buckets'[byId[id].ch][p] = byId[id]
      <4>1. CASE byId[id].ch = ch
        BY <1>4, <1>7, <3>2, <4>1 DEF b
      <4>2. CASE byId[id].ch # ch
        BY <1>2, <1>8, <3>1, <3>2, <4>2
      <4> QED
        BY <4>1, <4>2
    <3> QED
      BY <3>1, <3>3
  <2>2. CASE id = N + 1
    <3>1. byId'[id] = m /\ m.id = id /\ m.ch = ch
      BY <1>5, <1>6, <2>2
    <3>2. Len(b) + 1 \in DOMAIN buckets'[ch]
      BY <1>4, <1>7
    <3> QED
      BY <1>7, <3>1, <3>2
  <2> QED
    BY <1>2, <1>6, <2>1, <2>2
<1>10. ASSUME NEW c \in ChannelNames, NEW p \in DOMAIN buckets'[c]
       PROVE  /\ buckets'[c][p].ch = c /\ buckets'[c][p].id \in DOMAIN byId'
              /\ byId'[buckets'[c][p].id] = buckets'[c][p]
              /\ \/ buckets'[c][p] = m /\ c = ch /\ p = Len(b) + 1
                 \/ p \in DOMAIN buckets[c] /\ buckets'[c][p] = buckets[c][p]
  <2>1. CASE c = ch /\ p = Len(b) + 1
    <3>1. buckets'[c][p] = m /\ m.id = N + 1 /\ N + 1 \in DOMAIN byId' /\ byId'[N + 1] = m
      BY <1>2, <1>5, <1>6, <1>7, <2>1
    <3> QED
      BY <1>5, <2>1, <3>1
  <2>2. CASE ~(c = ch /\ p = Len(b) + 1)
    <3>1. p \in DOMAIN buckets[c] /\ buckets'[c][p] = buckets[c][p]
      <4>1. CASE c = ch
        BY <1>4, <1>7, <2>2, <4>1 DEF b
      <4>2. CASE c # ch
        BY <1>8, <4>2
      <4> QED
        BY <4>1, <4>2
    <3>2. buckets[c][p].ch = c /\ buckets[c][p].id \in DOMAIN byId
          /\ byId[buckets[c][p].id] = buckets[c][p]
      BY <3>1 DEF BucketsInOrder
    <3>3. \A id \in DOMAIN byId : id \in DOMAIN byId' /\ byId'[id] = byId[id]
      BY <1>2, <1>6
    <3> QED
      BY <3>1, <3>2, <3>3
  <2> QED
    BY <2>1, <2>2
<1>11. ASSUME NEW c \in ChannelNames, NEW p \in DOMAIN buckets'[c], NEW q \in DOMAIN buckets'[c],
              p < q
       PROVE  buckets'[c][p].id < buckets'[c][q].id
  <2>1. CASE q \in DOMAIN buckets[c] /\ buckets'[c][q] = buckets[c][q]
    <3>1. p \in DOMAIN buckets[c] /\ buckets'[c][p] = buckets[c][p]
      <4>1. CASE c = ch /\ p = Len(b) + 1
        BY <1>4, <1>11, <2>1, <4>1 DEF b
      <4> QED
        BY <1>10, <4>1
    <3> QED
      BY <1>11, <2>1, <3>1 DEF BucketsInOrder
  <2>2. CASE buckets'[c][q] = m /\ c = ch /\ q = Len(b) + 1
    <3>1. p \in DOMAIN buckets[c] /\ buckets'[c][p] = buckets[c][p]
      <4>1. p # Len(b) + 1
        BY <1>4, <1>11, <2>2
      <4> QED
        BY <1>10, <4>1
    <3>2. buckets[c][p].id \in 1 .. N
      BY <1>2, <3>1 DEF BucketsInOrder
    <3> QED
      BY <1>2, <1>5, <2>2, <3>1, <3>2
  <2> QED
    BY <1>10, <2>1, <2>2
<1> QED
  BY <1>9, <1>10, <1>11 DEF BucketsInOrder

\* An edit changes a message in the index and in its bucket alike, and neither
\* its number nor its place.
LEMMA EditInOrder ==
  ASSUME MemoryTyped, BucketsInOrder, NEW s, NEW id \in DOMAIN byId, NEW body, Edit(s, id, body)
  PROVE  BucketsInOrder'
<1> DEFINE m == [byId[id] EXCEPT !.mentions = MentionsIn(body)]
           b == buckets[byId[id].ch]
<1>1. /\ byId' = [byId EXCEPT ![id] = m]
      /\ buckets' = [buckets EXCEPT ![byId[id].ch] =
                        [i \in DOMAIN @ |-> IF @[i] = byId[id] THEN byId'[id] ELSE @[i]]]
  BY DEF Edit
<1>2. byId[id] \in StoredMessage /\ byId[id].ch \in ChannelNames
      /\ \A i \in DOMAIN byId : byId[i].ch \in ChannelNames
  BY MessageNumbering DEF MemoryTyped, MemoryTypeOK, StoredMessage
<1>3. m.id = byId[id].id /\ m.ch = byId[id].ch
  BY <1>2 DEF StoredMessage
<1>4. byId[id].id = id
  BY DEF BucketsInOrder
<1> HIDE DEF m
<1>5. /\ DOMAIN byId' = DOMAIN byId /\ byId'[id] = m
      /\ \A i \in DOMAIN byId : byId'[i].id = i /\ byId'[i].ch = byId[i].ch
      /\ \A i \in DOMAIN byId : i # id => byId'[i] = byId[i]
  BY <1>1, <1>3, <1>4 DEF BucketsInOrder
<1>6. ASSUME NEW c \in ChannelNames
      PROVE  /\ DOMAIN buckets'[c] = DOMAIN buckets[c]
             /\ \A p \in DOMAIN buckets[c] : buckets'[c][p] = byId'[buckets[c][p].id]
  <2>1. buckets \in [ChannelNames -> Seq(StoredMessage)]
    BY DEF MemoryTyped, MemoryTypeOK, MessagesType
  <2>2. \A p \in DOMAIN buckets[c] :
          /\ buckets[c][p].ch = c /\ buckets[c][p].id \in DOMAIN byId
          /\ byId[buckets[c][p].id] = buckets[c][p]
    BY DEF BucketsInOrder
  <2>3. CASE c = byId[id].ch
    <3>1. buckets'[c] = [p \in DOMAIN buckets[c] |->
                           IF buckets[c][p] = byId[id] THEN byId'[id] ELSE buckets[c][p]]
      BY <1>1, <1>2, <2>1, <2>3
    <3>2. \A p \in DOMAIN buckets[c] : buckets[c][p] = byId[id] <=> buckets[c][p].id = id
      BY <1>4, <2>2
    <3> QED
      BY <1>5, <2>2, <3>1, <3>2
  <2>4. CASE c # byId[id].ch
    <3>1. buckets'[c] = buckets[c]
      BY <1>1, <2>1, <2>4
    <3>2. \A p \in DOMAIN buckets[c] : buckets[c][p].id # id
      BY <2>2, <2>4
    <3> QED
      BY <1>5, <2>2, <3>1, <3>2
  <2> QED
    BY <2>3, <2>4
<1>7. ASSUME NEW i \in DOMAIN byId'
      PROVE  /\ byId'[i].id = i
             /\ \E p \in DOMAIN buckets'[byId'[i].ch] : buckets'[byId'[i].ch][p] = byId'[i]
  <2>1. i \in DOMAIN byId /\ byId'[i].ch = byId[i].ch /\ byId'[i].id = i /\ byId[i].id = i
    BY <1>5 DEF BucketsInOrder
  <2>2. PICK p \in DOMAIN buckets[byId[i].ch] : buckets[byId[i].ch][p] = byId[i]
    BY <2>1 DEF BucketsInOrder
  <2> QED
    BY <1>2, <1>6, <2>1, <2>2
<1>8. ASSUME NEW c \in ChannelNames, NEW p \in DOMAIN buckets'[c]
      PROVE  /\ buckets'[c][p].id = buckets[c][p].id /\ buckets'[c][p].ch = c
             /\ buckets'[c][p].id \in DOMAIN byId' /\ byId'[buckets'[c][p].id] = buckets'[c][p]
  <2>1. p \in DOMAIN buckets[c] /\ buckets'[c][p] = byId'[buckets[c][p].id]
    BY <1>6
  <2>2. buckets[c][p].ch = c /\ buckets[c][p].id \in DOMAIN byId
        /\ byId[buckets[c][p].id] = buckets[c][p]
    BY <2>1 DEF BucketsInOrder
  <2> QED
    BY <1>5, <2>1, <2>2
<1>9. ASSUME NEW c \in ChannelNames, NEW p \in DOMAIN buckets'[c], NEW q \in DOMAIN buckets'[c],
             p < q
      PROVE  buckets'[c][p].id < buckets'[c][q].id
  <2>1. p \in DOMAIN buckets[c] /\ q \in DOMAIN buckets[c]
    BY <1>6
  <2>2. buckets[c][p].id < buckets[c][q].id
    BY <1>9, <2>1 DEF BucketsInOrder
  <2> QED
    BY <1>8, <2>2
<1> QED
  BY <1>7, <1>8, <1>9 DEF BucketsInOrder

LEMMA StepInOrder == ASSUME Engaging, BucketsInOrder, [Next]_vars PROVE BucketsInOrder'
<1>1. MemoryTyped /\ MessagesType'
  BY StepEngaging DEF Engaging, MemoryTyped, MemoryTypeOK
<1>2. CASE UNCHANGED vars \/ SeatBinds \/ SeatLeaves \/ FeedSession
  <2>1. UNCHANGED <<byId, buckets>>
    BY <1>2 DEF FeedSession, vars, memoryVars, SeatBinds, SeatLeaves, Acquire, Release, stored
  <2> QED
    BY <2>1, SameInOrder
<1>3. CASE Peers
  <2>1. ASSUME NEW name, Seed(name, "human") PROVE BucketsInOrder'
    <3>1. UNCHANGED <<byId, buckets>>
      BY <2>1 DEF Seed, stored
    <3> QED
      BY <3>1, SameInOrder
  <2>2. ASSUME NEW i, NEW ch \in ChannelNames, NEW t, NEW b, PeerPost(i, ch, t, b)
        PROVE  BucketsInOrder'
    BY <1>1, <2>2, DeliverInOrder DEF PeerPost
  <2> QED
    BY <1>3, <2>1, <2>2 DEF Peers
<1>4. ASSUME NEW c \in Calls, Writes(c) PROVE BucketsInOrder'
  <2>1. ASSUME NEW ch \in ChannelNames, NEW t, NEW b, PostTool(c, ch, t, b) PROVE BucketsInOrder'
    BY <1>1, <2>1, DeliverInOrder DEF PostTool, Post
  <2>2. ASSUME NEW id \in DOMAIN byId, NEW ch, NEW b, EditTool(c, id, ch, b) PROVE BucketsInOrder'
    BY <1>1, <2>2, EditInOrder DEF EditTool
  <2>3. ASSUME NEW id, NEW ch, NEW t, NEW e, ReactTool(c, id, ch, t, e) \/ UnreactTool(c, id, ch, e)
        PROVE  BucketsInOrder'
    <3>1. UNCHANGED <<byId, buckets>>
      BY <2>3 DEF ReactTool, UnreactTool, React, Unreact
    <3> QED
      BY <3>1, SameInOrder
  <2>4. ASSUME NEW ch \in ChannelNames, NEW t, NEW wanted, ResolveTool(c, ch, t, wanted)
        PROVE  BucketsInOrder'
    <3>1. SetThreadResolved(Self, ch, t, wanted)
      BY <2>4 DEF ResolveTool
    <3>2. CASE (<<ch, t>> \in resolved) = wanted
      <4>1. UNCHANGED <<byId, buckets>>
        BY <3>1, <3>2 DEF SetThreadResolved
      <4> QED
        BY <4>1, SameInOrder
    <3>3. CASE (<<ch, t>> \in resolved) # wanted
      BY <1>1, <3>1, <3>3, DeliverInOrder DEF SetThreadResolved
    <3> QED
      BY <3>2, <3>3
  <2>5. ASSUME NEW ch, NEW text, DescribeTool(c, ch, text) PROVE BucketsInOrder'
    <3>1. UNCHANGED <<byId, buckets>>
      BY <2>5 DEF DescribeTool, SetChannelDescription, stored
    <3> QED
      BY <3>1, SameInOrder
  <2> QED
    BY <1>4, <2>1, <2>2, <2>3, <2>4, <2>5 DEF Writes
<1>5. ASSUME NEW c \in Calls, Hears(c) PROVE BucketsInOrder'
  <2>1. UNCHANGED <<byId, buckets>>
    <3> USE DEF memoryVars, stored
    <3>1. ASSUME NEW key, SubscribeTool(c, key) \/ UnsubscribeTool(c, key)
          PROVE  UNCHANGED <<byId, buckets>>
      BY <3>1 DEF SubscribeTool, UnsubscribeTool, NarrowWhileSubscribing
    <3>2. CASE StickyThreadEngagement(c) \/ SubscribeRefused(c)
      BY <3>2 DEF StickyThreadEngagement, SubscribeRefused, NarrowWhileSubscribing
    <3>3. CASE Subscribed(c) \/ Unsubscribed(c)
      BY <3>3 DEF Subscribed, Unsubscribed, Subscribe, Unsubscribe
    <3>4. CASE UnsubscribeRefused(c) \/ Persist(c)
      BY <3>4 DEF UnsubscribeRefused, Persist
    <3> QED
      BY <1>5, <3>1, <3>2, <3>3, <3>4 DEF Hears
  <2> QED
    BY <2>1, SameInOrder
<1> QED
  BY <1>2, <1>3, <1>4, <1>5 DEF Next

LEMMA InitInOrder == Init => BucketsInOrder
<1>1. DOMAIN << >> = {}
  BY EmptySeq
<1> QED
  BY <1>1 DEF Init, FirstState, BucketsInOrder

-----------------------------------------------------------------------------
(* Orientation: what is told *)

\* The messages of a sender are of the index, each with a number of its own.
LEMMA SenderNumbered ==
  ASSUME MemoryTyped, BucketsInOrder, NEW i
  PROVE  /\ Numbered(ThreadedOf(i), Len(byId)) /\ Len(byId) \in Nat
         /\ \A m \in ThreadedOf(i) : /\ m.id \in DOMAIN byId /\ byId[m.id] = m
                                     /\ m \in StoredMessage /\ m.sender = i
                                     /\ \E p \in DOMAIN buckets[m.ch] : buckets[m.ch][p] = m
         /\ \A id \in DOMAIN byId :
              byId[id].sender = i /\ byId[id].thread # NoThread => byId[id] \in ThreadedOf(i)
<1> DEFINE S == ThreadedOf(i)
           N == Len(byId)
<1>1. /\ DOMAIN byId = 1 .. N /\ N \in Nat
      /\ \A id \in DOMAIN byId : byId[id] \in StoredMessage /\ byId[id].ch \in ChannelNames
  BY MessageNumbering DEF MemoryTyped, MemoryTypeOK, StoredMessage
<1>2. ASSUME NEW m \in S
      PROVE  /\ m.id \in DOMAIN byId /\ byId[m.id] = m /\ m \in StoredMessage /\ m.sender = i
             /\ \E p \in DOMAIN buckets[m.ch] : buckets[m.ch][p] = m
  <2>1. PICK ch \in ChannelNames : m \in Range(buckets[ch])
    BY DEF ThreadedOf, AllStored
  <2>2. PICK p \in DOMAIN buckets[ch] : buckets[ch][p] = m
    BY <2>1 DEF Range
  <2>3. m.id \in DOMAIN byId /\ byId[m.id] = m /\ m.ch = ch
    BY <2>2 DEF BucketsInOrder
  <2>4. m.sender = i
    BY DEF ThreadedOf
  <2> QED
    BY <1>1, <2>2, <2>3, <2>4
<1>3. ASSUME NEW id \in DOMAIN byId, byId[id].sender = i, byId[id].thread # NoThread
      PROVE  byId[id] \in S
  <2>1. PICK p \in DOMAIN buckets[byId[id].ch] : buckets[byId[id].ch][p] = byId[id]
    BY DEF BucketsInOrder
  <2>2. byId[id] \in AllStored
    BY <1>1, <2>1 DEF AllStored, Range
  <2> QED
    BY <1>3, <2>2 DEF ThreadedOf
<1>4. IsFiniteSet(S)
  <2> DEFINE f == [m \in S |-> m.id]
  <2>1. IsFiniteSet(1 .. N)
    BY <1>1, FS_Interval
  <2>2. f \in Injection(S, 1 .. N)
    <3>1. f \in [S -> 1 .. N]
      BY <1>1, <1>2
    <3>2. \A m, n \in S : f[m] = f[n] => m = n
      BY <1>2
    <3> HIDE DEF f, S
    <3> QED
      BY <3>1, <3>2 DEF Injection, IsInjective
  <2> HIDE DEF f, S
  <2> QED
    BY <2>1, <2>2, FS_Injection
<1>5. Numbered(S, N)
  <2>1. \A m \in S : m.id \in 0 .. N
    BY <1>1, <1>2
  <2>2. \A m, n \in S : m.id = n.id => m = n
    BY <1>2
  <2> QED
    BY <1>4, <2>1, <2>2 DEF Numbered
<1> QED
  BY <1>1, <1>2, <1>3, <1>5

ByMe(i, m) == {p \in ReadThread(m.ch, m.thread) : buckets[m.ch][p].sender = i}

TrueList(i, limit, told) ==
  /\ \A j \in DOMAIN told : told[j] = buckets[told[j].ch][Max(ByMe(i, told[j]))]
  /\ \A id \in DOMAIN byId :
       byId[id].sender = i /\ byId[id].thread # NoThread
         => \/ \E j \in DOMAIN told : SameThread(told[j], byId[id])
            \/ Len(told) = limit /\ \A j \in DOMAIN told : told[j].id > id

\* The list of an agent, walked from the newest message on.
LEMMA ListIsTrue ==
  ASSUME MemoryTyped, BucketsInOrder, NEW i \in DOMAIN members, NEW limit
  PROVE  TrueList(i, limit, RecentThreads(i, limit))
<1> DEFINE S == ThreadedOf(i)
           L == NewestFirst(S)
           told == RecentThreads(i, limit)
<1>1. /\ Numbered(S, Len(byId)) /\ Len(byId) \in Nat
      /\ \A m \in S : /\ m.id \in DOMAIN byId /\ byId[m.id] = m /\ m \in StoredMessage
                      /\ m.sender = i /\ \E p \in DOMAIN buckets[m.ch] : buckets[m.ch][p] = m
      /\ \A id \in DOMAIN byId : byId[id].sender = i /\ byId[id].thread # NoThread => byId[id] \in S
  BY SenderNumbered
<1>2. /\ DOMAIN byId \subseteq Nat
      /\ \A ch \in ChannelNames : buckets[ch] \in Seq(StoredMessage)
  BY MessageNumbering DEF MemoryTyped, MemoryTypeOK, MessagesType
<1> HIDE DEF S
<1>3. /\ L \in Seq(S)
      /\ \A j, k \in DOMAIN L : j < k => L[j].id > L[k].id
      /\ \A m \in S : \E k \in DOMAIN L : L[k] = m
  BY <1>1, NewestFirstListed
<1> HIDE DEF L
<1>4. L \in Seq(StoredMessage) /\ DOMAIN L = 1 .. Len(L) /\ Len(L) \in Nat
      /\ \A k \in DOMAIN L : L[k] \in S
  BY <1>1, <1>3, LenProperties, SeqDef
<1>5. ToldSoFar(L, limit, Len(L), told)
  BY <1>3, <1>4, WalkTells DEF RecentThreads, S, L
<1> HIDE DEF told
<1>6. ASSUME NEW j \in DOMAIN told
      PROVE  told[j] = buckets[told[j].ch][Max(ByMe(i, told[j]))]
  <2>1. PICK k \in DOMAIN L :
          told[j] = L[k] /\ \A e \in 1 .. k - 1 : ~SameThread(L[e], L[k])
    BY <1>4, <1>5 DEF ToldSoFar
  <2> DEFINE m == L[k]
             b == buckets[m.ch]
             places == ByMe(i, m)
  <2>2. m \in S /\ m.ch \in ChannelNames /\ m.id \in Nat /\ m.sender = i
    BY <1>1, <1>2, <1>4 DEF StoredMessage
  <2>3. m.thread # NoThread
    BY <2>2 DEF S, ThreadedOf
  <2>4. PICK p \in DOMAIN b : b[p] = m
    BY <1>1, <2>2
  <2>5. DOMAIN b = 1 .. Len(b) /\ Len(b) \in Nat
    BY <1>2, <2>2, LenProperties
  <2>6. p \in places
    BY <2>2, <2>4 DEF ReadThread, ByMe
  <2>7. ASSUME NEW q \in places PROVE q \in DOMAIN b /\ p >= q
    <3>1. q \in DOMAIN b /\ b[q].thread = m.thread /\ b[q].sender = i
      BY DEF ReadThread, ByMe
    <3>2. b[q].ch = m.ch /\ b[q].id \in Nat
      BY <1>2, <2>2, <3>1 DEF BucketsInOrder
    <3>3. b[q] \in S
      BY <2>2, <2>3, <3>1 DEF S, ThreadedOf, AllStored, Range
    <3>4. PICK e \in DOMAIN L : L[e] = b[q]
      BY <1>3, <3>3
    <3>5. ~(e < k)
      <4>1. SameThread(L[e], L[k])
        BY <3>1, <3>2, <3>4 DEF SameThread
      <4> QED
        BY <1>4, <2>1, <4>1
    <3>6. b[q].id <= m.id
      <4>1. CASE e = k
        BY <2>2, <3>2, <3>4, <4>1
      <4>2. CASE k < e
        BY <1>3, <2>2, <3>2, <3>4, <4>2
      <4> QED
        BY <1>4, <3>5, <4>1, <4>2
    <3>7. ~(p < q)
      BY <2>2, <2>4, <3>1, <3>2, <3>6 DEF BucketsInOrder
    <3> QED
      BY <2>5, <3>1, <3>7
  <2> HIDE DEF places, m, b
  <2>8. Max(places) = p
    <3>1. p \in Nat /\ \A q \in places : q \in Nat
      BY <2>5, <2>7
    <3>2. \A x \in places : (\A y \in places : x >= y) => x = p
      BY <2>6, <2>7, <3>1
    <3> QED
      BY <2>6, <2>7, <3>2 DEF Max
  <2> QED
    BY <2>1, <2>4, <2>8 DEF places, m, b
<1>7. ASSUME NEW id \in DOMAIN byId, byId[id].sender = i, byId[id].thread # NoThread
      PROVE  \/ \E j \in DOMAIN told : SameThread(told[j], byId[id])
             \/ /\ Len(told) = limit
                /\ \A j \in DOMAIN told : told[j].id > id
  <2>1. PICK k \in DOMAIN L : L[k] = byId[id]
    BY <1>1, <1>3, <1>7
  <2>2. byId[id].id = id
    BY DEF BucketsInOrder
  <2> QED
    BY <1>4, <1>5, <2>1, <2>2 DEF ToldSoFar
<1> QED
  BY <1>6, <1>7 DEF told, TrueList

\* Whatever was posted, edited and answered, and in however many channels, a
\* session that comes back is told the threads its bot posted in last, each with
\* its last post there: a thread is left out only when the list is full of later
\* ones (tools.ts current_identity over memory/adapter.ts recentThreads).
THEOREM OrientationAlwaysTrue == Spec => []OrientationIsTrue
<1>1. Engaging /\ BucketsInOrder => OrientationIsTrue
  <2> SUFFICES ASSUME Engaging, BucketsInOrder PROVE OrientationIsTrue
    OBVIOUS
  <2>1. ASSUME NEW i \in DOMAIN members
        PROVE  TrueList(i, RecentThreadsLimit, RecentThreads(i, RecentThreadsLimit))
    BY ListIsTrue DEF Engaging
  <2>2. ASSUME NEW i \in DOMAIN members
        PROVE  (IF i = bound[Self] THEN CurrentIdentity.recent
                                   ELSE RecentThreads(i, RecentThreadsLimit))
                 = RecentThreads(i, RecentThreadsLimit)
    <3>1. i # Nobody
      BY Numbering DEF Engaging, MemoryTyped, MemoryTypeOK, Nobody
    <3> QED
      BY <3>1 DEF CurrentIdentity
  <2> DEFINE list(i) == IF i = bound[Self] THEN CurrentIdentity.recent
                                           ELSE RecentThreads(i, RecentThreadsLimit)
  <2>3. \A i \in DOMAIN members : TrueList(i, RecentThreadsLimit, list(i))
    BY <2>1, <2>2
  <2> HIDE DEF list
  <2>4. \A i \in DOMAIN members :
          /\ \A j \in DOMAIN list(i) : list(i)[j] = buckets[list(i)[j].ch][Max(ByMe(i, list(i)[j]))]
          /\ \A id \in DOMAIN byId :
               byId[id].sender = i /\ byId[id].thread # NoThread
                 => \/ \E j \in DOMAIN list(i) : SameThread(list(i)[j], byId[id])
                    \/ /\ Len(list(i)) = RecentThreadsLimit
                       /\ \A j \in DOMAIN list(i) : list(i)[j].id > id
    BY <2>3 DEF TrueList
  <2> QED
    BY ONLY <2>4 DEF OrientationIsTrue, ByMe, list
<1>2. Init => Engaging /\ BucketsInOrder
  BY InitEngaging, InitInOrder
<1>3. Engaging /\ BucketsInOrder /\ [Next]_vars => (Engaging /\ BucketsInOrder)'
  BY StepEngaging, StepInOrder
<1> QED
  BY <1>1, <1>2, <1>3, PTL DEF Spec
=============================================================================
