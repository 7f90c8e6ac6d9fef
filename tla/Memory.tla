------------------------------- MODULE Memory -------------------------------
(***************************************************************************)
(* The in-memory substrate (memory/adapter.ts): one realm of members,      *)
(* channels, messages, reactions and resolved threads, and the seats that  *)
(* share it, each with a binding, subscriptions and a feed of events.      *)
(*                                                                         *)
(* Every operation runs to its end without giving way, so each is one      *)
(* action.  Ids count up and are positions; a timestamp is the id of its   *)
(* message.  A body is what it mentions and whether it is too long.        *)
(***************************************************************************)
EXTENDS Naturals, Sequences, FiniteSets, FiniteSetsExt, Functions, SequencesExt

CONSTANTS
  Seats,
  Names,        \* names a member can have
  Fold,         \* a name in lower case
  Acquirable,   \* the names a seat may acquire
  ChannelNames, \* the channels seeded
  Threads,      \* thread names callers write
  Kept,         \* the thread name kept of a written one
  Bodies,       \* the bodies posted: [tokens : SUBSET (Names \cup {"all"}), long : BOOLEAN]
  Emojis,
  Texts,        \* channel descriptions
  Storable,     \* the ones neither too long nor of several lines
  Askable,      \* bound: the keys that are subscribed to and unsubscribed
  MaxMembers, MaxMessages, MaxStreams, MaxEvents
                \* bounds: members, messages, events() calls, events that wait

ASSUME MemoryAssumption ==
  /\ Fold \in [Names -> Names] /\ Acquirable \subseteq Names
  /\ Kept \in [Threads -> Threads]
  /\ Storable \subseteq Texts
  /\ {MaxMembers, MaxMessages, MaxStreams, MaxEvents} \subseteq Nat

VARIABLES
  members,    \* id -> member: identitiesById, identitiesByName
  inactive,   \* deactivatedIdentities
  byId,       \* id -> message: messagesById
  buckets,    \* channel -> its messages: messagesByChannel
  reactions,  \* reactionsByMessage
  resolved,   \* resolvedThreadsByChannel
  described,  \* descriptionsByChannel
  bound,      \* seat -> the member it is bound to
  subs,       \* seat -> subscriptions
  seen,       \* seat -> seenTopicsByChannel
  waiting,    \* seat -> eventQueue
  slot,       \* seat -> the stream that has the emit hook
  open        \* seat -> the streams not closed yet

people == <<members, inactive>>
stored == <<byId, buckets, reactions>>
feed == <<waiting, slot, open>>
memoryVars == <<members, inactive, byId, buckets, reactions, resolved, described,
                bound, subs, seen, waiting, slot, open>>

-----------------------------------------------------------------------------
(* Data *)

Nobody == 0
NotificationBot == 0    \* a sender, never a member
Wildcard == 0           \* among mentions: everyone in the channel
NoThread == "no thread"
NoChannel == "no channel"
NoText == "no text"
NoStream == 0
MemberIds == 1 .. MaxMembers
MessageIds == 1 .. MaxMessages

Kinds == {"agent", "human"}
Notices == {"resolved", "unresolved"}

StoredMessage ==
  [id : MessageIds, ch : ChannelNames, thread : Threads \cup {NoThread},
   sender : MemberIds \cup {NotificationBot}, mentions : SUBSET (MemberIds \cup {Wildcard}),
   notice : Notices \cup {"none"}]

SubKey(kind, ch, thread) == [kind |-> kind, ch |-> ch, thread |-> thread]
MentionsKey == SubKey("mentions", NoChannel, NoThread)
ChannelKey(ch) == SubKey("channel", ch, NoThread)
ThreadKey(ch, thread) == SubKey("thread", ch, thread)
NewTopicsKey(ch) == SubKey("newTopics", ch, NoThread)

Keys == {MentionsKey} \cup {ChannelKey(ch) : ch \in ChannelNames}
          \cup {NewTopicsKey(ch) : ch \in ChannelNames}
          \cup {ThreadKey(ch, t) : ch \in ChannelNames, t \in Threads}

ASSUME AskableAssumption == Askable \subseteq Keys

Event(kind, id) == [kind |-> kind, id |-> id]
EventKinds == {"message-posted", "mention-received", "reaction-added", "reaction-removed"}

\* Nothing has happened yet; each seat has the given stream open, if it is one.
FirstState(stream) ==
  /\ members = << >> /\ inactive = {}
  /\ byId = << >> /\ buckets = [ch \in ChannelNames |-> << >>]
  /\ reactions = {} /\ resolved = {}
  /\ described = [ch \in ChannelNames |-> NoText]
  /\ bound = [s \in Seats |-> Nobody]
  /\ subs = [s \in Seats |-> {}] /\ seen = [s \in Seats |-> {}]
  /\ waiting = [s \in Seats |-> << >>] /\ slot = [s \in Seats |-> stream]
  /\ open = [s \in Seats |-> {stream} \ {NoStream}]

MemoryInit == FirstState(NoStream)

-----------------------------------------------------------------------------
(* Members and identity *)

Named(name) == {i \in DOMAIN members : members[i].name = name}

\* The id registerIdentity gives back, and the members after it.
IdOf(name) == IF Named(name) = {} THEN Len(members) + 1 ELSE Min(Named(name))
Registered(name, kind) ==
  IF Named(name) = {} THEN Append(members, [name |-> name, kind |-> kind]) ELSE members

IsCaseVariantOfExisting(name) ==
  /\ Named(name) = {}
  /\ \E i \in DOMAIN members : Fold[members[i].name] = Fold[name]

IsNameOfHuman(name) == \E i \in Named(name) : members[i].kind = "human"

MayAcquire(name) ==
  name \in Acquirable /\ ~IsCaseVariantOfExisting(name) /\ ~IsNameOfHuman(name)

\* A seat that is bound to the name keeps its binding; bound to another it dies.
Acquire(s, name) ==
  /\ bound[s] = Nobody /\ MayAcquire(name)
  /\ Len(Registered(name, "agent")) <= MaxMembers
  /\ members' = Registered(name, "agent")
  /\ bound' = [bound EXCEPT ![s] = IdOf(name)]
  /\ subs' = [subs EXCEPT ![s] = @ \cup {MentionsKey}]
  /\ inactive' = inactive \ {IdOf(name)}
  /\ UNCHANGED <<stored, resolved, described, seen, feed>>

Release(s, persistent) ==
  /\ bound[s] # Nobody
  /\ bound' = [bound EXCEPT ![s] = Nobody]
  /\ inactive' = IF persistent THEN inactive ELSE inactive \cup {bound[s]}
  /\ UNCHANGED <<members, stored, resolved, described, subs, seen, feed>>

\* seedAgent, seedHuman: unlike acquire they ask nothing of the name.
Seed(name, kind) ==
  /\ Named(name) = {} /\ Len(members) < MaxMembers
  /\ members' = Registered(name, kind)
  /\ UNCHANGED <<inactive, stored, resolved, described, bound, subs, seen, feed>>

DeactivateAgent(i) ==
  /\ i \in DOMAIN members \ inactive /\ members[i].kind = "agent"
  /\ inactive' = inactive \cup {i}
  /\ UNCHANGED <<members, stored, resolved, described, bound, subs, seen, feed>>

-----------------------------------------------------------------------------
(* Mentions *)

\* Who a plain mention of the name reaches: the case does not matter, the first
\* registered wins, and a deactivated member no longer answers.
Answers(name) == {i \in DOMAIN members \ inactive : Fold[members[i].name] = Fold[name]}

MentionsIn(body) ==
  {Min(Answers(n)) : n \in {k \in body.tokens \ {"all"} : Answers(k) # {}}}
    \cup (IF "all" \in body.tokens THEN {Wildcard} ELSE {})

DeadMentions(body) == {n \in body.tokens \ {"all"} : Answers(n) = {}}

MentionsIdentity(mentions, me) == mentions \cap {Wildcard, me} # {}

NotifiesIdentity(mentions, me, holdsChannel) ==
  IF holdsChannel THEN MentionsIdentity(mentions, me) ELSE me \in mentions

-----------------------------------------------------------------------------
(* Fan-out: what a seat is sent of a post or a reaction *)

HoldsChannel(s, ch) == \E k \in subs[s] : k.ch = ch

MatchesStaticSub(s, m) ==
  \/ ChannelKey(m.ch) \in subs[s]
  \/ m.thread # NoThread /\ ThreadKey(m.ch, m.thread) \in subs[s]
  \/ /\ MentionsKey \in subs[s] /\ bound[s] # Nobody
     /\ NotifiesIdentity(m.mentions, bound[s], HoldsChannel(s, m.ch))

FirstOfItsTopic(s, m) ==
  /\ m.thread # NoThread /\ NewTopicsKey(m.ch) \in subs[s]
  /\ <<m.ch, m.thread>> \notin seen[s]

OnPost(s, m) ==
  IF ~(FirstOfItsTopic(s, m) \/ MatchesStaticSub(s, m)) THEN << >>
  ELSE <<Event("message-posted", m.id)>>
         \o (IF bound[s] # Nobody /\ MentionsIdentity(m.mentions, bound[s])
             THEN <<Event("mention-received", m.id)>> ELSE << >>)

OnReaction(s, kind, m) == IF MatchesStaticSub(s, m) THEN <<Event(kind, m.id)>> ELSE << >>

\* To the stream that has the hook, or to the queue when none has.
Dispatch(events) ==
  /\ waiting' = [s \in Seats |-> IF slot[s] = NoStream THEN waiting[s] \o events[s]
                                                       ELSE waiting[s]]
  /\ \A s \in Seats : Len(waiting'[s]) <= MaxEvents

Deliver(sender, ch, mentions, thread, notice) ==
  LET m == [id |-> Len(byId) + 1, ch |-> ch, thread |-> thread, sender |-> sender,
            mentions |-> mentions, notice |-> notice]
  IN /\ Len(byId) < MaxMessages
     /\ byId' = Append(byId, m)
     /\ buckets' = [buckets EXCEPT ![ch] = Append(@, m)]
     /\ seen' = [s \in Seats |-> IF FirstOfItsTopic(s, m) THEN seen[s] \cup {<<ch, thread>>}
                                                          ELSE seen[s]]
     /\ Dispatch([s \in Seats |-> OnPost(s, m)])

-----------------------------------------------------------------------------
(* Publisher *)

MayPost(body) == ~body.long /\ DeadMentions(body) = {}
KeptThread(thread) == IF thread = NoThread THEN NoThread ELSE Kept[thread]

Post(s, ch, thread, body) ==
  /\ bound[s] # Nobody /\ MayPost(body)
  /\ Deliver(bound[s], ch, MentionsIn(body), KeptThread(thread), "none")
  /\ UNCHANGED <<people, reactions, resolved, described, bound, subs, slot, open>>

\* A member no seat is bound to posts: neither length nor mentions are looked at.
PeerPost(i, ch, thread, body) ==
  /\ i \in DOMAIN members
  /\ Deliver(i, ch, MentionsIn(body), thread, "none")
  /\ UNCHANGED <<people, reactions, resolved, described, bound, subs, slot, open>>

MayEdit(s, id, body) ==
  /\ bound[s] # Nobody /\ id \in DOMAIN byId /\ MayPost(body)
  /\ byId[id].sender = bound[s]

Edit(s, id, body) ==
  /\ MayEdit(s, id, body)
  /\ byId' = [byId EXCEPT ![id].mentions = MentionsIn(body)]
  /\ buckets' = [buckets EXCEPT ![byId[id].ch] =
                   [i \in DOMAIN @ |-> IF @[i] = byId[id] THEN byId'[id] ELSE @[i]]]
  /\ UNCHANGED <<people, reactions, resolved, described, bound, subs, seen, feed>>

React(s, id, emoji) ==
  /\ bound[s] # Nobody /\ id \in DOMAIN byId
  /\ <<id, emoji, bound[s]>> \notin reactions
  /\ reactions' = reactions \cup {<<id, emoji, bound[s]>>}
  /\ Dispatch([t \in Seats |-> OnReaction(t, "reaction-added", byId[id])])
  /\ UNCHANGED <<people, byId, buckets, resolved, described, bound, subs, seen, slot, open>>

Unreact(s, id, emoji) ==
  /\ bound[s] # Nobody /\ <<id, emoji, bound[s]>> \in reactions
  /\ reactions' = reactions \ {<<id, emoji, bound[s]>>}
  /\ Dispatch([t \in Seats |-> OnReaction(t, "reaction-removed", byId[id])])
  /\ UNCHANGED <<people, byId, buckets, resolved, described, bound, subs, seen, slot, open>>

HasThread(ch, thread) == \E i \in DOMAIN buckets[ch] : buckets[ch][i].thread = thread

\* The notice mentions silently, which reaches nobody.
SetThreadResolved(s, ch, thread, wanted) ==
  /\ bound[s] # Nobody /\ HasThread(ch, thread)
  /\ IF (<<ch, thread>> \in resolved) = wanted
     THEN UNCHANGED <<byId, buckets, resolved, seen, waiting>>
     ELSE /\ resolved' = IF wanted THEN resolved \cup {<<ch, thread>>}
                                   ELSE resolved \ {<<ch, thread>>}
          /\ Deliver(NotificationBot, ch, {}, thread, IF wanted THEN "resolved" ELSE "unresolved")
  /\ UNCHANGED <<people, reactions, described, bound, subs, slot, open>>

SetChannelDescription(s, ch, text) ==
  /\ bound[s] # Nobody /\ text \in Storable \cup {NoText}
  /\ described' = [described EXCEPT ![ch] = text]
  /\ UNCHANGED <<people, stored, resolved, bound, subs, seen, feed>>

-----------------------------------------------------------------------------
(* Inbox *)

Subscribe(s, key) ==
  /\ bound[s] # Nobody
  /\ subs' = [subs EXCEPT ![s] = @ \cup {key}]
  /\ UNCHANGED <<people, stored, resolved, described, bound, seen, feed>>

Without(keys, key) ==
  IF key.kind = "channel" THEN {k \in keys : k.ch # key.ch} ELSE keys \ {key}

Unsubscribe(s, key) ==
  /\ bound[s] # Nobody
  /\ subs' = [subs EXCEPT ![s] = Without(@, key)]
  /\ UNCHANGED <<people, stored, resolved, described, bound, seen, feed>>

\* events(): drain what waited, then take the hook from whoever had it.
OpenStream(s) ==
  LET n == Max(open[s] \cup {slot[s]}) + 1
  IN /\ n <= MaxStreams
     /\ waiting' = [waiting EXCEPT ![s] = << >>]
     /\ open' = [open EXCEPT ![s] = @ \cup {n}]
     /\ slot' = [slot EXCEPT ![s] = n]
     /\ UNCHANGED <<people, stored, resolved, described, bound, subs, seen>>

CloseStream(s, n) ==
  /\ n \in open[s]
  /\ open' = [open EXCEPT ![s] = @ \ {n}]
  /\ slot' = IF slot[s] = n THEN [slot EXCEPT ![s] = NoStream] ELSE slot
  /\ UNCHANGED <<people, stored, resolved, described, bound, subs, seen, waiting>>

\* What a replay hands over of a message.
ReplayEvents(s, m) ==
  <<Event("message-posted", m.id)>>
    \o (IF NotifiesIdentity(m.mentions, bound[s], HoldsChannel(s, m.ch))
        THEN <<Event("mention-received", m.id)>> ELSE << >>)

AllStored == UNION {Range(buckets[ch]) : ch \in ChannelNames}

-----------------------------------------------------------------------------
(* History *)

\* The places a thread's messages have in their channel, which come in that order.
ReadThread(ch, thread) == {p \in DOMAIN buckets[ch] : buckets[ch][p].thread = thread}

SameThread(m, other) == m.ch = other.ch /\ m.thread = other.thread

ThreadedOf(sender) == {m \in AllStored : m.sender = sender /\ m.thread # NoThread}

NewestFirst(S) ==
  [k \in 1 .. Cardinality(S) |-> CHOOSE m \in S : Cardinality({n \in S : n.id > m.id}) = k - 1]

\* The walk keeps the first message it meets of each thread, and stops at the limit.
FirstPerThread(messages, limit) ==
  LET told[n \in 0 .. Len(messages)] ==
        IF n = 0 THEN << >>
        ELSE IF \/ Len(told[n - 1]) = limit
                \/ \E j \in DOMAIN told[n - 1] : SameThread(told[n - 1][j], messages[n])
             THEN told[n - 1] ELSE Append(told[n - 1], messages[n])
  IN told[Len(messages)]

\* The threads the sender posted in last, each with the sender's last message in
\* it, newest first.
RecentThreads(sender, limit) == FirstPerThread(NewestFirst(ThreadedOf(sender)), limit)

-----------------------------------------------------------------------------
(* The seats and their peers *)

Identity ==
  \/ \E s \in Seats : \/ \E name \in Acquirable : Acquire(s, name)
                      \/ \E persistent \in BOOLEAN : Release(s, persistent)
  \/ \E name \in Names, kind \in Kinds : Seed(name, kind)
  \/ \E i \in DOMAIN members : DeactivateAgent(i)

Publishes ==
  \/ \E ch \in ChannelNames, t \in Threads \cup {NoThread}, b \in Bodies :
       \/ \E s \in Seats : Post(s, ch, t, b)
       \/ \E i \in DOMAIN members \ Range(bound) : PeerPost(i, ch, t, b)
  \/ \E s \in Seats, id \in DOMAIN byId :
       \/ \E b \in Bodies : Edit(s, id, b)
       \/ \E e \in Emojis : React(s, id, e) \/ Unreact(s, id, e)
  \/ \E s \in Seats, ch \in ChannelNames :
       \/ \E t \in Threads, wanted \in BOOLEAN : SetThreadResolved(s, ch, t, wanted)
       \/ \E text \in Texts \cup {NoText} : SetChannelDescription(s, ch, text)

Listens(s) ==
  \/ \E key \in Askable : Subscribe(s, key) \/ Unsubscribe(s, key)
  \/ OpenStream(s)
  \/ \E n \in open[s] : CloseStream(s, n)

MemoryNext == Identity \/ Publishes \/ \E s \in Seats : Listens(s)

MemorySpec == MemoryInit /\ [][MemoryNext]_memoryVars

-----------------------------------------------------------------------------
(* What must hold *)

\* Every variable has its type.
PeopleType ==
  /\ members \in Seq([name : Names, kind : Kinds]) /\ Len(members) <= MaxMembers
  /\ inactive \subseteq DOMAIN members
  /\ bound \in [Seats -> {Nobody} \cup DOMAIN members]
MessagesType ==
  /\ byId \in Seq(StoredMessage) /\ Len(byId) <= MaxMessages
  /\ buckets \in [ChannelNames -> Seq(StoredMessage)]
  /\ reactions \subseteq (DOMAIN byId) \X Emojis \X MemberIds
ChannelsType ==
  /\ resolved \subseteq ChannelNames \X (Threads \cup {NoThread})
  /\ described \in [ChannelNames -> Storable \cup {NoText}]
FeedType ==
  /\ subs \in [Seats -> SUBSET Keys]
  /\ seen \in [Seats -> SUBSET (ChannelNames \X Threads)]
  /\ \A s \in Seats : slot[s] \in open[s] \cup {NoStream}
  /\ waiting \in [Seats -> Seq([kind : EventKinds, id : MessageIds])]
MemoryTypeOK == PeopleType /\ MessagesType /\ ChannelsType /\ FeedType

\* No event waits while a stream has the hook, whatever order streams open and
\* close in: what came between two streams is given to the next one, before what
\* comes after (memory/adapter.ts: "the next events() subscription drains it").
NothingWaitsBehindAStream == \A s \in Seats : slot[s] # NoStream => waiting[s] = << >>

\* The index by id and the buckets the readers walk hold the same messages,
\* whatever was edited.
TwoViewsAgree ==
  /\ AllStored = Range(byId)
  /\ \A ch \in ChannelNames :
       buckets[ch] = SelectSeq(byId, LAMBDA m : m.ch = ch)

\* The last notice in a thread says whether the thread is resolved, and a thread
\* without one is not.
LastNotice(ch, thread) ==
  LET told == {m \in AllStored : m.ch = ch /\ m.thread = thread /\ m.notice # "none"}
  IN IF told = {} THEN "unresolved" ELSE byId[Max({m.id : m \in told})].notice
NoticesTellTheStatus ==
  \A ch \in ChannelNames, thread \in Threads :
    LastNotice(ch, thread) = "resolved" <=> <<ch, thread>> \in resolved

\* A message that is posted while a seat is bound and hears mentions is announced
\* live as a mention exactly when a replay would announce it: the two are written
\* as different tests in the code, one behind the delivery filter, one without it.
ReplayMatchesLive ==
  [][\A s \in Seats :
       Len(byId') > Len(byId) /\ bound[s] # Nobody /\ MentionsKey \in subs[s]
         => LET m == byId'[Len(byId')]
                mention == Event("mention-received", m.id)
            IN mention \in Range(OnPost(s, m)) <=> mention \in Range(ReplayEvents(s, m))]_memoryVars
=============================================================================
