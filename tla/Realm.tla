-------------------------------- MODULE Realm --------------------------------
(***************************************************************************)
(* The stateful Zulip realm the adapter's contract tests run against       *)
(* (zulip/in-process-realm.ts): users and their API keys, channels,        *)
(* messages, reactions and event queues, one action per route.             *)
(*                                                                         *)
(* A request is authenticated against the state of one moment and handled  *)
(* in another: "call" holds it in between.  Everything a handler changes   *)
(* it changes at once (SubscriptionRef.modifyEffect), except the long poll *)
(* of GET /events, which prunes, waits and answers or beats in steps.      *)
(*                                                                         *)
(* Ids count up per kind; the realm's one serial gives every kind fresh    *)
(* and growing ids as well.  A body is the set of names it mentions, a     *)
(* topic its clean name and whether it is marked resolved.                 *)
(***************************************************************************)
EXTENDS Integers, Sequences, FiniteSets, FiniteSetsExt, Functions

CONSTANTS
  Names,        \* full names of users
  Short,        \* the short name of a name: what its e-mail is built from
  ChannelNames, \* names of channels
  TopicNames,   \* clean names of topics
  Emojis,
  Kinds,        \* bound: kinds of user a test adds
  Asked,        \* bound: sets of event types a client registers for
  Clients,      \* bound: requests in flight at once
  MaxUsers,     \* bound: users ever created, the two of Init included
  MaxKeys,      \* bound: API keys ever made
  MaxPosts,     \* bound: messages ever posted
  MaxEdits,     \* bound: changes made to messages once stored
  MaxQueues,    \* bound: event queues ever registered
  MaxEvents     \* bound: events one queue is ever given

ASSUME RealmAssumption ==
  /\ DOMAIN Short = Names
  /\ Kinds \subseteq {"human", "bot"}
  /\ Asked \subseteq SUBSET {"message", "reaction"}
  /\ {MaxUsers, MaxKeys, MaxPosts, MaxEdits, MaxQueues, MaxEvents} \subseteq Nat
  /\ MaxUsers >= 2 /\ MaxKeys >= 2

VARIABLES
  users,     \* every user created, by its id
  keys,      \* how many API keys were made; a key is its number
  channels,  \* channel name -> the ids of its subscribers
  messages,  \* every message stored, by its id
  edits,     \* how many changes were made to stored messages
  queues,    \* queue id -> event queue; "answered" is history: the ids of
             \* its events that reached the client
  registered,\* how many queues were registered
  call       \* each request in flight

people == <<users, keys>>
content == <<channels, messages, edits>>
delivery == <<queues, registered>>
realmVars == <<users, keys, channels, messages, edits, queues, registered>>
vars == <<users, keys, channels, messages, edits, queues, registered, call>>

-----------------------------------------------------------------------------
(* What the realm keeps *)

UserIds == 1 .. MaxUsers
MessageIds == 1 .. MaxPosts + MaxEdits
QueueIds == 1 .. MaxQueues
EventIds == 0 .. MaxEvents - 1
Minter == 1
NotificationBot == 2
NoOwner == 0
NoQueue == 0

Topic == [name : TopicNames, resolved : BOOLEAN]
Body == SUBSET Names

RealmUser ==
  [email : (Range(Short) \cup {"Minter", "Notification Bot"}) \X {"bot", "human"},
   name : Names \cup {"Minter", "Notification Bot"},
   kind : {"human", "bot", "notification-bot"},
   active : BOOLEAN, key : 1 .. MaxKeys, owner : UserIds \cup {NoOwner}]

RealmMessage ==
  [sender : UserIds, channel : ChannelNames, topic : Topic, body : Body,
   mentioned : SUBSET UserIds, receivedBy : SUBSET UserIds,
   reactions : SUBSET (UserIds \X Emojis)]

QueuedEvent ==
  [id : EventIds, type : {"message", "reaction", "heartbeat"},
   message : MessageIds \cup {0}]

NewUser(name, kind, owner) ==
  [email |-> <<Short[name], kind>>, name |-> name, kind |-> kind, active |-> TRUE,
   key |-> keys + 1, owner |-> owner]

Idle == [pc |-> "free", user |-> NoOwner, queue |-> NoQueue, ack |-> -1]

\* No channel, message, queue or request.
StartsQuiet ==
  /\ channels = [c \in {} |-> {}]
  /\ messages = << >> /\ edits = 0
  /\ queues = [q \in {} |-> {}] /\ registered = 0
  /\ call = [c \in Clients |-> Idle]

FirstUsers ==
  << [email |-> <<"Minter", "human">>, name |-> "Minter", kind |-> "human",
      active |-> TRUE, key |-> 1, owner |-> NoOwner],
     [email |-> <<"Notification Bot", "bot">>, name |-> "Notification Bot",
      kind |-> "notification-bot", active |-> TRUE, key |-> 2, owner |-> NoOwner] >>

Init ==
  /\ users = FirstUsers
  /\ keys = 2
  /\ StartsQuiet

-----------------------------------------------------------------------------
(* Users and keys *)

ActiveIds(ids) == {u \in ids \cap DOMAIN users : users[u].active}

AddUser(name, kind) ==
  /\ Len(users) + 1 \in UserIds /\ keys < MaxKeys
  /\ users' = Append(users, NewUser(name, kind, IF kind = "bot" THEN Minter ELSE NoOwner))
  /\ keys' = keys + 1

\* Mistaken variant: a deactivated bot's e-mail may be taken again.
MintRefused_ByName(name) ==
  \E u \in DOMAIN users : users[u].active /\ users[u].name = name

\* Names are compared with their case folded, and names that fold alike have
\* one short name.
MintRefused(name) ==
  \/ \E u \in DOMAIN users : users[u].email = <<Short[name], "bot">>
  \/ \E u \in DOMAIN users : users[u].active /\ users[u].name = name

PostBots(caller, name) ==
  /\ ~MintRefused(name)
  /\ Len(users) + 1 \in UserIds /\ keys < MaxKeys
  /\ users' = Append(users, NewUser(name, "bot", caller))
  /\ keys' = keys + 1

\* access_bot_by_id; no user of this realm is an administrator.
AccessBot(caller, u) ==
  /\ u \in DOMAIN users
  /\ users[u].kind = "bot"
  /\ users[u].owner = caller

\* Mistaken variant: the key that is there is answered again.
RegenerateKey_Same(caller, u) ==
  /\ AccessBot(caller, u)
  /\ UNCHANGED people

RegenerateKey(caller, u) ==
  /\ AccessBot(caller, u)
  /\ keys < MaxKeys /\ keys' = keys + 1
  /\ users' = [users EXCEPT ![u].key = keys + 1]

RevokeApiKey(u) ==
  /\ keys < MaxKeys /\ keys' = keys + 1
  /\ users' = [users EXCEPT ![u].key = keys + 1]

Deactivate(u) ==
  /\ users' = [users EXCEPT ![u].active = FALSE]
  /\ queues' = [q \in {p \in DOMAIN queues : queues[p].owner # u} |-> queues[q]]
  /\ UNCHANGED <<keys, registered>>

DeleteBot(caller, u) ==
  /\ AccessBot(caller, u)
  /\ Deactivate(u)

ReactivateRefused(caller, u) ==
  \/ u \notin DOMAIN users
  \/ users[u].owner # caller
  \/ users[u].active
  \/ /\ users[u].kind # "human"
     /\ \E v \in DOMAIN users : users[v].active /\ users[v].name = users[u].name

Reactivate(caller, u) ==
  /\ ~ReactivateRefused(caller, u)
  /\ users' = [users EXCEPT ![u].active = TRUE]
  /\ UNCHANGED keys

-----------------------------------------------------------------------------
(* Delivery *)

Enqueued(queue, type, m) ==
  [queue EXCEPT !.lastIssued = @ + 1,
                !.pending = Append(@, [id |-> queue.lastIssued + 1,
                                       type |-> type, message |-> m])]

Wants(queue, type) == type \in queue.types

\* Every queue of the audience that wants the event is handed it; a state in
\* which some queue's events are used up has no successor here.
Deliver(audience, type, m) ==
  LET reached == {q \in DOMAIN queues :
                    queues[q].owner \in audience /\ Wants(queues[q], type)} IN
  /\ \A q \in reached : queues[q].lastIssued + 1 \in EventIds
  /\ queues' = [q \in DOMAIN queues |->
       IF q \in reached THEN Enqueued(queues[q], type, m) ELSE queues[q]]

\* The last user of that name, if it is active: a deactivated user's mention
\* is rendered silent.
Rendered(body) ==
  ActiveIds({Max({u \in DOMAIN users : users[u].name = n}) :
    n \in {b \in body : \E u \in DOMAIN users : users[u].name = b}})

Bots(ids) == {u \in ids : users[u].kind = "bot"}

\* Mistaken variant: whoever is subscribed or mentioned, active or not.
Stored_All(sender, ch, topic, body) ==
  LET mentioned == Rendered(body) IN
  [sender |-> sender, channel |-> ch, topic |-> topic, body |-> body,
   mentioned |-> mentioned, reactions |-> {},
   receivedBy |-> channels[ch] \cup Bots(mentioned)]

Stored(sender, ch, topic, body) ==
  LET mentioned == Rendered(body) IN
  [sender |-> sender, channel |-> ch, topic |-> topic, body |-> body,
   mentioned |-> mentioned, reactions |-> {},
   receivedBy |-> ActiveIds(channels[ch] \cup Bots(mentioned))]

StoreMessage(others, sender, ch, topic, body) ==
  LET m == Stored(sender, ch, topic, body)
      id == Len(others) + 1
  IN /\ messages' = Append(others, m)
     /\ Deliver(m.receivedBy, "message", id)

ReactionAudience(m) == ActiveIds(m.receivedBy \cup channels[m.channel])

-----------------------------------------------------------------------------
(* Channels and messages *)

Subscribers(ch) == IF ch \in DOMAIN channels THEN channels[ch] ELSE {}

AddChannel(ch) ==
  channels' = [c \in DOMAIN channels \cup {ch} |-> Subscribers(c)]

\* Subscribing to a channel that does not exist creates it.
Subscribe(caller, wanted) ==
  channels' = [c \in DOMAIN channels \cup wanted |->
    Subscribers(c) \cup (IF c \in wanted THEN {caller} ELSE {})]

\* One unknown channel refuses the whole request.
Unsubscribe(caller, dropped) ==
  /\ dropped \subseteq DOMAIN channels
  /\ channels' = [c \in DOMAIN channels |->
       channels[c] \ (IF c \in dropped THEN {caller} ELSE {})]

PostMessage(caller, ch, topic, body) ==
  /\ ch \in DOMAIN channels
  /\ Cardinality({m \in DOMAIN messages : messages[m].sender # NotificationBot}) < MaxPosts
  /\ StoreMessage(messages, caller, ch, topic, body)

Moved(m, other, mode) ==
  \/ other = m
  \/ /\ messages[other].channel = messages[m].channel
     /\ messages[other].topic = messages[m].topic
     /\ mode = "change_all" \/ (mode = "change_later" /\ other > m)

Resolves(old, new) == new.resolved # old.resolved /\ new.name = old.name

EditBody(caller, m, body) ==
  /\ m \in DOMAIN messages
  /\ messages[m].sender = caller
  /\ messages' = [messages EXCEPT ![m].body = body, ![m].mentioned = Rendered(body)]
  /\ UNCHANGED queues

\* A topic is moved by anyone; where the move marks or unmarks it resolved, the
\* notification bot says so in the topic's new place.
EditTopic(caller, m, new, mode) ==
  /\ m \in DOMAIN messages
  /\ LET renamed == [o \in DOMAIN messages |->
           IF Moved(m, o, mode) THEN [messages[o] EXCEPT !.topic = new] ELSE messages[o]]
     IN IF Resolves(messages[m].topic, new)
          THEN StoreMessage(renamed, NotificationBot, messages[m].channel, new, {})
          ELSE messages' = renamed /\ UNCHANGED queues

React(caller, op, m, emoji) ==
  /\ m \in DOMAIN messages
  /\ (op = "add") = (<<caller, emoji>> \notin messages[m].reactions)
  /\ LET reacted == [messages[m] EXCEPT
           !.reactions = IF op = "add" THEN @ \cup {<<caller, emoji>>}
                                       ELSE @ \ {<<caller, emoji>>},
           !.receivedBy = @ \cup {caller}]
     IN /\ messages' = [messages EXCEPT ![m] = reacted]
        /\ Deliver(ReactionAudience(reacted), "reaction", m)

-----------------------------------------------------------------------------
(* Event queues *)

Register(caller, types) ==
  /\ registered + 1 \in QueueIds
  /\ registered' = registered + 1
  /\ queues' = [q \in DOMAIN queues \cup {registered + 1} |->
       IF q = registered + 1
         THEN [owner |-> caller, types |-> types, lastIssued |-> -1, pending |-> << >>,
               answered |-> {}]
         ELSE queues[q]]

OwnQueue(caller, q) == q \in DOMAIN queues /\ queues[q].owner = caller

DeleteQueue(caller, q) ==
  /\ OwnQueue(caller, q)
  /\ queues' = [p \in DOMAIN queues \ {q} |-> queues[p]]
  /\ UNCHANGED registered

\* The pending events with a later id than ack.  A queue holds its events in the
\* order of their ids, so the filter leaves out the first few.
After(q, ack) ==
  LET p == queues[q].pending
      seen == Cardinality({i \in DOMAIN p : p[i].id <= ack})
  IN SubSeq(p, seen + 1, Len(p))
IdsOf(events) == {events[i].id : i \in DOMAIN events}

Newest(q) == Max(queues[q].answered \cup {-1})

\* Mistaken variant: a poll is taken to have acknowledged all that is pending.
PollPrunes_All(c, q) ==
  /\ OwnQueue(call[c].user, q)
  /\ queues' = [queues EXCEPT ![q].pending = << >>]
  /\ call' = [call EXCEPT ![c].pc = "waiting", ![c].queue = q, ![c].ack = Newest(q)]

\* A client polls from the newest event it was answered.
PollPrunes(c, q) ==
  /\ OwnQueue(call[c].user, q)
  /\ queues' = [queues EXCEPT ![q].pending = After(q, Newest(q))]
  /\ call' = [call EXCEPT ![c].pc = "waiting", ![c].queue = q, ![c].ack = Newest(q)]

At(c, where) == call[c].pc = where
Ends(c) == call' = [call EXCEPT ![c] = Idle]

\* What of an answer reaches the client: all of it, or nothing.
Reaching(events) == {events, {}}

PollAnswers(c) ==
  /\ At(c, "waiting")
  /\ LET q == call[c].queue
         ready == After(q, call[c].ack)
     IN /\ OwnQueue(call[c].user, q)
        /\ ready # << >>
        /\ \E heard \in Reaching(IdsOf(ready)) :
             queues' = [queues EXCEPT ![q].answered = @ \cup heard]
  /\ Ends(c)
  /\ UNCHANGED <<people, content, registered>>

\* Waiting or about to beat, the poll finds its queue gone and is refused.
PollRefused(c) ==
  /\ call[c].pc \in {"waiting", "timed out"}
  /\ ~OwnQueue(call[c].user, call[c].queue)
  /\ Ends(c)
  /\ UNCHANGED realmVars

PollTimesOut(c) ==
  /\ At(c, "waiting")
  /\ call' = [call EXCEPT ![c].pc = "timed out"]
  /\ UNCHANGED realmVars

\* The heartbeat takes the queue's next event id and is answered alone.
PollBeats(c) ==
  /\ At(c, "timed out")
  /\ LET q == call[c].queue
         beaten == Enqueued(queues[q], "heartbeat", 0)
     IN /\ OwnQueue(call[c].user, q)
        /\ beaten.lastIssued \in EventIds
        /\ \E heard \in Reaching({beaten.lastIssued}) :
             queues' = [queues EXCEPT ![q] = [beaten EXCEPT !.answered = @ \cup heard]]
  /\ Ends(c)
  /\ UNCHANGED <<people, content, registered>>

-----------------------------------------------------------------------------
(* Requests *)

\* serve: the credentials of an active user, read now; the handler runs later.
Authenticates(c, u, key) ==
  /\ At(c, "free")
  /\ u \in DOMAIN users /\ users[u].active /\ users[u].key = key
  /\ call' = [call EXCEPT ![c] = [Idle EXCEPT !.pc = "authenticated", !.user = u]]
  /\ UNCHANGED realmVars

Handled(c) == At(c, "authenticated") /\ Ends(c)

HandlePeople(c) ==
  /\ Handled(c)
  /\ UNCHANGED content
  /\ LET me == call[c].user IN
       \/ \E n \in Names : PostBots(me, n) /\ UNCHANGED delivery
       \/ \E u \in DOMAIN users :
            \/ RegenerateKey(me, u) /\ UNCHANGED delivery
            \/ DeleteBot(me, u)
            \/ Reactivate(me, u) /\ UNCHANGED delivery

HandleContent(c) ==
  /\ Handled(c)
  /\ UNCHANGED <<people, registered>>
  /\ LET me == call[c].user IN
       \/ \E chs \in SUBSET ChannelNames \ {{}} :
            /\ Subscribe(me, chs) \/ Unsubscribe(me, chs)
            /\ UNCHANGED <<messages, edits, queues>>
       \/ \E ch \in DOMAIN channels, t \in Topic, b \in Body :
            PostMessage(me, ch, t, b) /\ UNCHANGED <<channels, edits>>
       \/ /\ edits < MaxEdits /\ edits' = edits + 1
          /\ UNCHANGED channels
          /\ \E m \in DOMAIN messages :
            \/ \E b \in Body : EditBody(me, m, b)
            \/ \E t \in Topic, mode \in {"change_one", "change_later", "change_all"} :
                 t # messages[m].topic /\ EditTopic(me, m, t, mode)
            \/ \E op \in {"add", "remove"}, e \in Emojis : React(me, op, m, e)

HandleQueues(c) ==
  /\ Handled(c)
  /\ UNCHANGED <<people, content>>
  /\ LET me == call[c].user IN
       \/ \E types \in Asked : Register(me, types)
       \/ \E q \in DOMAIN queues : DeleteQueue(me, q)

HandlePoll(c) ==
  /\ At(c, "authenticated")
  /\ \E q \in DOMAIN queues : PollPrunes(c, q)
  /\ UNCHANGED <<people, content, registered>>

\* A refusal changes nothing and answers the request.
Refuses(c) ==
  /\ Handled(c)
  /\ UNCHANGED realmVars

\* What a test does to the realm from outside, as an administrator would; it may
\* add a user under any name, held or not.
Fixture ==
  /\ UNCHANGED call
  /\ \/ \E n \in Names, k \in Kinds : AddUser(n, k) /\ UNCHANGED <<content, delivery>>
     \/ \E ch \in ChannelNames :
          AddChannel(ch) /\ UNCHANGED <<people, messages, edits, delivery>>
     \/ \E u \in DOMAIN users \ {Minter, NotificationBot} :
          \/ Deactivate(u) /\ UNCHANGED content
          \/ RevokeApiKey(u) /\ UNCHANGED <<content, delivery>>

Next ==
  \/ \E c \in Clients :
       \/ \E u \in DOMAIN users \ {NotificationBot} : Authenticates(c, u, users[u].key)
       \/ HandlePeople(c) \/ HandleContent(c) \/ HandleQueues(c) \/ HandlePoll(c)
       \/ Refuses(c)
       \/ PollAnswers(c) \/ PollRefused(c) \/ PollTimesOut(c) \/ PollBeats(c)
  \/ Fixture

Spec == Init /\ [][Next]_vars

-----------------------------------------------------------------------------
(* Properties *)

\* Every part of the state has its shape, ids are dense, and the events pending
\* in a queue are in the order they were issued, the newest last
\* (in-process-realm.ts enqueue, modify).
TypeOK ==
  /\ users \in Seq(RealmUser)
  /\ keys \in 2 .. MaxKeys
  /\ channels \in [DOMAIN channels -> SUBSET DOMAIN users]
  /\ DOMAIN channels \subseteq ChannelNames
  /\ messages \in Seq(RealmMessage)
  /\ DOMAIN queues \subseteq 1 .. registered
  /\ \A q \in DOMAIN queues :
       LET p == queues[q].pending IN
       /\ p \in Seq(QueuedEvent)
       /\ \A i \in DOMAIN p : p[i].id <= queues[q].lastIssued
       /\ \A i, j \in DOMAIN p : i < j => p[i].id < p[j].id
  /\ \A c \in Clients :
       call[c].pc \in {"free", "authenticated", "waiting", "timed out"}

\* An event a client has not reached is still in its queue, whatever answers
\* were lost and however many polls of the queue are open at once (pollEvents:
\* each poll prunes only up to the last_event_id it carries).
QueueKeepsTheUnread ==
  \A q \in DOMAIN queues :
    {e \in EventIds : Newest(q) < e /\ e <= queues[q].lastIssued}
      \subseteq IdsOf(queues[q].pending)

\* No request makes two active users of one name: they come to be by a fixture
\* alone, which asks nothing of the name, however minting, deactivation and
\* reactivation by owners interleave with it (POST /bots, POST
\* /users/{id}/reactivate, which asks it of no human; addUser).
Twins(u, v) == u # v /\ users[u].active /\ users[v].active /\ users[u].name = users[v].name
RequestsMakeNoTwins ==
  [][call' # call =>
       \A u, v \in DOMAIN users' :
         Twins(u, v)' => u \in DOMAIN users /\ v \in DOMAIN users /\ Twins(u, v)]_vars

\* Nothing but a heartbeat is queued for a user who is deactivated, not even in
\* a queue that a request authenticated before the deactivation registered
\* after it (activeIds in storeMessage and reactionAudience).
SilentToTheDeactivated ==
  [][\A q \in DOMAIN queues :
       /\ q \in DOMAIN queues'
       /\ queues'[q].lastIssued > queues[q].lastIssued
       /\ ~users[queues[q].owner].active
       => queues'[q].pending[Len(queues'[q].pending)].type = "heartbeat"]_vars

\* "Acknowledge what the client has seen, as Zulip prunes on each poll"
\* (in-process-realm.ts pollEvents): an event that left the queue was answered.
AckedIsSeen ==
  \A q \in DOMAIN queues :
    {e \in EventIds : e <= Newest(q)} \subseteq queues[q].answered \cup IdsOf(queues[q].pending)
=============================================================================
