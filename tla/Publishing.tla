----------------------------- MODULE Publishing -----------------------------
(***************************************************************************)
(* Publishing to and reading from a Zulip channel (zulip/adapter.ts:       *)
(* publisher, history; zulip/history-paging.ts; zulip/http.ts), and what   *)
(* the producer asks of the realm to map one event of its queue            *)
(* (zulip/events.ts: processSingleEvent).                                  *)
(*                                                                         *)
(* A call is a chain of requests, and the realm changes between them: a    *)
(* thread is resolved (its topic renamed) between the probe and the send,  *)
(* a member joins or leaves while a mention is checked, messages arrive    *)
(* while history is walked.  A request may be refused with 429, fail, or   *)
(* be carried out and its answer lost.                                     *)
(*                                                                         *)
(* One channel, one thread (topic "plain", or "done" once resolved) and    *)
(* one member who may be mentioned.                                        *)
(***************************************************************************)
EXTENDS Naturals, SequencesExt

CONSTANTS
  Callers,      \* who calls the adapter, one call at a time each
  Histories,    \* the messages the channel may hold at first
  Posts,        \* what is posted, or put in place of a body: [mention, threaded, long]
  Texts,        \* channel descriptions
  Reads,        \* what is read: records [form, since, until, cap]
  Events,       \* what is mapped: records [form, id, by, cached], id 0 for a
                \* message that is gone by then
  Budget,       \* the wait one request may spend on 429 answers
  Asked,        \* the waits a 429 answer asks for
  MinWait,      \* the least wait
  DefaultLimit, \* page size of a bounded read
  MaxPages,     \* pages of a bounded read
  MaxCalls,     \* bound: calls made
  MaxChanges    \* bound: changes of the member

\* The realm numbers its messages in the order they came in.
ASSUME PublishingAssumption ==
  /\ Histories \subseteq Seq([topic : {"plain", "done", "none"}, ts : Nat, mention : BOOLEAN])
  /\ \A h \in Histories : \A i, j \in DOMAIN h : i <= j => h[i].ts <= h[j].ts
  /\ Posts \subseteq [mention : BOOLEAN, threaded : BOOLEAN, long : BOOLEAN]
  /\ Reads \subseteq [form : {"plain", "any"}, since : Nat, until : Nat, cap : Nat]
  /\ Budget \in Nat /\ Asked \subseteq Nat
  /\ MinWait \in Nat \ {0} /\ DefaultLimit \in Nat \ {0} /\ MaxPages \in Nat \ {0}
  /\ MaxCalls \in Nat

VARIABLES
  msgs,     \* realm: the channel's messages by id: [topic, ts, mention]
  created,  \* realm: the channel exists
  described, \* realm: the channel's description
  member,   \* realm: the member who may be mentioned
  listed,   \* realm: that member as the cached GET /users has it
  known,    \* adapter: the channel as knownStreamsRef has it
  copy,     \* adapter: the member as the short-lived directory copy has it
  limit,    \* adapter: the realm's body cap has been read
  call,     \* each caller's call
  begun,    \* bound: calls made so far
  changes,  \* bound: changes of the member so far
  raced     \* history: a thread was forked by a post a rename overtook

realmVars == <<msgs, created, described, member, listed>>
cacheVars == <<known, copy, limit>>
vars == <<realmVars, cacheVars, call, begun, changes, raced>>

Statuses == {"absent", "active", "inactive"}

Idle == [at |-> "idle", op |-> "none", result |-> "none", waited |-> 0, tries |-> 0,
         mention |-> FALSE, threaded |-> TRUE, long |-> FALSE,
         form |-> "plain", target |-> "plain", text |-> "", id |-> 0, dir |-> "absent",
         since |-> 0, until |-> 0, cap |-> 0, by |-> "other", cached |-> FALSE,
         anchor |-> 0, left |-> 0, seen |-> {}, rows |-> {}, got |-> <<>>, told |-> {},
         \* history: what the realm did while the call ran
         dead |-> FALSE, lacked |-> FALSE, patched |-> FALSE, disturbed |-> FALSE,
         upto |-> 0, stored |-> 0]

Ids(form) == {i \in DOMAIN msgs : form = "any" \/ msgs[i].topic = form}
Holds(form) == Ids(form) # {}
MaxOf(S) == CHOOSE i \in S : \A j \in S : j <= i
MinOf(S) == CHOOSE i \in S : \A j \in S : i <= j
Forked == Holds("plain") /\ Holds("done")

Init ==
  /\ msgs \in Histories
  /\ created \in {b \in BOOLEAN : msgs # <<>> => b}
  /\ described = ""
  /\ member \in {s \in Statuses : (\E i \in DOMAIN msgs : msgs[i].mention) => s # "absent"}
  /\ listed = member
  /\ known = "none" /\ copy = "none" /\ limit = FALSE
  /\ call = [c \in Callers |-> Idle]
  /\ begun = 0 /\ changes = 0
  /\ raced = Forked

-----------------------------------------------------------------------------
(* Calls and their requests *)

\* The call moves on to its next request, whose waiting starts afresh.
Moves(c, r) == call' = [call EXCEPT ![c] = [r EXCEPT !.waited = 0, !.tries = 0]]
Goes(c, at) == Moves(c, [call[c] EXCEPT !.at = at])
Over(r, result) == [Idle EXCEPT !.at = "end", !.op = r.op, !.result = result, !.stored = r.stored,
                                !.form = r.form, !.target = r.target, !.text = r.text, !.dead = r.dead,
                                !.lacked = r.lacked, !.disturbed = r.disturbed]
Ends(c, result) == Moves(c, Over(call[c], result))
At(c, at) == call[c].at = at

Begins(c, r) ==
  /\ At(c, "idle") /\ begun < MaxCalls
  /\ begun' = begun + 1
  /\ Moves(c, [r EXCEPT !.dead = r.mention /\ member # "active",
                        !.lacked = r.op \in {"post", "describe"} /\ ~created,
                        !.upto = IF r.op = "read" THEN Len(msgs) ELSE 0])
  /\ UNCHANGED <<realmVars, cacheVars, changes, raced>>

BeginPost(c, p) ==
  Begins(c, [Idle EXCEPT !.op = "post", !.at = "limit", !.mention = p.mention,
                         !.threaded = p.threaded, !.long = p.long])
BeginEdit(c, p) ==
  Begins(c, [Idle EXCEPT !.op = "edit", !.at = "limit", !.mention = p.mention, !.long = p.long])
BeginDescribe(c, text) ==
  Begins(c, [Idle EXCEPT !.op = "describe", !.at = "channel", !.text = text])
BeginResolve(c, resolved) ==
  Begins(c, [Idle EXCEPT !.op = "resolve", !.at = "source",
                         !.form = IF resolved THEN "plain" ELSE "done",
                         !.target = IF resolved THEN "done" ELSE "plain"])

Bounded(r) == r.since # 0 \/ r.until # 0
PageSize(r) == IF Bounded(r) /\ DefaultLimit > r.cap THEN DefaultLimit ELSE r.cap
Walk(r, form) ==
  [r EXCEPT !.at = "walk", !.form = form, !.anchor = Len(msgs) + MaxCalls + 1,
            !.left = IF Bounded(r) THEN MaxPages ELSE 1,
            !.seen = {}, !.got = <<>>, !.told = {}]
BeginRead(c, p) ==
  Begins(c, Walk([Idle EXCEPT !.op = "read", !.since = p.since, !.until = p.until,
                              !.cap = p.cap], p.form))

\* The pending request goes to the realm: it is not answered from a cache.
Asking(c) ==
  CASE At(c, "limit")    -> ~limit
    [] At(c, "mentions") -> copy = "none"
    [] At(c, "channel")  -> known = "none"
    [] OTHER             -> call[c].at \notin {"idle", "end", "lost"}

\* Mistaken variant: a wait of nothing is taken as it is asked.
WaitOf_AsAsked(asked, waited) == IF asked < Budget - waited THEN asked ELSE Budget - waited

WaitOf(asked, waited) ==
  LET wanted == IF asked < MinWait THEN MinWait ELSE asked
  IN IF wanted < Budget - waited THEN wanted ELSE Budget - waited

\* 429: the same request is sent again after a wait, while the budget lasts.
RateLimited(c, asked) ==
  /\ Asking(c)
  /\ IF call[c].waited < Budget
     THEN call' = [call EXCEPT ![c].waited = @ + WaitOf(asked, @), ![c].tries = @ + 1]
     ELSE Ends(c, "failed")
  /\ UNCHANGED <<realmVars, cacheVars, begun, changes, raced>>

\* Mistaken variant: a request that got no answer is sent again.
NoAnswer_Resent(c) == Goes(c, IF At(c, "lost") THEN "send" ELSE call[c].at)

\* Any other refusal, and a request or an answer that was lost, ends the call.
NoAnswer(c) == Ends(c, "failed")

Fails(c) ==
  /\ Asking(c)
  /\ NoAnswer(c)
  /\ UNCHANGED <<realmVars, cacheVars, begun, changes, raced>>

-----------------------------------------------------------------------------
(* post, edit: the checks before the write *)

Checked(c) == IF call[c].op = "edit" THEN "rewrite" ELSE "channel"

RefuseOverlongBody(c) ==
  /\ At(c, "limit")
  /\ limit' = TRUE
  /\ IF call[c].long THEN Ends(c, "too long")
     ELSE Goes(c, IF call[c].mention THEN "mentions" ELSE Checked(c))
  /\ UNCHANGED <<realmVars, known, copy, begun, changes, raced>>

\* Mistaken variant: what the copy cannot place is refused there and then.
ValidateOutboundMentions_CopyOnly(c) ==
  LET seen == IF copy = "none" THEN listed ELSE copy
  IN /\ At(c, "mentions")
     /\ copy' = seen
     /\ IF seen = "active" THEN Goes(c, Checked(c)) ELSE Ends(c, "dead")
     /\ UNCHANGED <<realmVars, known, limit, begun, changes, raced>>

ValidateOutboundMentions(c) ==
  LET seen == IF copy = "none" THEN listed ELSE copy
  IN /\ At(c, "mentions")
     /\ copy' = IF seen = "active" THEN seen ELSE "none"
     /\ Goes(c, IF seen = "active" THEN Checked(c) ELSE "fresh")
     /\ UNCHANGED <<realmVars, known, limit, begun, changes, raced>>

DeadMentionsAfterFreshRead(c) ==
  /\ At(c, "fresh")
  /\ Moves(c, [call[c] EXCEPT !.dir = listed,
                             !.at = IF listed = "active" THEN Checked(c) ELSE "spans"])
  /\ UNCHANGED <<realmVars, cacheVars, begun, changes, raced>>

\* The renderer knows every member, and gives an inactive one no mention.
RenderedMentionIds(c) ==
  /\ At(c, "spans")
  /\ IF member = "active" /\ call[c].dir = "absent" THEN Goes(c, "cover") ELSE Ends(c, "dead")
  /\ UNCHANGED <<realmVars, cacheVars, begun, changes, raced>>

Cover(c) ==
  /\ At(c, "cover")
  /\ IF member = "active" THEN Goes(c, Checked(c)) ELSE Ends(c, "dead")
  /\ UNCHANGED <<realmVars, cacheVars, begun, changes, raced>>

Expire ==
  /\ copy # "none" /\ copy' = "none"
  /\ UNCHANGED <<realmVars, known, limit, call, begun, changes, raced>>

Streams == IF created THEN "there" ELSE "missing"
Onward(c) ==
  IF call[c].op = "describe" THEN "description"
  ELSE IF call[c].threaded THEN "probe" ELSE "send"

LookupChannel(c) ==
  /\ At(c, "channel")
  /\ known' = IF known = "none" THEN Streams ELSE known
  /\ Goes(c, IF known' = "there" THEN Onward(c) ELSE "refresh")
  /\ UNCHANGED <<realmVars, copy, limit, begun, changes, raced>>

RefreshKnownStreams(c) ==
  /\ At(c, "refresh")
  /\ known' = Streams
  /\ IF Streams = "there" THEN Goes(c, Onward(c)) ELSE Ends(c, "unknown channel")
  /\ UNCHANGED <<realmVars, copy, limit, begun, changes, raced>>

ListKnownChannels ==
  /\ known' = Streams
  /\ UNCHANGED <<realmVars, copy, limit, call, begun, changes, raced>>

-----------------------------------------------------------------------------
(* post: the thread's topic, the send and the read-back *)

Sends(c, form) == Moves(c, [call[c] EXCEPT !.at = "send", !.form = form])

AddressPlain(c) ==
  /\ At(c, "probe")
  /\ IF Holds("plain") THEN Sends(c, "plain") ELSE Goes(c, "resolved?")
  /\ UNCHANGED <<realmVars, cacheVars, begun, changes, raced>>

\* Mistaken variant: a thread not there under its plain name is taken to be new.
FormOf_Plain == "plain"

FormOf == IF Holds("done") THEN "done" ELSE "plain"

AddressResolved(c) ==
  /\ At(c, "resolved?")
  /\ Sends(c, FormOf)
  /\ UNCHANGED <<realmVars, cacheVars, begun, changes, raced>>

Now == IF msgs = <<>> THEN 1 ELSE msgs[Len(msgs)].ts
Message(topic, mention) == [topic |-> topic, ts |-> Now, mention |-> mention]

\* The realm stores the message; its answer arrives, or is lost.
Send(c) ==
  LET topic == IF call[c].threaded THEN call[c].form ELSE "none"
      sent  == [call[c] EXCEPT !.stored = @ + 1]
      after == IF call[c].threaded THEN [sent EXCEPT !.at = "stored"]
               ELSE Over(sent, "ok")
  IN /\ At(c, "send") /\ created
     /\ msgs' = Append(msgs, Message(topic, call[c].mention))
     /\ \E mine \in {after, [sent EXCEPT !.at = "lost"]} :
          call' = [d \in Callers |->
                     IF d = c THEN [mine EXCEPT !.waited = 0, !.tries = 0]
                     ELSE [call[d] EXCEPT !.disturbed = @ \/ call[d].op \in {"resolve", "read"}]]
     /\ raced' = (raced \/ (call[c].threaded /\ call[c].patched))
     /\ UNCHANGED <<created, described, member, listed, cacheVars, begun, changes>>

\* The message is stored and the client does not know it.
SendLost(c) ==
  /\ At(c, "lost")
  /\ NoAnswer(c)
  /\ UNCHANGED <<realmVars, cacheVars, begun, changes, raced>>

\* The topic the message was stored in is read back from it.
StoredRead(c) ==
  /\ At(c, "stored")
  /\ Ends(c, "ok")
  /\ UNCHANGED <<realmVars, cacheVars, begun, changes, raced>>

\* edit: the realm takes the new body; its own refusals are failures.
Rewrite(c) ==
  /\ At(c, "rewrite")
  /\ Ends(c, "ok")
  /\ UNCHANGED <<realmVars, cacheVars, begun, changes, raced>>

-----------------------------------------------------------------------------
(* setChannelDescription *)

AlreadyDescribed(text) == described = text

FetchChannelDescription(c) ==
  /\ At(c, "description")
  /\ IF AlreadyDescribed(call[c].text) THEN Ends(c, "ok") ELSE Goes(c, "describe")
  /\ UNCHANGED <<realmVars, cacheVars, begun, changes, raced>>

SetChannelDescription(c) ==
  /\ At(c, "describe")
  /\ described' = call[c].text
  /\ \E result \in {"ok", "failed"} :
       call' = [d \in Callers |->
                  IF d = c THEN Over(call[d], result)
                  ELSE [call[d] EXCEPT !.disturbed = @ \/ call[d].op = "describe"]]
  /\ UNCHANGED <<msgs, created, member, listed, cacheVars, begun, changes, raced>>

-----------------------------------------------------------------------------
(* resolveThread, unresolveThread *)

\* Mistaken variant: a thread already in the wanted form is left alone first.
FindSource_TargetFirst(c) ==
  /\ At(c, "source")
  /\ IF Holds(call[c].target) THEN Ends(c, "ok")
     ELSE IF Holds(call[c].form)
     THEN Moves(c, [call[c] EXCEPT !.at = "patch", !.id = MaxOf(Ids(call[c].form))])
     ELSE Goes(c, "target")
  /\ UNCHANGED <<realmVars, cacheVars, begun, changes, raced>>

FindSource(c) ==
  /\ At(c, "source")
  /\ IF Holds(call[c].form)
     THEN Moves(c, [call[c] EXCEPT !.at = "patch", !.id = MaxOf(Ids(call[c].form))])
     ELSE Goes(c, "target")
  /\ UNCHANGED <<realmVars, cacheVars, begun, changes, raced>>

FindTarget(c) ==
  /\ At(c, "target")
  /\ Ends(c, IF Holds(call[c].target) THEN "ok" ELSE "no thread")
  /\ UNCHANGED <<realmVars, cacheVars, begun, changes, raced>>

\* change_all: every message of the topic the message is in now is renamed, and
\* the realm notes the change in the topic it made.
Renamed(id, topic) ==
  LET old == msgs[id].topic
      all == [i \in DOMAIN msgs |->
                IF msgs[i].topic = old THEN [msgs[i] EXCEPT !.topic = topic] ELSE msgs[i]]
  IN IF old = topic THEN all ELSE Append(all, Message(topic, FALSE))

Patch(c) ==
  LET r == call[c]
  IN /\ At(c, "patch")
     /\ msgs' = Renamed(r.id, r.target)
     /\ \E result \in {"ok", "failed"} :
          call' = [d \in Callers |->
                     IF d = c THEN Over(r, result)
                     ELSE [call[d] EXCEPT !.patched = @ \/ call[d].op \in {"post", "read"},
                                          !.disturbed = @ \/ call[d].op \in {"resolve", "read"}]]
     /\ UNCHANGED <<created, described, member, listed, cacheVars, begun, changes, raced>>

-----------------------------------------------------------------------------
(* readThread, readChannel: the walk back through history *)

InWindow(r, i) ==
  /\ r.since # 0 => msgs[i].ts >= r.since
  /\ r.until # 0 => msgs[i].ts <= r.until

NewestOf(S, n) == {i \in S : Cardinality({j \in S : j > i}) < n}

Before(r) == {i \in Ids(r.form) : i < r.anchor}

\* The page before an anchor, and the anchor itself.
Page(r) == NewestOf(Before(r), PageSize(r)) \cup (Ids(r.form) \cap {r.anchor})

Ascending(S) ==
  [k \in 1 .. Cardinality(S) |-> CHOOSE i \in S : Cardinality({j \in S : j < i}) = k - 1]
LastOf(s, n) == IF Len(s) <= n THEN s ELSE SubSeq(s, Len(s) - n + 1, Len(s))

\* A thread not found under its plain name is read in its resolved form.
WalkEnds(c, r) ==
  IF r.got = <<>> /\ r.form = "plain" THEN Moves(c, Walk(r, "done"))
  ELSE Moves(c, [r EXCEPT !.at = "end", !.result = "ok", !.got = LastOf(@, r.cap), !.rows = {},
                          !.seen = {}])

\* Mistaken variant: a row as old as the bound ends the walk.
Crossed_Reached(r, rows) == r.since # 0 /\ msgs[MinOf(rows)].ts <= r.since

Crossed(r, rows) == r.since # 0 /\ msgs[MinOf(rows)].ts < r.since

Turned(r, kept, told) ==
  [r EXCEPT !.at = "walk", !.anchor = MinOf(r.rows), !.left = @ - 1, !.seen = @ \cup r.rows,
            !.got = Ascending(kept) \o @, !.told = @ \cup told]

Turn(c, r, kept, told) ==
  LET next == Turned(r, kept, told)
  IN IF r.left > 1 /\ ~Crossed(r, r.rows) /\ Len(next.got) < r.cap
     THEN Moves(c, next) ELSE WalkEnds(c, next)

Kept(r) == {i \in r.rows \ r.seen : InWindow(r, i)}

WalkPage(c) ==
  LET r == [call[c] EXCEPT !.rows = Page(call[c])]
  IN /\ At(c, "walk")
     /\ IF r.rows \subseteq r.seen THEN WalkEnds(c, r)
        ELSE IF \E i \in Kept(r) : msgs[i].mention
        THEN Moves(c, [r EXCEPT !.at = "render"])
        ELSE Turn(c, r, Kept(r), {})
     /\ UNCHANGED <<realmVars, cacheVars, begun, changes, raced>>

\* Mistaken variant: one rendered read serves the whole walk.
RenderedRows_FirstPage(r) == IF r.seen = {} THEN Page(r) ELSE {}

\* The rendered page is the same query asked again, of the realm as it is by then.
RenderedRows(r) == Page(r)

RenderPage(c) ==
  LET r == call[c]
  IN /\ At(c, "render")
     /\ Turn(c, r, Kept(r), {i \in Kept(r) \cap RenderedRows(r) : msgs[i].mention})
     /\ UNCHANGED <<realmVars, cacheVars, begun, changes, raced>>

End(c) ==
  /\ At(c, "end")
  /\ call' = [call EXCEPT ![c] = Idle]
  /\ UNCHANGED <<realmVars, cacheVars, begun, changes, raced>>

-----------------------------------------------------------------------------
(* The producer: one event of the queue becomes what the pump is given *)

\* The seat may or may not have seen the message a reaction is to.
BeginMap(c, e) ==
  /\ e.id = 0 \/ e.id \in DOMAIN msgs
  /\ e.by = "member" => member # "absent"
  /\ Begins(c, [Idle EXCEPT !.op = "map", !.at = "directory", !.form = e.form, !.id = e.id,
                            !.by = e.by, !.cached = e.cached,
                            !.mention = IF e.id = 0 THEN TRUE ELSE msgs[e.id].mention])

\* What the event amounts to: a message with its mentions, a reaction, nothing.
Maps(c, r, rows, told) ==
  Moves(c, [r EXCEPT !.at = "end", !.result = "ok", !.got = rows, !.told = told])
Rows(r) == IF r.id = 0 THEN <<>> ELSE <<r.id>>

Unnamed(r) == r.by = "member" /\ r.dir = "absent"

MapsOn(c, r) ==
  IF r.form = "other" THEN Maps(c, r, <<>>, {})
  ELSE IF r.form = "reaction" /\ ~r.cached THEN Moves(c, [r EXCEPT !.at = "ref"])
  ELSE IF Unnamed(r) THEN Moves(c, [r EXCEPT !.at = "author"])
  ELSE IF r.form = "message" /\ r.mention THEN Moves(c, [r EXCEPT !.at = "show"])
  ELSE Maps(c, r, Rows(r), {})

ResolveDirectory(c) ==
  /\ At(c, "directory")
  /\ MapsOn(c, [call[c] EXCEPT !.dir = listed])
  /\ UNCHANGED <<realmVars, cacheVars, begun, changes, raced>>

Located(r) == r.id # 0

\* A reaction to a message that is gone is dropped: it must not fail, or the
\* batch it is part of would be retried for ever.
FetchMessageRef(c) ==
  /\ At(c, "ref")
  /\ IF Located(call[c]) THEN MapsOn(c, [call[c] EXCEPT !.cached = TRUE])
     ELSE Maps(c, call[c], <<>>, {})
  /\ UNCHANGED <<realmVars, cacheVars, begun, changes, raced>>

CoverAuthor(c) ==
  /\ At(c, "author")
  /\ MapsOn(c, [call[c] EXCEPT !.dir = member])
  /\ UNCHANGED <<realmVars, cacheVars, begun, changes, raced>>

\* A message that is gone is handed over without its mentions.
ShowMessage(c) ==
  LET r == call[c]
  IN /\ At(c, "show")
     /\ IF r.id # 0 /\ r.dir = "absent" THEN Moves(c, [r EXCEPT !.at = "named"])
        ELSE Maps(c, r, Rows(r), Range(Rows(r)))
     /\ UNCHANGED <<realmVars, cacheVars, begun, changes, raced>>

CoverMentioned(c) ==
  LET r == call[c]
  IN /\ At(c, "named")
     /\ Maps(c, r, Rows(r), IF member = "absent" THEN {} ELSE {r.id})
     /\ UNCHANGED <<realmVars, cacheVars, begun, changes, raced>>

-----------------------------------------------------------------------------
(* The realm *)

\* Only a joining member may be missing from the cached list.
MemberChanges(status) ==
  /\ changes < MaxChanges /\ status # member /\ status # "absent"
  /\ changes' = changes + 1
  /\ member' = status
  /\ listed' \in IF member = "absent" THEN {"absent", status} ELSE {status}
  /\ call' = [c \in Callers |->
                [call[c] EXCEPT !.dead = @ \/ (call[c].mention /\ status # "active")]]
  /\ UNCHANGED <<msgs, created, described, cacheVars, begun, raced>>

CreateChannel ==
  /\ ~created /\ created' = TRUE
  /\ UNCHANGED <<msgs, described, member, listed, cacheVars, call, begun, changes, raced>>

-----------------------------------------------------------------------------

Begin(c) ==
  \/ \E p \in Posts : BeginPost(c, p)
  \/ \E p \in Posts : BeginEdit(c, p)
  \/ \E text \in Texts : BeginDescribe(c, text)
  \/ \E resolved \in BOOLEAN : BeginResolve(c, resolved)
  \/ \E p \in Reads : BeginRead(c, p)
  \/ \E e \in Events : BeginMap(c, e)

Answered(c) ==
  \/ RefuseOverlongBody(c) \/ ValidateOutboundMentions(c) \/ DeadMentionsAfterFreshRead(c)
  \/ RenderedMentionIds(c) \/ Cover(c) \/ LookupChannel(c) \/ RefreshKnownStreams(c)
  \/ AddressPlain(c) \/ AddressResolved(c) \/ Send(c) \/ SendLost(c) \/ StoredRead(c)
  \/ Rewrite(c) \/ FetchChannelDescription(c) \/ SetChannelDescription(c)
  \/ FindSource(c) \/ FindTarget(c) \/ Patch(c)
  \/ WalkPage(c) \/ RenderPage(c)
  \/ ResolveDirectory(c) \/ FetchMessageRef(c) \/ CoverAuthor(c) \/ ShowMessage(c)
  \/ CoverMentioned(c) \/ End(c)

Step(c) == Answered(c) \/ Fails(c) \/ \E asked \in Asked : RateLimited(c, asked)

Realm ==
  \/ \E status \in Statuses : MemberChanges(status)
  \/ CreateChannel \/ Expire \/ ListKnownChannels

Next == Realm \/ \E c \in Callers : Begin(c) \/ Step(c)

Spec == Init /\ [][Next]_vars

-----------------------------------------------------------------------------
(* Properties *)

TypeOK ==
  /\ \A i \in DOMAIN msgs : msgs[i].topic \in {"plain", "done", "none"}
  /\ created \in BOOLEAN /\ member \in Statuses /\ listed \in Statuses
  /\ known \in {"none", "there", "missing"} /\ copy \in Statuses \cup {"none"}
  /\ \A c \in Callers : call[c].waited \in Nat

Done(c, op, result) == At(c, "end") /\ call[c].op = op /\ call[c].result = result

\* A thread is split over its plain and its resolved topic only when a rename
\* landed between a post's probes and its send (addressThread).
ForkNeedsRace == Forked => raced

\* A post is stored at most once, whatever was lost or asked to wait, and one
\* reported as made is stored (sendWithRetry).
StoredOnce ==
  \A c \in Callers :
    /\ call[c].stored <= 1
    /\ Done(c, "post", "ok") => call[c].stored = 1

\* A write is refused for its mention or its channel only if the member was out
\* of reach, or the channel missing, at some moment of the call: a stale copy
\* is never the reason (validateOutboundMentions, lookupChannel).
RefusalIsFresh ==
  \A c \in Callers :
    /\ At(c, "end") /\ call[c].result = "dead" => call[c].dead
    /\ At(c, "end") /\ call[c].result = "unknown channel" => call[c].lacked

\* A resolution call that succeeded, and that nobody's write overtook, leaves
\* the whole thread in the wanted form: it also mends a forked one.
ResolveMendsTheThread ==
  \A c \in Callers :
    Done(c, "resolve", "ok") /\ ~call[c].disturbed
      => Holds(call[c].target) /\ ~Holds(call[c].form)

\* A description that was set, and that no other call set meanwhile, is the
\* channel's, whether or not it took a write (setChannelDescription).
DescriptionIsSet ==
  \A c \in Callers : Done(c, "describe", "ok") /\ ~call[c].disturbed => described = call[c].text

\* A read that no rename overtook returns, oldest first and each once, every
\* message of the window that was there when it began, but for those older
\* than the cap or the page budget let it reach (readWindow).
WalkLeavesNoHole ==
  \A c \in Callers : LET r == call[c] IN
    Done(c, "read", "ok") /\ ~r.patched =>
      /\ r.got = Ascending(Range(r.got))
      /\ \A i \in Range(r.got) : i \in Ids(r.form) /\ InWindow(r, i)
      /\ \A i \in Ids(r.form) \ Range(r.got) :
           \/ i > r.upto \/ ~InWindow(r, i)
           \/ Len(r.got) = r.cap /\ \A j \in Range(r.got) : i < j
           \/ r.left = 0 /\ i < r.anchor

\* A read that no write overtook names the mentions of every message it
\* returns, and a mapped event those of its message, also of a member the
\* cached list has lost (renderedContentForBatch, mentionsOfMessage, cover).
MentionsAreTold ==
  \A c \in Callers : LET r == call[c] IN
    \/ Done(c, "read", "ok") /\ ~r.disturbed
    \/ Done(c, "map", "ok") /\ r.form = "message"
    => \A i \in Range(r.got) : msgs[i].mention <=> i \in r.told

\* No request is sent again for ever: the waits a realm that keeps answering
\* 429 asks for, none of them too, stay within the budget and use it up; only
\* the last may be cut short of the least wait (rateLimitSchedule).
RetriesAreBounded ==
  \A c \in Callers :
    call[c].waited <= Budget /\ (call[c].tries * MinWait < Budget + MinWait)
=============================================================================
