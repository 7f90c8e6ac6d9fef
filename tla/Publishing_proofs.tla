-------------------------- MODULE Publishing_proofs --------------------------
(***************************************************************************)
(* Proofs about Publishing, for any callers, posts, reads, events and      *)
(* histories, and any number of calls: one invariant, about one call and   *)
(* the realm, from which what a write, a resolution and a read promise     *)
(* follow.                                                                 *)
(***************************************************************************)
EXTENDS Publishing, TLAPS, FiniteSetTheorems, SequenceTheorems, NaturalsInduction,
        WellFoundedInduction

Checking == {"limit", "mentions", "fresh", "spans", "cover"}
Publishes == {"channel", "refresh", "probe", "resolved?", "send", "rewrite"}
Mapping == {"directory", "ref", "author", "show", "named"}

Messages == [topic : {"plain", "done", "none"}, ts : Nat, mention : BOOLEAN]

\* The realm's messages, and the member as seen through the caches: a member
\* once listed never becomes unknown again, and who is mentioned is known.
RealmInStep ==
  /\ msgs \in Seq(Messages)
  /\ created \in BOOLEAN /\ member \in Statuses
  /\ listed \in {"absent", member}
  /\ known \in {"none", "there", "missing"}
  /\ copy \in {"none", "active"} /\ (copy = "active" => member # "absent")
  /\ \A i \in DOMAIN msgs : msgs[i].mention => member # "absent"

\* Which operation a request belongs to.
OpInStep(r) ==
  /\ r.at \in Checking => r.op \in {"post", "edit"}
  /\ r.at \in Checking \ {"limit"} => r.mention
  /\ r.at \in {"channel", "refresh"} => r.op \in {"post", "describe"}
  /\ r.at \in {"probe", "resolved?", "send", "stored", "lost"} => r.op = "post"
  /\ r.at = "rewrite" => r.op = "edit"
  /\ r.at \in {"description", "describe"} => r.op = "describe"
  /\ r.at \in {"source", "target", "patch"} => r.op = "resolve"
  /\ r.at \in {"walk", "render"} => r.op = "read"
  /\ r.at \in Mapping => r.op = "map"

\* A request of its own waits within the budget; only a wait that used the
\* budget up may have been cut short.
WaitInStep(r) ==
  /\ r.waited \in 0 .. Budget /\ r.tries \in Nat
  /\ \/ r.tries * MinWait <= r.waited
     \/ r.waited = Budget /\ r.tries * MinWait < Budget + MinWait

\* The message of a post is stored by its one send.
SendInStep(r) ==
  /\ r.stored \in {0, 1}
  /\ r.at \in {"stored", "lost"} => r.stored = 1
  /\ r.at \notin {"stored", "lost", "end"} => r.stored = 0
  /\ r.at = "end" /\ r.op = "post" /\ r.result = "ok" => r.stored = 1

\* What is out of reach now was out of reach at some moment of the call.
ReachInStep(r) ==
  /\ r.mention \in BOOLEAN
  /\ r.mention /\ member # "active" => r.dead
  /\ r.op \in {"post", "describe"} /\ ~created => r.lacked
  /\ r.at = "spans" => r.dir # "active" /\ (r.dir # "absent" => r.dead)
  /\ r.at = "end" /\ r.result = "dead" => r.dead
  /\ r.at = "end" /\ r.result = "unknown channel" => r.lacked
  /\ r.at \in Publishes /\ r.mention => member # "absent"

\* The topic a post is about to be sent to is the thread's, unless a rename
\* came in between; a resolution renames what it found.
ThreadInStep(r) ==
  /\ r.op = "post" => r.form \in {"plain", "done"}
  /\ r.at = "send" /\ r.threaded /\ ~r.patched /\ ~raced =>
       IF r.form = "plain" THEN Holds("plain") \/ ~Holds("done")
       ELSE Holds("done") /\ ~Holds("plain")
  /\ r.op = "resolve" => <<r.form, r.target>> \in {<<"plain", "done">>, <<"done", "plain">>}
  /\ r.at = "patch" => r.id \in Ids("plain") \cup Ids("done")
  /\ r.at = "patch" /\ ~r.disturbed => r.id \in Ids(r.form)
  /\ r.at = "target" /\ ~r.disturbed => ~Holds(r.form)
  /\ r.at = "end" /\ r.op = "resolve" /\ r.result = "ok" /\ ~r.disturbed
       => Holds(r.target) /\ ~Holds(r.form)

DescriptionInStep(r) ==
  r.at = "end" /\ r.op = "describe" /\ r.result = "ok" /\ ~r.disturbed => described = r.text

\* A walk tells the mentions of what it has taken, and asks for the rendered
\* rows of the page it has just read.
ReadInStep(r) ==
  r.op = "read" =>
    /\ r.cap \in Nat /\ r.rows \subseteq DOMAIN msgs
    /\ r.got \in Seq(DOMAIN msgs)
    /\ r.told \subseteq {i \in DOMAIN msgs : msgs[i].mention}
    /\ ~r.disturbed => \A i \in Range(r.got) : msgs[i].mention => i \in r.told
    /\ r.at = "render" /\ ~r.disturbed => r.rows = Page(r)

\* An event is mapped with the mentions its message has.
MapInStep(r) ==
  r.op = "map" =>
    /\ r.id = 0 \/ r.id \in DOMAIN msgs
    /\ r.at \in Mapping /\ r.id # 0 => (r.mention <=> msgs[r.id].mention)
    /\ r.at \in {"show", "named"} => r.mention
    /\ r.at = "named" => r.id # 0
    /\ r.at = "end" /\ r.result = "ok" /\ r.form = "message"
         => \A i \in Range(r.got) : i \in DOMAIN msgs /\ (msgs[i].mention <=> i \in r.told)

Sound(r) ==
  /\ DOMAIN r = DOMAIN Idle
  /\ OpInStep(r) /\ SendInStep(r) /\ ReachInStep(r) /\ ThreadInStep(r)
  /\ DescriptionInStep(r) /\ ReadInStep(r) /\ MapInStep(r)

InStep(r) == Sound(r) /\ WaitInStep(r)

CallsInStep == DOMAIN call = Callers /\ \A c \in Callers : InStep(call[c])

AllInStep == RealmInStep /\ ForkNeedsRace /\ CallsInStep
-----------------------------------------------------------------------------
(* A call's record *)

SameCall(r, s) ==
  /\ s.at = r.at /\ s.op = r.op /\ s.result = r.result
  /\ s.mention = r.mention /\ s.threaded = r.threaded /\ s.long = r.long
  /\ s.form = r.form /\ s.target = r.target /\ s.text = r.text /\ s.id = r.id
  /\ s.dir = r.dir /\ s.by = r.by /\ s.cached = r.cached
  /\ s.since = r.since /\ s.until = r.until /\ s.cap = r.cap
  /\ s.anchor = r.anchor /\ s.left = r.left /\ s.seen = r.seen
  /\ s.rows = r.rows /\ s.got = r.got /\ s.told = r.told
  /\ s.dead = r.dead /\ s.lacked = r.lacked /\ s.patched = r.patched
  /\ s.disturbed = r.disturbed /\ s.stored = r.stored

LEMMA SameSound ==
  ASSUME NEW r, NEW s, DOMAIN s = DOMAIN r, SameCall(r, s), Sound(r)
  PROVE  Sound(s)
<1>1. DOMAIN s = DOMAIN Idle
  BY DEF Sound
<1>2. Page(s) = Page(r)
  <2>1. PageSize(s) = PageSize(r)
    BY DEF SameCall, PageSize, Bounded
  <2>2. Before(s) = Before(r)
    BY DEF SameCall, Before
  <2>3. s.form = r.form /\ s.anchor = r.anchor
    BY DEF SameCall
  <2> QED
    BY <2>1, <2>2, <2>3 DEF Page
<1>3. OpInStep(s)
  BY DEF SameCall, Sound, OpInStep
<1>4. SendInStep(s)
  BY DEF SameCall, Sound, SendInStep
<1>5. ReachInStep(s)
  BY DEF SameCall, Sound, ReachInStep
<1>6. ThreadInStep(s)
  BY DEF SameCall, Sound, ThreadInStep
<1>7. DescriptionInStep(s)
  BY DEF SameCall, Sound, DescriptionInStep
<1>8. ReadInStep(s)
  BY <1>2 DEF SameCall, Sound, ReadInStep
<1>9. MapInStep(s)
  BY DEF SameCall, Sound, MapInStep
<1> QED
  BY <1>1, <1>3, <1>4, <1>5, <1>6, <1>7, <1>8, <1>9 DEF Sound

\* The next request of a call that is as it should be starts its wait afresh.
LEMMA RestartInStep ==
  ASSUME NEW r, Sound(r)
  PROVE  InStep([r EXCEPT !.waited = 0, !.tries = 0])
<1> DEFINE s == [r EXCEPT !.waited = 0, !.tries = 0]
<1>1. DOMAIN r = DOMAIN Idle
  BY DEF Sound
<1>2. DOMAIN s = DOMAIN r /\ SameCall(r, s)
  BY <1>1 DEF SameCall, Idle
<1>3. s.waited = 0 /\ s.tries = 0
  BY <1>1 DEF Idle
<1> HIDE DEF s
<1>4. WaitInStep(s)
  BY <1>3, PublishingAssumption DEF PublishingAssumption, WaitInStep
<1>5. InStep(s)
  BY <1>2, <1>4, SameSound DEF InStep
<1> QED
  BY <1>5 DEF s

LEMMA EmptySequence ==
  ASSUME NEW E
  PROVE  <<>> \in Seq(E) /\ \A i : i \notin Range(<<>>)
<1>1. <<>> \in Seq(E) /\ DOMAIN <<>> = {}
  OBVIOUS
<1> QED
  BY <1>1 DEF Range

\* What is left of a call that is over.
Ended(r, result, s) ==
  /\ DOMAIN s = DOMAIN Idle /\ s.at = "end" /\ s.op = r.op /\ s.result = result
  /\ s.stored = r.stored /\ s.form = r.form /\ s.target = r.target /\ s.text = r.text
  /\ s.dead = r.dead /\ s.lacked = r.lacked /\ s.disturbed = r.disturbed
  /\ s.mention = FALSE /\ s.cap = 0 /\ s.rows = {} /\ s.got = <<>> /\ s.told = {}
  /\ s.id = 0

LEMMA OverEnded ==
  ASSUME NEW r, NEW result, NEW s, s = Over(r, result)
  PROVE  Ended(r, result, s)
  BY DEF Over, Idle, Ended

\* What a call may end with.
EndsWell(r, result) ==
  /\ r.stored \in {0, 1}
  /\ r.op = "post" => r.form \in {"plain", "done"}
  /\ r.op = "resolve" => <<r.form, r.target>> \in {<<"plain", "done">>, <<"done", "plain">>}
  /\ r.op \in {"post", "describe"} /\ ~created => r.lacked
  /\ result = "dead" => r.dead
  /\ result = "unknown channel" => r.lacked
  /\ result = "ok" =>
       /\ r.op \notin {"read", "map"}
       /\ r.op = "post" => r.stored = 1
       /\ r.op = "describe" /\ ~r.disturbed => described = r.text
       /\ r.op = "resolve" /\ ~r.disturbed => Holds(r.target) /\ ~Holds(r.form)

LEMMA EndedSound ==
  \A r, result, s : Ended(r, result, s) /\ EndsWell(r, result) => Sound(s)
<1> SUFFICES ASSUME NEW r, NEW result, NEW s, Ended(r, result, s), EndsWell(r, result)
             PROVE  Sound(s)
  OBVIOUS
<1>1. DOMAIN s = DOMAIN Idle /\ s.at = "end" /\ s.id = 0 /\ s.op = r.op /\ s.result = result
  BY DEF Ended
<1>2. OpInStep(s)
  BY <1>1 DEF OpInStep, Checking, Mapping
<1>3. SendInStep(s)
  BY DEF Ended, EndsWell, SendInStep
<1>4. ReachInStep(s)
  BY DEF Ended, EndsWell, ReachInStep, Publishes
<1>5. ThreadInStep(s)
  BY DEF Ended, EndsWell, ThreadInStep
<1>6. DescriptionInStep(s)
  BY DEF Ended, EndsWell, DescriptionInStep
<1>7. ReadInStep(s)
  <2>1. s.cap = 0 /\ s.rows = {} /\ s.got = <<>> /\ s.told = {}
    BY DEF Ended
  <2>2. s.got \in Seq(DOMAIN msgs) /\ \A i : i \notin Range(s.got)
    BY <2>1, EmptySequence
  <2>3. s.told \subseteq {i \in DOMAIN msgs : msgs[i].mention}
    BY <2>1
  <2>4. s.cap \in Nat
    BY ONLY <2>1
  <2>5. s.rows \subseteq DOMAIN msgs
    BY <2>1
  <2> QED
    BY <1>1, <2>2, <2>3, <2>4, <2>5 DEF ReadInStep
<1>8. MapInStep(s)
  BY <1>1 DEF EndsWell, MapInStep, Mapping
<1> QED
  BY <1>1, <1>2, <1>3, <1>4, <1>5, <1>6, <1>7, <1>8 DEF Sound

LEMMA OverSound ==
  ASSUME NEW r, Sound(r), NEW result, NEW s, s = Over(r, result),
         result = "dead" => r.dead,
         result = "unknown channel" => r.lacked,
         result = "ok" =>
           /\ r.op \notin {"read", "map"}
           /\ r.op = "post" => r.stored = 1
           /\ r.op = "describe" /\ ~r.disturbed => described = r.text
           /\ r.op = "resolve" /\ ~r.disturbed => Holds(r.target) /\ ~Holds(r.form)
  PROVE  Sound(s)
<1>1. Ended(r, result, s)
  BY OverEnded
<1>2. EndsWell(r, result)
  BY DEF Sound, SendInStep, ReachInStep, ThreadInStep, EndsWell
<1> QED
  BY <1>1, <1>2, EndedSound

-----------------------------------------------------------------------------
(* The steps that leave the realm's messages and member alone *)

Still == UNCHANGED <<msgs, created, described, member, raced>>

\* What a call knows of the messages stays true while they stay as they are.
LEMMA SameMessages ==
  ASSUME NEW r, Sound(r), UNCHANGED <<msgs, raced>>
  PROVE  ThreadInStep(r)' /\ ReadInStep(r)' /\ MapInStep(r)'
<1>1. Ids("plain")' = Ids("plain") /\ Ids("done")' = Ids("done") /\ Ids(r.form)' = Ids(r.form)
      /\ Ids(r.target)' = Ids(r.target)
  BY DEF Ids
<1>2. ThreadInStep(r)'
  BY <1>1 DEF Sound, ThreadInStep, Holds
<1>3. ReadInStep(r)'
  <2>1. Before(r)' = Before(r)
    BY <1>1 DEF Before
  <2>2. Page(r)' = Page(r)
    BY <1>1, <2>1 DEF Page, NewestOf, PageSize
  <2> QED
    BY <2>2 DEF Sound, ReadInStep
<1>4. MapInStep(r)'
  BY DEF Sound, MapInStep
<1> QED
  BY <1>2, <1>3, <1>4

LEMMA StillSound ==
  ASSUME NEW r, InStep(r), Still
  PROVE  InStep(r)'
<1>1. ThreadInStep(r)' /\ ReadInStep(r)' /\ MapInStep(r)'
  BY SameMessages DEF Still, InStep
<1>2. ReachInStep(r)' /\ DescriptionInStep(r)'
  BY DEF Still, InStep, Sound, ReachInStep, DescriptionInStep
<1> QED
  BY <1>1, <1>2 DEF InStep, Sound, OpInStep, SendInStep, WaitInStep

LEMMA StillCalls ==
  ASSUME CallsInStep, NEW c \in Callers, NEW r, InStep(r), call' = [call EXCEPT ![c] = r], Still
  PROVE  CallsInStep'
<1>1. DOMAIN call' = Callers
  BY DEF CallsInStep
<1>2. ASSUME NEW d \in Callers
      PROVE  InStep(call[d])'
  <2>1. PICK s : s = call'[d] /\ InStep(s)
    BY DEF CallsInStep
  <2>2. InStep(s)'
    BY <2>1, StillSound
  <2> QED
    BY <2>1, <2>2
<1> QED
  BY <1>1, <1>2 DEF CallsInStep

LEMMA StillMoves ==
  ASSUME CallsInStep, NEW c \in Callers, NEW r, Sound(r), Moves(c, r), Still
  PROVE  CallsInStep'
<1> DEFINE s == [r EXCEPT !.waited = 0, !.tries = 0]
<1>1. InStep(s) /\ call' = [call EXCEPT ![c] = s]
  BY RestartInStep DEF Moves
<1> HIDE DEF s
<1> QED
  BY <1>1, StillCalls

LEMMA StillRealm ==
  ASSUME AllInStep, Still, listed' = listed, known' \in {known, Streams},
         copy' \in {"none", "active"}, copy' = "active" => member # "absent"
  PROVE  RealmInStep' /\ ForkNeedsRace'
<1>1. RealmInStep'
  BY DEF AllInStep, RealmInStep, Still, Streams
<1>2. ForkNeedsRace'
  BY DEF AllInStep, Still, ForkNeedsRace, Forked, Holds, Ids
<1> QED
  BY <1>1, <1>2

\* The call ends.
LEMMA EndsInStep ==
  ASSUME CallsInStep, NEW c \in Callers, NEW result, Ends(c, result), Still,
         result = "dead" => call[c].dead,
         result = "unknown channel" => call[c].lacked,
         result = "ok" =>
           /\ call[c].op \notin {"read", "map"}
           /\ call[c].op = "post" => call[c].stored = 1
           /\ call[c].op = "describe" /\ ~call[c].disturbed => described = call[c].text
           /\ call[c].op = "resolve" /\ ~call[c].disturbed
                => Holds(call[c].target) /\ ~Holds(call[c].form)
  PROVE  CallsInStep'
<1> DEFINE r == call[c]
           s == Over(r, result)
<1>1. Sound(r) /\ Moves(c, s)
  BY DEF CallsInStep, InStep, Ends
<1>2. s = Over(r, result)
  OBVIOUS
<1>3. Sound(s)
  <2> HIDE DEF s, r
  <2>1. /\ result = "dead" => r.dead
        /\ result = "unknown channel" => r.lacked
        /\ result = "ok" =>
             /\ r.op \notin {"read", "map"}
             /\ r.op = "post" => r.stored = 1
             /\ r.op = "describe" /\ ~r.disturbed => described = r.text
             /\ r.op = "resolve" /\ ~r.disturbed => Holds(r.target) /\ ~Holds(r.form)
    BY DEF r
  <2> QED
    BY <1>1, <1>2, <2>1, OverSound
<1> HIDE DEF s
<1> QED
  BY <1>1, <1>3, StillMoves

\* The call goes on with another request.
LEMMA GoesSound ==
  ASSUME NEW r, Sound(r), r.at \notin {"end", "stored", "lost"},
         NEW at, NEW s, s = [r EXCEPT !.at = at],
         at \notin {"end", "stored", "lost", "spans", "patch", "render", "show", "named"},
         OpInStep(s),
         at \in Publishes /\ r.mention => member # "absent",
         at = "send" => ~r.threaded,
         at = "target" => ~Holds(r.form),
         r.op = "map" => r.at \in Mapping
  PROVE  Sound(s)
<1>1. DOMAIN s = DOMAIN Idle /\ s.at = at /\ SameCall(r, [s EXCEPT !.at = r.at])
  BY DEF Sound, SameCall, Idle
<1>2. SendInStep(s)
  BY <1>1 DEF SameCall, Sound, SendInStep, Idle
<1>3. ReachInStep(s)
  BY <1>1 DEF SameCall, Sound, ReachInStep, Idle
<1>4. ThreadInStep(s)
  BY <1>1 DEF SameCall, Sound, ThreadInStep, Idle
<1>5. DescriptionInStep(s)
  BY <1>1 DEF SameCall, Sound, DescriptionInStep, Idle
<1>6. ReadInStep(s)
  BY <1>1 DEF SameCall, Sound, ReadInStep, Idle
<1>7. MapInStep(s)
  BY <1>1 DEF SameCall, Sound, MapInStep, Idle
<1> QED
  BY <1>1, <1>2, <1>3, <1>4, <1>5, <1>6, <1>7 DEF Sound

LEMMA GoesInStep ==
  ASSUME CallsInStep, NEW c \in Callers, NEW at, Goes(c, at), Still,
         call[c].at \notin {"end", "stored", "lost"},
         at \notin {"end", "stored", "lost", "spans", "patch", "render", "show", "named"},
         OpInStep([call[c] EXCEPT !.at = at]),
         at \in Publishes /\ call[c].mention => member # "absent",
         at = "send" => ~call[c].threaded,
         at = "target" => ~Holds(call[c].form),
         call[c].op = "map" => call[c].at \in Mapping
  PROVE  CallsInStep'
<1> DEFINE r == call[c]
           s == [r EXCEPT !.at = at]
<1>1. Sound(r) /\ Moves(c, s)
  BY DEF CallsInStep, InStep, Goes
<1>2. s = [r EXCEPT !.at = at] /\ OpInStep(s)
  OBVIOUS
<1>3. Sound(s)
  <2> HIDE DEF s
  <2> QED
    BY <1>1, <1>2, GoesSound
<1> HIDE DEF s
<1> QED
  BY <1>1, <1>3, StillMoves

LEMMA CallSound ==
  ASSUME CallsInStep, NEW c \in Callers
  PROVE  /\ Sound(call[c]) /\ OpInStep(call[c]) /\ SendInStep(call[c]) /\ ReachInStep(call[c])
         /\ ThreadInStep(call[c]) /\ DOMAIN call[c] = DOMAIN Idle
  BY DEF CallsInStep, InStep, Sound

-----------------------------------------------------------------------------
(* The requests of a post, an edit and a description *)

LEMMA RefuseOverlongBodyStep ==
  ASSUME AllInStep, NEW c \in Callers, RefuseOverlongBody(c)
  PROVE  AllInStep'
<1>1. Still /\ call[c].at = "limit" /\ UNCHANGED <<listed, known, copy>>
  BY DEF RefuseOverlongBody, realmVars, Still, At
<1>2. CallsInStep'
  <2>1. CASE Ends(c, "too long")
    BY <1>1, <2>1, EndsInStep DEF AllInStep
  <2>2. CASE call[c].mention /\ Goes(c, "mentions")
    BY <1>1, <2>2, CallSound, GoesInStep DEF AllInStep, OpInStep, Checking, Publishes, Idle, Mapping
  <2>3. CASE ~call[c].mention /\ Goes(c, Checked(c))
    BY <1>1, <2>3, CallSound, GoesInStep
    DEF AllInStep, OpInStep, Checking, Publishes, Idle, Mapping, Checked
  <2> QED
    BY <2>1, <2>2, <2>3 DEF RefuseOverlongBody
<1> QED
  BY <1>1, <1>2, StillRealm DEF AllInStep, RealmInStep

LEMMA ValidateOutboundMentionsStep ==
  ASSUME AllInStep, NEW c \in Callers, ValidateOutboundMentions(c)
  PROVE  AllInStep'
<1> DEFINE seen == IF copy = "none" THEN listed ELSE copy
<1>1. Still /\ call[c].at = "mentions" /\ UNCHANGED <<listed, known>>
  BY DEF ValidateOutboundMentions, realmVars, Still, At
<1>2. seen = "active" => member # "absent"
  BY DEF AllInStep, RealmInStep
<1>3. copy' \in {"none", "active"} /\ (copy' = "active" => member # "absent")
  BY <1>2 DEF ValidateOutboundMentions
<1>4. CallsInStep'
  <2>1. CASE seen = "active" /\ Goes(c, Checked(c))
    BY <1>1, <1>2, <2>1, CallSound, GoesInStep
    DEF AllInStep, OpInStep, Checking, Publishes, Idle, Mapping, Checked
  <2>2. CASE Goes(c, "fresh")
    BY <1>1, <2>2, CallSound, GoesInStep
    DEF AllInStep, OpInStep, Checking, Publishes, Idle, Mapping
  <2> QED
    BY <2>1, <2>2 DEF ValidateOutboundMentions
<1> QED
  BY <1>1, <1>3, <1>4, StillRealm DEF AllInStep

LEMMA DeadMentionsAfterFreshReadStep ==
  ASSUME AllInStep, NEW c \in Callers, DeadMentionsAfterFreshRead(c)
  PROVE  AllInStep'
<1> DEFINE r == call[c]
           at == IF listed = "active" THEN Checked(c) ELSE "spans"
           s == [r EXCEPT !.dir = listed, !.at = at]
<1>1. Still /\ r.at = "fresh" /\ UNCHANGED <<listed, known, copy>> /\ Moves(c, s)
  BY DEF DeadMentionsAfterFreshRead, realmVars, cacheVars, Still, At
<1>2. Sound(r) /\ RealmInStep
  BY CallSound DEF AllInStep
<1>3. /\ r.op \in {"post", "edit"} /\ r.mention /\ r.stored = 0
      /\ at \in {"rewrite", "channel", "spans"}
      /\ at = "rewrite" => r.op = "edit"
      /\ at = "channel" => r.op = "post"
      /\ IF at = "spans" THEN listed # "active" ELSE listed = "active"
  BY <1>1, <1>2 DEF Sound, OpInStep, SendInStep, Checked, Checking
<1>4. /\ DOMAIN s = DOMAIN Idle /\ s.at = at /\ s.dir = listed
      /\ SameCall(r, [s EXCEPT !.at = r.at, !.dir = r.dir])
  BY <1>2 DEF Sound, SameCall, Idle
<1> HIDE DEF s, at
<1>5. Sound(s)
  <2>1. OpInStep(s)
    BY <1>1, <1>3, <1>4 DEF SameCall, OpInStep, Checking, Publishes, Mapping, Idle
  <2>2. SendInStep(s)
    BY <1>1, <1>3, <1>4 DEF SameCall, SendInStep, Idle
  <2>3. ReachInStep(s)
    <3>1. /\ s.mention = r.mention /\ s.dead = r.dead /\ s.op = r.op /\ s.lacked = r.lacked
          /\ s.result = r.result
      BY <1>4 DEF SameCall, Idle
    <3>2. ReachInStep(r) /\ listed \in {"absent", member}
      BY <1>2 DEF Sound, RealmInStep
    <3>3. r.mention /\ (member # "active" => r.dead)
      BY <1>3, <3>2 DEF ReachInStep
    <3> QED
      BY <1>3, <1>4, <3>1, <3>2, <3>3 DEF ReachInStep, Publishes
  <2>4. ThreadInStep(s) /\ DescriptionInStep(s)
    BY <1>2, <1>3, <1>4 DEF SameCall, Sound, ThreadInStep, DescriptionInStep, Idle
  <2>5. ReadInStep(s) /\ MapInStep(s)
    BY <1>3, <1>4 DEF SameCall, ReadInStep, MapInStep, Idle
  <2> QED
    BY <1>4, <2>1, <2>2, <2>3, <2>4, <2>5 DEF Sound
<1> QED
  BY <1>1, <1>5, StillMoves, StillRealm DEF AllInStep, RealmInStep

LEMMA RenderedMentionIdsStep ==
  ASSUME AllInStep, NEW c \in Callers, RenderedMentionIds(c)
  PROVE  AllInStep'
<1>1. Still /\ call[c].at = "spans" /\ UNCHANGED <<listed, known, copy>>
  BY DEF RenderedMentionIds, realmVars, cacheVars, Still, At
<1>2. CallsInStep'
  <2>1. CASE Goes(c, "cover")
    BY <1>1, <2>1, CallSound, GoesInStep
    DEF AllInStep, OpInStep, Checking, Publishes, Idle, Mapping
  <2>2. CASE (member # "active" \/ call[c].dir # "absent") /\ Ends(c, "dead")
    <3>1. call[c].dead
      BY <1>1, <2>2, CallSound DEF AllInStep, OpInStep, ReachInStep, Checking
    <3> QED
      BY <1>1, <2>2, <3>1, EndsInStep DEF AllInStep
  <2> QED
    BY <2>1, <2>2 DEF RenderedMentionIds
<1> QED
  BY <1>1, <1>2, StillRealm DEF AllInStep, RealmInStep

LEMMA CoverStep ==
  ASSUME AllInStep, NEW c \in Callers, Cover(c)
  PROVE  AllInStep'
<1>1. Still /\ call[c].at = "cover" /\ UNCHANGED <<listed, known, copy>>
  BY DEF Cover, realmVars, cacheVars, Still, At
<1>2. CallsInStep'
  <2>1. CASE member = "active" /\ Goes(c, Checked(c))
    BY <1>1, <2>1, CallSound, GoesInStep
    DEF AllInStep, OpInStep, Checking, Publishes, Idle, Mapping, Checked
  <2>2. CASE member # "active" /\ Ends(c, "dead")
    <3>1. call[c].dead
      BY <1>1, <2>2, CallSound DEF AllInStep, OpInStep, ReachInStep, Checking
    <3> QED
      BY <1>1, <2>2, <3>1, EndsInStep DEF AllInStep
  <2> QED
    BY <2>1, <2>2 DEF Cover
<1> QED
  BY <1>1, <1>2, StillRealm DEF AllInStep, RealmInStep

\* On to the request that follows the lookup of the channel.
LEMMA OnwardInStep ==
  ASSUME AllInStep, NEW c \in Callers, call[c].at \in {"channel", "refresh"}, Still,
         Goes(c, Onward(c))
  PROVE  CallsInStep'
  BY CallSound, GoesInStep
  DEF AllInStep, OpInStep, ReachInStep, Checking, Publishes, Idle, Mapping, Onward

LEMMA LookupChannelStep ==
  ASSUME AllInStep, NEW c \in Callers, LookupChannel(c)
  PROVE  AllInStep'
<1>1. /\ Still /\ call[c].at = "channel" /\ UNCHANGED <<listed, copy>>
      /\ known' \in {known, Streams}
  BY DEF LookupChannel, realmVars, Still, At
<1>2. CallsInStep'
  <2>1. CASE Goes(c, Onward(c))
    BY <1>1, <2>1, OnwardInStep
  <2>2. CASE Goes(c, "refresh")
    BY <1>1, <2>2, CallSound, GoesInStep
    DEF AllInStep, OpInStep, ReachInStep, Checking, Publishes, Idle, Mapping
  <2> QED
    BY <2>1, <2>2 DEF LookupChannel
<1> QED
  BY <1>1, <1>2, StillRealm DEF AllInStep, RealmInStep

LEMMA RefreshKnownStreamsStep ==
  ASSUME AllInStep, NEW c \in Callers, RefreshKnownStreams(c)
  PROVE  AllInStep'
<1>1. /\ Still /\ call[c].at = "refresh" /\ UNCHANGED <<listed, copy>>
      /\ known' \in {known, Streams}
  BY DEF RefreshKnownStreams, realmVars, Still, At
<1>2. CallsInStep'
  <2>1. CASE Goes(c, Onward(c))
    BY <1>1, <2>1, OnwardInStep
  <2>2. CASE Streams # "there" /\ Ends(c, "unknown channel")
    <3>1. call[c].lacked
      BY <1>1, <2>2, CallSound DEF AllInStep, OpInStep, ReachInStep, Streams
    <3> QED
      BY <1>1, <2>2, <3>1, EndsInStep DEF AllInStep
  <2> QED
    BY <2>1, <2>2 DEF RefreshKnownStreams
<1> QED
  BY <1>1, <1>2, StillRealm DEF AllInStep, RealmInStep

-----------------------------------------------------------------------------
(* The thread of a post *)

LEMMA SendsInStep ==
  ASSUME AllInStep, NEW c \in Callers, NEW form, Sends(c, form), Still,
         call[c].at \in {"probe", "resolved?"},
         \/ form = "plain" /\ (Holds("plain") \/ ~Holds("done"))
         \/ form = "done" /\ Holds("done") /\ (Holds("plain") => raced)
  PROVE  CallsInStep'
<1> DEFINE r == call[c]
           s == [r EXCEPT !.at = "send", !.form = form]
<1>1. Sound(r) /\ Moves(c, s)
  BY CallSound DEF AllInStep, Sends
<1>2. r.op = "post" /\ r.stored = 0 /\ (r.mention => member # "absent")
  BY <1>1 DEF Sound, OpInStep, SendInStep, ReachInStep, Publishes
<1>3. /\ DOMAIN s = DOMAIN Idle /\ s.at = "send" /\ s.form = form
      /\ SameCall(r, [s EXCEPT !.at = r.at, !.form = r.form])
  BY <1>1 DEF Sound, SameCall, Idle
<1> HIDE DEF s
<1>4. /\ s.op = r.op /\ s.mention = r.mention /\ s.stored = r.stored /\ s.dead = r.dead
      /\ s.lacked = r.lacked /\ s.result = r.result
  BY <1>3 DEF SameCall, Idle
<1>5. OpInStep(s)
  BY <1>2, <1>3, <1>4 DEF OpInStep, Checking, Mapping
<1>6. SendInStep(s)
  BY <1>2, <1>3, <1>4 DEF SendInStep
<1>7. ReachInStep(s)
  BY <1>1, <1>2, <1>3, <1>4 DEF Sound, ReachInStep
<1>8. ThreadInStep(s)
  BY <1>2, <1>3, <1>4 DEF ThreadInStep
<1>9. DescriptionInStep(s) /\ ReadInStep(s) /\ MapInStep(s)
  BY <1>2, <1>3, <1>4 DEF DescriptionInStep, ReadInStep, MapInStep
<1>10. Sound(s)
  BY <1>3, <1>5, <1>6, <1>7, <1>8, <1>9 DEF Sound
<1> QED
  BY <1>1, <1>10, StillMoves DEF AllInStep

LEMMA AddressPlainStep ==
  ASSUME AllInStep, NEW c \in Callers, AddressPlain(c)
  PROVE  AllInStep'
<1>1. Still /\ call[c].at = "probe" /\ UNCHANGED <<listed, known, copy>>
  BY DEF AddressPlain, realmVars, cacheVars, Still, At
<1>2. CallsInStep'
  <2>1. CASE Holds("plain") /\ Sends(c, "plain")
    BY <1>1, <2>1, SendsInStep
  <2>2. CASE Goes(c, "resolved?")
    BY <1>1, <2>2, CallSound, GoesInStep
    DEF AllInStep, OpInStep, ReachInStep, Checking, Publishes, Idle, Mapping
  <2> QED
    BY <2>1, <2>2 DEF AddressPlain
<1> QED
  BY <1>1, <1>2, StillRealm DEF AllInStep, RealmInStep

LEMMA AddressResolvedStep ==
  ASSUME AllInStep, NEW c \in Callers, AddressResolved(c)
  PROVE  AllInStep'
<1>1. /\ Still /\ call[c].at = "resolved?" /\ UNCHANGED <<listed, known, copy>>
      /\ Sends(c, FormOf)
  BY DEF AddressResolved, realmVars, cacheVars, Still, At
<1>2. \/ FormOf = "plain" /\ ~Holds("done")
      \/ FormOf = "done" /\ Holds("done") /\ (Holds("plain") => raced)
  BY DEF FormOf, AllInStep, ForkNeedsRace, Forked
<1>3. CallsInStep'
  BY <1>1, <1>2, SendsInStep
<1> QED
  BY <1>1, <1>3, StillRealm DEF AllInStep, RealmInStep

LEMMA StoredReadStep ==
  ASSUME AllInStep, NEW c \in Callers, StoredRead(c)
  PROVE  AllInStep'
<1>1. /\ Still /\ call[c].at = "stored" /\ UNCHANGED <<listed, known, copy>>
      /\ Ends(c, "ok")
  BY DEF StoredRead, realmVars, cacheVars, Still, At
<1>2. call[c].op = "post" /\ call[c].stored = 1
  BY <1>1, CallSound DEF AllInStep, OpInStep, SendInStep
<1>3. CallsInStep'
  BY <1>1, <1>2, EndsInStep DEF AllInStep
<1> QED
  BY <1>1, <1>3, StillRealm DEF AllInStep, RealmInStep

LEMMA RewriteStep ==
  ASSUME AllInStep, NEW c \in Callers, Rewrite(c)
  PROVE  AllInStep'
<1>1. /\ Still /\ call[c].at = "rewrite" /\ UNCHANGED <<listed, known, copy>>
      /\ Ends(c, "ok")
  BY DEF Rewrite, realmVars, cacheVars, Still, At
<1>2. call[c].op = "edit"
  BY <1>1, CallSound DEF AllInStep, OpInStep
<1>3. CallsInStep'
  BY <1>1, <1>2, EndsInStep DEF AllInStep
<1> QED
  BY <1>1, <1>3, StillRealm DEF AllInStep, RealmInStep

\* A request that fails, or whose answer is lost, ends its call.
LEMMA NoAnswerStep ==
  ASSUME AllInStep, NEW c \in Callers, NoAnswer(c), UNCHANGED <<realmVars, cacheVars, raced>>
  PROVE  AllInStep'
<1>1. Still /\ UNCHANGED <<listed, known, copy>> /\ Ends(c, "failed")
  BY DEF NoAnswer, realmVars, cacheVars, Still
<1>2. CallsInStep'
  BY <1>1, EndsInStep DEF AllInStep
<1> QED
  BY <1>1, <1>2, StillRealm DEF AllInStep, RealmInStep

LEMMA FetchChannelDescriptionStep ==
  ASSUME AllInStep, NEW c \in Callers, FetchChannelDescription(c)
  PROVE  AllInStep'
<1>1. Still /\ call[c].at = "description" /\ UNCHANGED <<listed, known, copy>>
  BY DEF FetchChannelDescription, realmVars, cacheVars, Still, At
<1>2. call[c].op = "describe"
  BY <1>1, CallSound DEF AllInStep, OpInStep
<1>3. CallsInStep'
  <2>1. CASE described = call[c].text /\ Ends(c, "ok")
    BY <1>1, <1>2, <2>1, EndsInStep DEF AllInStep
  <2>2. CASE Goes(c, "describe")
    BY <1>1, <1>2, <2>2, CallSound, GoesInStep
    DEF AllInStep, OpInStep, Checking, Publishes, Idle, Mapping
  <2> QED
    BY <2>1, <2>2 DEF FetchChannelDescription, AlreadyDescribed
<1> QED
  BY <1>1, <1>3, StillRealm DEF AllInStep, RealmInStep

LEMMA FindTargetStep ==
  ASSUME AllInStep, NEW c \in Callers, FindTarget(c)
  PROVE  AllInStep'
<1>1. Still /\ call[c].at = "target" /\ UNCHANGED <<listed, known, copy>>
  BY DEF FindTarget, realmVars, cacheVars, Still, At
<1>2. call[c].op = "resolve" /\ (~call[c].disturbed => ~Holds(call[c].form))
  BY <1>1, CallSound DEF AllInStep, OpInStep, ThreadInStep
<1>3. CallsInStep'
  <2>1. CASE Holds(call[c].target) /\ Ends(c, "ok")
    BY <1>1, <1>2, <2>1, EndsInStep DEF AllInStep
  <2>2. CASE Ends(c, "no thread")
    BY <1>1, <1>2, <2>2, EndsInStep DEF AllInStep
  <2> QED
    BY <2>1, <2>2 DEF FindTarget
<1> QED
  BY <1>1, <1>3, StillRealm DEF AllInStep, RealmInStep

LEMMA IdleInStep == InStep(Idle)
<1>1. ReadInStep(Idle) /\ MapInStep(Idle)
  BY DEF ReadInStep, MapInStep, Idle
<1>2. OpInStep(Idle) /\ SendInStep(Idle) /\ ReachInStep(Idle)
  BY DEF OpInStep, SendInStep, ReachInStep, Checking, Publishes, Mapping, Idle
<1>3. ThreadInStep(Idle) /\ DescriptionInStep(Idle)
  BY DEF ThreadInStep, DescriptionInStep, Idle
<1>4. WaitInStep(Idle)
  BY PublishingAssumption DEF PublishingAssumption, WaitInStep, Idle
<1> QED
  BY <1>1, <1>2, <1>3, <1>4 DEF InStep, Sound

LEMMA EndStep ==
  ASSUME AllInStep, NEW c \in Callers, End(c)
  PROVE  AllInStep'
<1>1. Still /\ UNCHANGED <<listed, known, copy>> /\ call' = [call EXCEPT ![c] = Idle]
  BY DEF End, realmVars, cacheVars, Still
<1>2. CallsInStep'
  BY <1>1, IdleInStep, StillCalls DEF AllInStep
<1> QED
  BY <1>1, <1>2, StillRealm DEF AllInStep, RealmInStep

\* A wait that is not cut short by the budget is the least wait or longer.
LEMMA WaitSpends ==
  ASSUME NEW asked \in Nat, NEW waited \in 0 .. Budget, waited < Budget
  PROVE  /\ waited + WaitOf(asked, waited) \in 0 .. Budget
         /\ \/ waited + WaitOf(asked, waited) >= waited + MinWait
            \/ waited + WaitOf(asked, waited) = Budget
  BY PublishingAssumption DEF PublishingAssumption, WaitOf

LEMMA RateLimitedStep ==
  ASSUME AllInStep, NEW c \in Callers, NEW asked \in Asked, RateLimited(c, asked)
  PROVE  AllInStep'
<1>1. Still /\ UNCHANGED <<listed, known, copy>>
  BY DEF RateLimited, realmVars, cacheVars, Still
<1>2. CallsInStep'
  <2>1. CASE Ends(c, "failed")
    BY <1>1, <2>1, EndsInStep DEF AllInStep
  <2>2. CASE ~Ends(c, "failed")
    <3> DEFINE r == call[c]
               s == [r EXCEPT !.waited = @ + WaitOf(asked, @), !.tries = @ + 1]
    <3>1. r.waited < Budget /\ call' = [call EXCEPT ![c] = s]
      BY <2>2 DEF RateLimited, AllInStep, CallsInStep
    <3>2. Sound(r) /\ WaitInStep(r) /\ DOMAIN r = DOMAIN Idle
      BY DEF AllInStep, CallsInStep, InStep, Sound
    <3>3. /\ DOMAIN s = DOMAIN r /\ SameCall(r, s)
          /\ s.waited = r.waited + WaitOf(asked, r.waited) /\ s.tries = r.tries + 1
      BY <3>2 DEF SameCall, Idle
    <3> HIDE DEF r, s
    <3>4. WaitInStep(s)
      <4>1. /\ r.waited \in 0 .. Budget /\ r.tries \in Nat /\ asked \in Nat
            /\ Budget \in Nat /\ MinWait \in Nat \ {0} /\ r.tries * MinWait <= r.waited
        BY <3>1, <3>2, PublishingAssumption DEF WaitInStep, PublishingAssumption
      <4>2. (r.tries + 1) * MinWait = r.tries * MinWait + MinWait /\ r.tries * MinWait \in Nat
        BY <4>1
      <4> DEFINE spent == r.waited + WaitOf(asked, r.waited)
                 least == r.tries * MinWait
      <4>3. spent \in 0 .. Budget /\ (spent >= r.waited + MinWait \/ spent = Budget)
        BY <3>1, <4>1, WaitSpends
      <4>4. s.waited = spent /\ s.tries \in Nat /\ s.tries * MinWait = least + MinWait
        BY <3>3, <4>1, <4>2
      <4>5. least \in Nat /\ least <= r.waited
        BY <4>1, <4>2
      <4> HIDE DEF spent, least
      <4>6. \/ least + MinWait <= spent
            \/ spent = Budget /\ least + MinWait < Budget + MinWait
        BY <3>1, <4>1, <4>3, <4>5
      <4> QED
        BY <4>3, <4>4, <4>6 DEF WaitInStep
    <3> QED
      BY <1>1, <3>1, <3>2, <3>3, <3>4, SameSound, StillCalls DEF AllInStep, InStep
  <2> QED
    BY <2>1, <2>2
<1> QED
  BY <1>1, <1>2, StillRealm DEF AllInStep, RealmInStep

LEMMA ListingStep ==
  ASSUME AllInStep, Expire \/ ListKnownChannels
  PROVE  AllInStep'
<1>1. /\ Still /\ UNCHANGED <<listed, call>> /\ known' \in {known, Streams}
      /\ copy' \in {copy, "none"}
  BY DEF Expire, ListKnownChannels, realmVars, Still
<1>2. \A r : InStep(r) => InStep(r)'
  BY <1>1, StillSound
<1>3. CallsInStep'
  BY <1>1, <1>2 DEF AllInStep, CallsInStep
<1> QED
  BY <1>1, <1>3, StillRealm DEF AllInStep, RealmInStep

-----------------------------------------------------------------------------
(* Calls begin *)

LEMMA MessageTyped ==
  ASSUME RealmInStep
  PROVE  \A i \in DOMAIN msgs : i \in Nat \ {0} /\ msgs[i] \in Messages
<1>1. msgs \in [1 .. Len(msgs) -> Messages] /\ DOMAIN msgs = 1 .. Len(msgs)
      /\ Len(msgs) \in Nat
  BY LenProperties DEF RealmInStep
<1> QED
  BY <1>1

LEMMA BeginsInStep ==
  ASSUME AllInStep, NEW c \in Callers, NEW r, Begins(c, r), DOMAIN r = DOMAIN Idle,
         <<r.at, r.op>> \in {<<"limit", "post">>, <<"limit", "edit">>, <<"channel", "describe">>,
                            <<"source", "resolve">>, <<"walk", "read">>, <<"directory", "map">>},
         r.stored = 0, r.mention \in BOOLEAN, r.op = "describe" => ~r.mention,
         r.op = "post" => r.form = "plain",
         r.op = "resolve" => <<r.form, r.target>> \in {<<"plain", "done">>, <<"done", "plain">>},
         ReadInStep(r), MapInStep(r)
  PROVE  AllInStep'
<1> DEFINE s == [r EXCEPT !.dead = r.mention /\ member # "active",
                          !.lacked = r.op \in {"post", "describe"} /\ ~created,
                          !.upto = IF r.op = "read" THEN Len(msgs) ELSE 0]
<1>1. Still /\ UNCHANGED <<listed, known, copy>> /\ Moves(c, s)
  BY DEF Begins, realmVars, cacheVars, Still
<1>2. /\ DOMAIN s = DOMAIN Idle /\ s.dead = (r.mention /\ member # "active")
      /\ s.lacked = (r.op \in {"post", "describe"} /\ ~created)
      /\ SameCall(r, [s EXCEPT !.dead = r.dead, !.lacked = r.lacked])
  BY DEF SameCall, Idle
<1> HIDE DEF s
<1>3. /\ s.at = r.at /\ s.op = r.op /\ s.stored = r.stored /\ s.mention = r.mention
      /\ s.form = r.form /\ s.target = r.target /\ s.id = r.id /\ s.cap = r.cap
      /\ s.got = r.got /\ s.told = r.told /\ s.rows = r.rows
  BY <1>2 DEF SameCall, Idle
<1>4. s.at \in {"limit", "channel", "source", "walk", "directory"}
  BY <1>3
<1>5. OpInStep(s)
  BY <1>3 DEF OpInStep, Checking, Mapping
<1>6. SendInStep(s)
  BY <1>3, <1>4 DEF SendInStep
<1>7. ReachInStep(s)
  BY <1>2, <1>3, <1>4 DEF ReachInStep, Publishes
<1>8. ThreadInStep(s)
  BY <1>3, <1>4 DEF ThreadInStep
<1>9. DescriptionInStep(s)
  BY <1>4 DEF DescriptionInStep
<1>10. ReadInStep(s)
  BY <1>2, <1>3, <1>4 DEF SameCall, ReadInStep, Idle
<1>11. MapInStep(s)
  BY <1>2, <1>3, <1>4 DEF SameCall, MapInStep, Idle
<1>12. Sound(s)
  BY <1>2, <1>5, <1>6, <1>7, <1>8, <1>9, <1>10, <1>11 DEF Sound
<1>13. CallsInStep'
  BY <1>1, <1>12, StillMoves DEF AllInStep
<1> QED
  BY <1>1, <1>13, StillRealm DEF AllInStep, RealmInStep

LEMMA WalkFields ==
  ASSUME NEW r, NEW form, DOMAIN r = DOMAIN Idle, NEW s, s = Walk(r, form)
  PROVE  /\ DOMAIN s = DOMAIN Idle /\ s.at = "walk" /\ s.form = form
         /\ s.got = <<>> /\ s.told = {}
         /\ SameCall(r, [s EXCEPT !.at = r.at, !.form = r.form, !.anchor = r.anchor,
                                  !.left = r.left, !.seen = r.seen, !.got = r.got,
                                  !.told = r.told])
  BY DEF Walk, SameCall, Idle

LEMMA BeginStep ==
  ASSUME AllInStep, NEW c \in Callers, Begin(c)
  PROVE  AllInStep'
<1>1. ASSUME NEW p \in Posts, BeginPost(c, p)
      PROVE  AllInStep'
  <2> DEFINE r == [Idle EXCEPT !.op = "post", !.at = "limit", !.mention = p.mention,
                               !.threaded = p.threaded, !.long = p.long]
  <2>1. /\ DOMAIN r = DOMAIN Idle /\ r.at = "limit" /\ r.op = "post" /\ r.stored = 0
        /\ r.mention \in BOOLEAN /\ r.form = "plain"
    BY PublishingAssumption DEF PublishingAssumption, Idle
  <2>2. Begins(c, r)
    BY <1>1 DEF BeginPost
  <2> HIDE DEF r
  <2>3. ReadInStep(r) /\ MapInStep(r)
    BY <2>1 DEF ReadInStep, MapInStep
  <2> QED
    BY <2>1, <2>2, <2>3, BeginsInStep
<1>2. ASSUME NEW p \in Posts, BeginEdit(c, p)
      PROVE  AllInStep'
  <2> DEFINE r == [Idle EXCEPT !.op = "edit", !.at = "limit", !.mention = p.mention,
                               !.long = p.long]
  <2>1. /\ DOMAIN r = DOMAIN Idle /\ r.at = "limit" /\ r.op = "edit" /\ r.stored = 0
        /\ r.mention \in BOOLEAN
    BY PublishingAssumption DEF PublishingAssumption, Idle
  <2>2. Begins(c, r)
    BY <1>2 DEF BeginEdit
  <2> HIDE DEF r
  <2>3. ReadInStep(r) /\ MapInStep(r)
    BY <2>1 DEF ReadInStep, MapInStep
  <2> QED
    BY <2>1, <2>2, <2>3, BeginsInStep
<1>3. ASSUME NEW text \in Texts, BeginDescribe(c, text)
      PROVE  AllInStep'
  <2> DEFINE r == [Idle EXCEPT !.op = "describe", !.at = "channel", !.text = text]
  <2>1. /\ DOMAIN r = DOMAIN Idle /\ r.at = "channel" /\ r.op = "describe" /\ r.stored = 0
        /\ r.mention = FALSE
    BY DEF Idle
  <2>2. Begins(c, r)
    BY <1>3 DEF BeginDescribe
  <2> HIDE DEF r
  <2>3. ReadInStep(r) /\ MapInStep(r)
    BY <2>1 DEF ReadInStep, MapInStep
  <2> QED
    BY <2>1, <2>2, <2>3, BeginsInStep
<1>4. ASSUME NEW resolved \in BOOLEAN, BeginResolve(c, resolved)
      PROVE  AllInStep'
  <2> DEFINE r == [Idle EXCEPT !.op = "resolve", !.at = "source",
                               !.form = IF resolved THEN "plain" ELSE "done",
                               !.target = IF resolved THEN "done" ELSE "plain"]
  <2>1. /\ DOMAIN r = DOMAIN Idle /\ r.at = "source" /\ r.op = "resolve" /\ r.stored = 0
        /\ r.mention = FALSE
        /\ <<r.form, r.target>> \in {<<"plain", "done">>, <<"done", "plain">>}
    BY DEF Idle
  <2>2. Begins(c, r)
    BY <1>4 DEF BeginResolve
  <2> HIDE DEF r
  <2>3. ReadInStep(r) /\ MapInStep(r)
    BY <2>1 DEF ReadInStep, MapInStep
  <2> QED
    BY <2>1, <2>2, <2>3, BeginsInStep
<1>5. ASSUME NEW p \in Reads, BeginRead(c, p)
      PROVE  AllInStep'
  <2> DEFINE q == [Idle EXCEPT !.op = "read", !.since = p.since, !.until = p.until, !.cap = p.cap]
             r == Walk(q, p.form)
  <2>1. /\ DOMAIN q = DOMAIN Idle /\ q.op = "read" /\ q.stored = 0 /\ q.mention = FALSE
        /\ q.cap \in Nat /\ q.rows = {} /\ q.result = "none"
    BY PublishingAssumption DEF PublishingAssumption, Idle
  <2>2. r = Walk(q, p.form) /\ Begins(c, r)
    BY <1>5 DEF BeginRead
  <2> HIDE DEF r, q
  <2>3. /\ DOMAIN r = DOMAIN Idle /\ r.at = "walk" /\ r.got = <<>> /\ r.told = {}
        /\ r.op = "read" /\ r.stored = 0 /\ r.mention = FALSE /\ r.cap \in Nat /\ r.rows = {}
    BY <2>1, <2>2, WalkFields DEF SameCall, Idle
  <2>4. r.got \in Seq(DOMAIN msgs) /\ \A i : i \notin Range(r.got)
    BY <2>3, EmptySequence
  <2>5. ReadInStep(r) /\ MapInStep(r)
    BY <2>3, <2>4 DEF ReadInStep, MapInStep
  <2> QED
    BY <2>2, <2>3, <2>5, BeginsInStep
<1>6. ASSUME NEW e \in Events, BeginMap(c, e)
      PROVE  AllInStep'
  <2> DEFINE r == [Idle EXCEPT !.op = "map", !.at = "directory", !.form = e.form, !.id = e.id,
                               !.by = e.by, !.cached = e.cached,
                               !.mention = IF e.id = 0 THEN TRUE ELSE msgs[e.id].mention]
  <2>1. e.id # 0 => e.id \in DOMAIN msgs /\ msgs[e.id].mention \in BOOLEAN
    BY <1>6, MessageTyped DEF BeginMap, AllInStep, Messages
  <2>2. /\ DOMAIN r = DOMAIN Idle /\ r.at = "directory" /\ r.op = "map" /\ r.stored = 0
        /\ r.id = e.id /\ r.mention = IF e.id = 0 THEN TRUE ELSE msgs[e.id].mention
    BY DEF Idle
  <2>3. Begins(c, r)
    BY <1>6 DEF BeginMap
  <2> HIDE DEF r
  <2>4. ReadInStep(r) /\ MapInStep(r)
    BY <2>1, <2>2 DEF ReadInStep, MapInStep
  <2> QED
    BY <2>1, <2>2, <2>3, <2>4, BeginsInStep
<1> QED
  BY <1>1, <1>2, <1>3, <1>4, <1>5, <1>6 DEF Begin

-----------------------------------------------------------------------------
(* A resolution finds its thread *)

LEMMA MaxIsMember ==
  ASSUME RealmInStep, NEW S, S \subseteq DOMAIN msgs, S # {}
  PROVE  MaxOf(S) \in S
<1>1. DOMAIN msgs = 1 .. Len(msgs) /\ Len(msgs) \in Nat
  BY LenProperties DEF RealmInStep
<1> DEFINE Left == {Len(msgs) - i : i \in S}
<1>2. Left \subseteq Nat /\ Left # {}
  BY <1>1
<1>3. PICK n \in Left : \A m \in Left : <<m, n>> \notin OpToRel(<, Nat)
  BY <1>2, NatLessThanWellFounded, WFMin
<1>4. PICK i \in S : n = Len(msgs) - i
  BY <1>3
<1>5. \A j \in S : j <= i
  <2> TAKE j \in S
  <2>1. Len(msgs) - j \in Left /\ n \in Nat /\ Len(msgs) - j \in Nat
    BY <1>2, <1>3
  <2>2. ~(Len(msgs) - j < n)
    BY <1>3, <2>1 DEF OpToRel
  <2> QED
    BY <1>1, <1>4, <2>2
<1> QED
  BY <1>5 DEF MaxOf

LEMMA FindSourceStep ==
  ASSUME AllInStep, NEW c \in Callers, FindSource(c)
  PROVE  AllInStep'
<1> DEFINE r == call[c]
           s == [r EXCEPT !.at = "patch", !.id = MaxOf(Ids(r.form))]
<1>1. Still /\ r.at = "source" /\ UNCHANGED <<listed, known, copy>>
  BY DEF FindSource, realmVars, cacheVars, Still, At
<1>2. Sound(r) /\ r.op = "resolve" /\ r.form \in {"plain", "done"} /\ r.stored = 0
  BY <1>1, CallSound DEF AllInStep, OpInStep, SendInStep, ThreadInStep
<1>3. CallsInStep'
  <2>1. CASE ~Holds(r.form) /\ Goes(c, "target")
    BY <1>1, <1>2, <2>1, CallSound, GoesInStep
    DEF AllInStep, OpInStep, Checking, Publishes, Idle, Mapping
  <2>2. CASE Holds(r.form) /\ Moves(c, s)
    <3>1. MaxOf(Ids(r.form)) \in Ids(r.form)
      BY <2>2, MaxIsMember DEF AllInStep, Holds, Ids
    <3>2. /\ DOMAIN s = DOMAIN Idle /\ s.at = "patch" /\ s.id = MaxOf(Ids(r.form))
          /\ SameCall(r, [s EXCEPT !.at = r.at, !.id = r.id])
      BY <1>2 DEF Sound, SameCall, Idle
    <3> HIDE DEF s
    <3>3. /\ s.op = r.op /\ s.stored = r.stored /\ s.mention = r.mention /\ s.form = r.form
          /\ s.target = r.target /\ s.dead = r.dead /\ s.lacked = r.lacked
      BY <3>2 DEF SameCall, Idle
    <3>4. OpInStep(s) /\ SendInStep(s)
      BY <1>2, <3>2, <3>3 DEF OpInStep, SendInStep, Checking, Mapping
    <3>5. ReachInStep(s)
      BY <1>2, <3>2, <3>3 DEF Sound, ReachInStep, Publishes
    <3>6. ThreadInStep(s)
      BY <1>2, <3>1, <3>2, <3>3 DEF Sound, ThreadInStep
    <3>7. DescriptionInStep(s) /\ ReadInStep(s) /\ MapInStep(s)
      BY <1>2, <3>2, <3>3 DEF DescriptionInStep, ReadInStep, MapInStep
    <3>8. Sound(s)
      BY <3>2, <3>4, <3>5, <3>6, <3>7 DEF Sound
    <3> QED
      BY <1>1, <2>2, <3>8, StillMoves DEF AllInStep
  <2> QED
    BY <2>1, <2>2 DEF FindSource
<1> QED
  BY <1>1, <1>3, StillRealm DEF AllInStep, RealmInStep

-----------------------------------------------------------------------------
(* An event is mapped *)

LEMMA RowsHold ==
  ASSUME NEW r
  PROVE  Range(Rows(r)) = IF r.id = 0 THEN {} ELSE {r.id}
<1>1. r.id = 0 => Range(<<>>) = {}
  BY DEF Range
<1>2. r.id # 0 => Range(<<r.id>>) = {r.id}
  BY DEF Range
<1> QED
  BY <1>1, <1>2 DEF Rows

\* The call ends with what the event amounts to.
LEMMA MapsInStep ==
  ASSUME AllInStep, NEW c \in Callers, NEW r, NEW rows, NEW told, Maps(c, r, rows, told), Still,
         Sound(r), r.op = "map", r.at \in Mapping,
         r.form = "message" =>
           Range(rows) \subseteq IF r.id = 0 \/ (r.id \in told <=> r.mention) THEN {r.id} \ {0} ELSE {}
  PROVE  CallsInStep'
<1> DEFINE s == [r EXCEPT !.at = "end", !.result = "ok", !.got = rows, !.told = told]
<1>1. Moves(c, s)
  BY DEF Maps
<1>2. /\ DOMAIN s = DOMAIN Idle /\ s.at = "end" /\ s.result = "ok" /\ s.got = rows
      /\ s.told = told
      /\ SameCall(r, [s EXCEPT !.at = r.at, !.result = r.result, !.got = r.got, !.told = r.told])
  BY DEF Sound, SameCall, Idle
<1> HIDE DEF s
<1>3. /\ s.op = r.op /\ s.stored = r.stored /\ s.mention = r.mention /\ s.form = r.form
      /\ s.dead = r.dead /\ s.lacked = r.lacked /\ s.id = r.id
  BY <1>2 DEF SameCall, Idle
<1>4. OpInStep(s)
  BY <1>2 DEF OpInStep, Checking, Mapping
<1>5. SendInStep(s)
  BY <1>2, <1>3 DEF Sound, SendInStep, Mapping
<1>6. ReachInStep(s)
  BY <1>2, <1>3 DEF Sound, ReachInStep, Publishes
<1>7. ThreadInStep(s) /\ DescriptionInStep(s) /\ ReadInStep(s)
  BY <1>2, <1>3 DEF ThreadInStep, DescriptionInStep, ReadInStep
<1>8. MapInStep(s)
  BY <1>2, <1>3 DEF Sound, MapInStep, Mapping
<1>9. Sound(s)
  BY <1>2, <1>4, <1>5, <1>6, <1>7, <1>8 DEF Sound
<1> QED
  BY <1>1, <1>9, StillMoves DEF AllInStep

\* The mapping needs another request.
LEMMA MapAsks ==
  ASSUME AllInStep, NEW c \in Callers, NEW r, Sound(r), r.op = "map", r.at \in Mapping, Still,
         NEW at \in {"ref", "author", "show", "named"}, Moves(c, [r EXCEPT !.at = at]),
         at \in {"show", "named"} => r.mention, at = "named" => r.id # 0
  PROVE  CallsInStep'
<1> DEFINE s == [r EXCEPT !.at = at]
<1>1. /\ DOMAIN s = DOMAIN Idle /\ s.at = at /\ SameCall(r, [s EXCEPT !.at = r.at])
      /\ Moves(c, s)
  BY DEF Sound, SameCall, Idle
<1> HIDE DEF s
<1>2. /\ s.op = r.op /\ s.stored = r.stored /\ s.mention = r.mention /\ s.id = r.id
      /\ s.dead = r.dead /\ s.lacked = r.lacked
  BY <1>1 DEF SameCall, Idle
<1>3. OpInStep(s)
  BY <1>1, <1>2 DEF OpInStep, Checking, Mapping
<1>4. SendInStep(s)
  BY <1>1, <1>2 DEF Sound, SendInStep, Mapping
<1>5. ReachInStep(s)
  BY <1>1, <1>2 DEF Sound, ReachInStep, Publishes
<1>6. ThreadInStep(s) /\ DescriptionInStep(s) /\ ReadInStep(s)
  BY <1>1, <1>2 DEF ThreadInStep, DescriptionInStep, ReadInStep
<1>7. MapInStep(s)
  BY <1>1, <1>2 DEF Sound, MapInStep, Mapping
<1>8. Sound(s)
  BY <1>1, <1>3, <1>4, <1>5, <1>6, <1>7 DEF Sound
<1> QED
  BY <1>1, <1>8, StillMoves DEF AllInStep

LEMMA MapsOnInStep ==
  ASSUME AllInStep, NEW c \in Callers, NEW r, Sound(r), r.op = "map", r.at \in Mapping, Still,
         MapsOn(c, r)
  PROVE  CallsInStep'
<1>1. r.mention \in BOOLEAN /\ (r.id = 0 => Range(Rows(r)) = {}) /\ Range(<<>>) = {}
      /\ (r.id # 0 => Range(Rows(r)) = {r.id})
  BY RowsHold, EmptySequence DEF Sound, ReachInStep
<1>2. CASE r.form # "message" /\ Maps(c, r, <<>>, {})
  BY <1>2, MapsInStep
<1>3. CASE (r.form = "message" => ~r.mention) /\ Maps(c, r, Rows(r), {})
  BY <1>1, <1>3, MapsInStep
<1>4. CASE \E at \in {"ref", "author"} : Moves(c, [r EXCEPT !.at = at])
  BY <1>4, MapAsks
<1>5. CASE r.mention /\ Moves(c, [r EXCEPT !.at = "show"])
  BY <1>5, MapAsks
<1> QED
  BY <1>2, <1>3, <1>4, <1>5 DEF MapsOn

\* What the call has learnt of its author and its message's place.
LEMMA LearnsSound ==
  ASSUME NEW r, Sound(r), r.at # "spans", NEW s, DOMAIN s = DOMAIN Idle,
         SameCall(r, [s EXCEPT !.dir = r.dir, !.cached = r.cached])
  PROVE  Sound(s) /\ s.op = r.op /\ s.at = r.at
<1>1. s.op = r.op /\ s.at = r.at
  BY DEF SameCall, Idle
<1>2. OpInStep(s) /\ SendInStep(s)
  BY DEF Sound, SameCall, OpInStep, SendInStep, Idle
<1>3. ReachInStep(s)
  BY DEF Sound, SameCall, ReachInStep, Idle
<1>4. ThreadInStep(s)
  BY DEF Sound, SameCall, ThreadInStep, Idle
<1>5. DescriptionInStep(s) /\ MapInStep(s)
  BY DEF Sound, SameCall, DescriptionInStep, MapInStep, Idle
<1>6. ReadInStep(s)
  <2>1. s.form = r.form /\ s.anchor = r.anchor /\ s.since = r.since /\ s.until = r.until
        /\ s.cap = r.cap
    BY DEF SameCall, Idle
  <2>2. PageSize(s) = PageSize(r) /\ Before(s) = Before(r)
    BY <2>1 DEF PageSize, Bounded, Before
  <2>3. Page(s) = Page(r)
    BY <2>1, <2>2 DEF Page
  <2> QED
    BY <2>3 DEF Sound, SameCall, ReadInStep, Idle
<1> QED
  BY <1>1, <1>2, <1>3, <1>4, <1>5, <1>6 DEF Sound

LEMMA MappingStep ==
  ASSUME AllInStep, NEW c \in Callers,
         \/ ResolveDirectory(c) \/ FetchMessageRef(c) \/ CoverAuthor(c)
         \/ ShowMessage(c) \/ CoverMentioned(c)
  PROVE  AllInStep'
<1> DEFINE r == call[c]
<1>1. Still /\ UNCHANGED <<listed, known, copy>>
  BY DEF ResolveDirectory, FetchMessageRef, CoverAuthor, ShowMessage, CoverMentioned,
    realmVars, cacheVars, Still
<1>2. /\ Sound(r) /\ r.op = "map" /\ r.at \in Mapping /\ DOMAIN r = DOMAIN Idle
      /\ r.at \in {"show", "named"} => r.mention
      /\ r.at = "named" => r.id # 0
  BY CallSound
  DEF ResolveDirectory, FetchMessageRef, CoverAuthor, ShowMessage, CoverMentioned, At,
    AllInStep, Sound, OpInStep, MapInStep, Mapping
<1>3. CallsInStep'
  <2>1. CASE ResolveDirectory(c) \/ CoverAuthor(c)
    <3>1. PICK dir : MapsOn(c, [r EXCEPT !.dir = dir])
      BY <2>1 DEF ResolveDirectory, CoverAuthor
    <3> DEFINE s == [r EXCEPT !.dir = dir]
    <3>2. DOMAIN s = DOMAIN Idle /\ SameCall(r, [s EXCEPT !.dir = r.dir, !.cached = r.cached])
      BY <1>2 DEF SameCall, Idle
    <3> HIDE DEF s
    <3>3. Sound(s) /\ s.op = "map" /\ s.at \in Mapping
      BY <1>2, <3>2, LearnsSound DEF Mapping
    <3>4. MapsOn(c, s)
      BY <3>1 DEF s
    <3> QED
      BY <1>1, <3>3, <3>4, MapsOnInStep
  <2>2. CASE FetchMessageRef(c) /\ Located(r)
    <3> DEFINE s == [r EXCEPT !.cached = TRUE]
    <3>1. /\ DOMAIN s = DOMAIN Idle
          /\ SameCall(r, [s EXCEPT !.dir = r.dir, !.cached = r.cached])
          /\ MapsOn(c, s)
      BY <1>2, <2>2 DEF SameCall, Idle, FetchMessageRef
    <3> HIDE DEF s
    <3>2. Sound(s) /\ s.op = "map" /\ s.at \in Mapping
      BY <1>2, <3>1, LearnsSound DEF Mapping
    <3> QED
      BY <1>1, <3>1, <3>2, MapsOnInStep
  <2>3. CASE FetchMessageRef(c) /\ ~Located(r)
    <3>1. Maps(c, r, <<>>, {}) /\ \A i : i \notin Range(<<>>)
      BY <2>3, EmptySequence DEF FetchMessageRef
    <3> QED
      BY <1>1, <1>2, <3>1, MapsInStep
  <2>4. CASE ShowMessage(c)
    <3>1. CASE r.id # 0 /\ Moves(c, [r EXCEPT !.at = "named"])
      BY <1>1, <1>2, <2>4, <3>1, MapAsks DEF ShowMessage, At
    <3>2. CASE Maps(c, r, Rows(r), Range(Rows(r)))
      BY <1>1, <1>2, <2>4, <3>2, RowsHold, MapsInStep DEF ShowMessage, At
    <3> QED
      BY <2>4, <3>1, <3>2 DEF ShowMessage
  <2>5. CASE CoverMentioned(c)
    <3>1. member # "absent"
      BY <1>2, <2>5 DEF CoverMentioned, At, AllInStep, RealmInStep, Sound, MapInStep, Mapping
    <3>2. Maps(c, r, Rows(r), {r.id})
      BY <2>5, <3>1 DEF CoverMentioned
    <3> QED
      BY <1>1, <1>2, <2>5, <3>2, RowsHold, MapsInStep DEF CoverMentioned, At
  <2> QED
    BY <2>1, <2>2, <2>3, <2>4, <2>5
<1> QED
  BY <1>1, <1>3, StillRealm DEF AllInStep, RealmInStep

-----------------------------------------------------------------------------
(* Sets of messages in order *)

LEMMA LeastExists ==
  ASSUME NEW S, S \subseteq Nat, S # {}
  PROVE  \E m \in S : \A j \in S : m <= j
<1>1. PICK m \in S : \A j \in S : <<j, m>> \notin OpToRel(<, Nat)
  BY NatLessThanWellFounded, WFMin
<1>2. \A j \in S : ~(j < m)
  BY <1>1 DEF OpToRel
<1> QED
  BY <1>2

\* In a finite set of numbers every rank is taken.
LEMMA RankTaken ==
  ASSUME NEW S, S \subseteq Nat, IsFiniteSet(S)
  PROVE  \A k \in 1 .. Cardinality(S) : \E i \in S : Cardinality({j \in S : j < i}) = k - 1
<1> DEFINE Below(i) == {j \in S : j < i}
           Taken(k) == \E i \in S : Cardinality(Below(i)) = k - 1
           Free == {k \in 1 .. Cardinality(S) : ~Taken(k)}
<1>1. Cardinality(S) \in Nat
  BY FS_CardinalityType
<1>2. SUFFICES ASSUME Free # {}
               PROVE  FALSE
  OBVIOUS
<1>3. PICK k \in Free : \A n \in Free : k <= n
  <2>1. Free \subseteq Nat
    BY <1>1
  <2> HIDE DEF Free
  <2> QED
    BY <1>2, <2>1, LeastExists
<1>4. CASE k = 1
  <2>1. S # {}
    BY <1>1, <1>3, <1>4, FS_EmptySet
  <2>2. PICK m \in S : \A j \in S : m <= j
    BY <2>1, LeastExists
  <2>3. Below(m) = {}
    <3>1. m \in Nat /\ \A j \in S : j \in Nat /\ ~(j < m)
      BY <2>2
    <3> QED
      BY <3>1
  <2>4. Cardinality(Below(m)) = k - 1
    <3>1. Cardinality(Below(m)) = 0
      BY <2>3, FS_EmptySet
    <3> QED
      BY <1>4, <3>1
  <2>5. Taken(k)
    BY <2>4
  <2> QED
    BY <1>3, <2>5
<1>5. CASE k # 1
  <2>1. k - 1 \in 1 .. Cardinality(S) /\ k - 1 \notin Free /\ k \in 1 .. Cardinality(S)
    BY <1>1, <1>3, <1>5
  <2>2. PICK i \in S : Cardinality(Below(i)) = k - 2
    BY <1>1, <2>1
  <2> DEFINE Upto == Below(i) \cup {i}
             Above == S \ Upto
  <2>3. IsFiniteSet(Below(i)) /\ i \notin Below(i)
    BY FS_Subset
  <2>4. IsFiniteSet(Upto) /\ Cardinality(Upto) = k - 1
    <3> HIDE DEF Below
    <3> QED
      BY <1>1, <2>1, <2>2, <2>3, FS_AddElement
  <2>5. Above # {}
    <3>1. Upto \subseteq S
      OBVIOUS
    <3>2. Cardinality(Upto) # Cardinality(S)
      BY <1>1, <2>1, <2>4
    <3> QED
      BY <3>1, <3>2
  <2>6. PICK m \in Above : \A j \in Above : m <= j
    <3>1. Above \subseteq Nat
      OBVIOUS
    <3> HIDE DEF Above
    <3> QED
      BY <2>5, <3>1, LeastExists
  <2>7. Below(m) = Upto
    <3>1. m \in S /\ m > i /\ i \in Nat /\ m \in Nat
      BY <2>6
    <3>2. \A j \in S : j < m <=> j \in Upto
      BY <2>6, <3>1
    <3> QED
      BY <3>2
  <2>8. Taken(k)
    <3>1. Cardinality(Below(m)) = k - 1 /\ m \in S
      BY <2>4, <2>6, <2>7
    <3> QED
      BY <3>1
  <2> QED
    BY <1>3, <2>8
<1> QED
  BY <1>4, <1>5

LEMMA AscendingTyped ==
  ASSUME RealmInStep, NEW S, S \subseteq DOMAIN msgs
  PROVE  Ascending(S) \in Seq(S)
<1>1. DOMAIN msgs = 1 .. Len(msgs) /\ Len(msgs) \in Nat
  BY LenProperties DEF RealmInStep
<1>2. IsFiniteSet(1 .. Len(msgs))
  BY <1>1, FS_Interval
<1>3. IsFiniteSet(S) /\ S \subseteq Nat
  BY <1>1, <1>2, FS_Subset
<1>4. Cardinality(S) \in Nat
  BY <1>3, FS_CardinalityType
<1>5. \A k \in 1 .. Cardinality(S) : \E i \in S : Cardinality({j \in S : j < i}) = k - 1
  BY <1>3, RankTaken
<1>6. Ascending(S) \in [1 .. Cardinality(S) -> S]
  BY <1>5 DEF Ascending
<1> QED
  BY <1>4, <1>6

\* What is kept of a walk's rows were rows of the walk.
LEMMA LastTyped ==
  ASSUME NEW E, NEW s \in Seq(E), NEW n \in Nat
  PROVE  LastOf(s, n) \in Seq(E) /\ Range(LastOf(s, n)) \subseteq Range(s)
<1>1. Len(s) \in Nat /\ DOMAIN s = 1 .. Len(s) /\ s \in [1 .. Len(s) -> E]
  BY LenProperties
<1>2. CASE Len(s) <= n
  BY <1>2 DEF LastOf
<1>3. CASE Len(s) > n
  <2> DEFINE m == Len(s) - n + 1
  <2>1. LastOf(s, n) = SubSeq(s, m, Len(s)) /\ m \in Int
    BY <1>1, <1>3 DEF LastOf
  <2>2. m >= 1
    BY <1>1, <1>3
  <2>3. \A i \in m .. Len(s) : s[i] \in E /\ s[i] \in Range(s)
    BY <1>1, <2>2 DEF Range
  <2> HIDE DEF m
  <2>4. SubSeq(s, m, Len(s)) \in Seq(E) /\ SubSeq(s, m, Len(s)) \in Seq(Range(s))
    BY <1>1, <2>1, <2>3, SubSeqProperties
  <2>5. \A t \in Seq(Range(s)) : Range(t) \subseteq Range(s)
    BY LenProperties DEF Range
  <2> QED
    BY <2>1, <2>4, <2>5
<1> QED
  BY <1>1, <1>2, <1>3

-----------------------------------------------------------------------------
(* A walk through history *)

\* The parts of a call's record that a walk works on.
Walking(r, s) ==
  /\ DOMAIN s = DOMAIN Idle
  /\ SameCall(r, [s EXCEPT !.at = r.at, !.form = r.form, !.result = r.result,
                           !.anchor = r.anchor, !.left = r.left, !.seen = r.seen,
                           !.rows = r.rows, !.got = r.got, !.told = r.told])

LEMMA WalkingSound ==
  ASSUME NEW r, Sound(r), r.op = "read", r.at \in {"walk", "render"}, NEW s, Walking(r, s),
         s.at \in {"walk", "render", "end"}, s.at = "end" => s.result = "ok",
         s.rows \subseteq DOMAIN msgs, s.got \in Seq(DOMAIN msgs),
         s.told \subseteq {i \in DOMAIN msgs : msgs[i].mention},
         ~r.disturbed => \A i \in Range(s.got) : msgs[i].mention => i \in s.told,
         s.at = "render" => s.rows = Page(s)
  PROVE  Sound(s)
<1>1. /\ s.op = r.op /\ s.stored = r.stored /\ s.mention = r.mention /\ s.dead = r.dead
      /\ s.lacked = r.lacked /\ s.cap = r.cap /\ s.disturbed = r.disturbed
  BY DEF Walking, SameCall, Idle
<1>2. OpInStep(s)
  BY <1>1 DEF OpInStep, Checking, Mapping
<1>3. SendInStep(s)
  BY <1>1 DEF Sound, SendInStep
<1>4. ReachInStep(s)
  BY <1>1 DEF Sound, ReachInStep, Publishes
<1>5. ThreadInStep(s) /\ DescriptionInStep(s) /\ MapInStep(s)
  BY <1>1 DEF ThreadInStep, DescriptionInStep, MapInStep
<1>6. ReadInStep(s)
  BY <1>1 DEF Sound, ReadInStep
<1> QED
  BY <1>2, <1>3, <1>4, <1>5, <1>6 DEF Sound, Walking

LEMMA WalkEndsInStep ==
  ASSUME AllInStep, NEW c \in Callers, NEW r, Sound(r), r.op = "read",
         r.at \in {"walk", "render"}, WalkEnds(c, r), Still
  PROVE  CallsInStep'
<1>1. /\ DOMAIN r = DOMAIN Idle /\ r.got \in Seq(DOMAIN msgs) /\ r.cap \in Nat
      /\ r.told \subseteq {i \in DOMAIN msgs : msgs[i].mention}
      /\ ~r.disturbed => \A i \in Range(r.got) : msgs[i].mention => i \in r.told
      /\ r.rows \subseteq DOMAIN msgs
  BY DEF Sound, ReadInStep
<1>2. CASE Moves(c, Walk(r, "done"))
  <2> DEFINE s == Walk(r, "done")
  <2>1. /\ Walking(r, s) /\ s.at = "walk" /\ s.rows = r.rows /\ s.got = <<>> /\ s.told = {}
    BY <1>1 DEF Walk, Walking, SameCall, Idle
  <2> HIDE DEF s
  <2>2. s.got \in Seq(DOMAIN msgs) /\ \A i : i \notin Range(s.got)
    BY <2>1, EmptySequence
  <2>3. Sound(s)
    BY <1>1, <2>1, <2>2, WalkingSound
  <2>4. Moves(c, s)
    BY <1>2 DEF s
  <2> QED
    BY <2>3, <2>4, StillMoves DEF AllInStep
<1>3. CASE Moves(c, [r EXCEPT !.at = "end", !.result = "ok", !.got = LastOf(@, r.cap),
                             !.rows = {}, !.seen = {}])
  <2> DEFINE s == [r EXCEPT !.at = "end", !.result = "ok", !.got = LastOf(@, r.cap),
                            !.rows = {}, !.seen = {}]
  <2>1. /\ Walking(r, s) /\ s.at = "end" /\ s.result = "ok" /\ s.rows = {}
        /\ s.got = LastOf(r.got, r.cap) /\ s.told = r.told
    BY <1>1 DEF Walking, SameCall, Idle
  <2> HIDE DEF s
  <2>2. s.got \in Seq(DOMAIN msgs) /\ Range(s.got) \subseteq Range(r.got)
    <3>1. /\ LastOf(r.got, r.cap) \in Seq(DOMAIN msgs)
          /\ Range(LastOf(r.got, r.cap)) \subseteq Range(r.got)
      BY <1>1, LastTyped
    <3> QED
      BY <2>1, <3>1
  <2>3. Sound(s)
    BY <1>1, <2>1, <2>2, WalkingSound
  <2>4. Moves(c, s)
    BY <1>3 DEF s
  <2> QED
    BY <2>3, <2>4, StillMoves DEF AllInStep
<1> QED
  BY <1>2, <1>3 DEF WalkEnds

LEMMA RangeOfConcat ==
  ASSUME NEW E, NEW s \in Seq(E), NEW t \in Seq(E), NEW i \in Range(s \o t)
  PROVE  i \in Range(s) \/ i \in Range(t)
<1>1. /\ Len(s) \in Nat /\ DOMAIN s = 1 .. Len(s) /\ Len(t) \in Nat /\ DOMAIN t = 1 .. Len(t)
      /\ s \o t \in Seq(E)
      /\ Len(s \o t) = Len(s) + Len(t)
      /\ \A k \in 1 .. Len(s) + Len(t) :
           (s \o t)[k] = IF k <= Len(s) THEN s[k] ELSE t[k - Len(s)]
  BY LenProperties, ConcatProperties
<1>2. DOMAIN (s \o t) = 1 .. Len(s) + Len(t)
  BY <1>1, LenProperties
<1>3. PICK k \in 1 .. Len(s) + Len(t) : i = (s \o t)[k]
  BY <1>2 DEF Range
<1>4. CASE k <= Len(s)
  BY <1>1, <1>3, <1>4 DEF Range
<1>5. CASE k > Len(s)
  <2>1. k - Len(s) \in 1 .. Len(t) /\ i = t[k - Len(s)]
    BY <1>1, <1>3, <1>5
  <2> QED
    BY <1>1, <2>1 DEF Range
<1> QED
  BY <1>1, <1>4, <1>5

\* A turn of the walk takes the rows it keeps and names their mentions.
LEMMA TurnInStep ==
  ASSUME AllInStep, NEW c \in Callers, NEW r, Sound(r), r.op = "read",
         r.at \in {"walk", "render"}, Still, NEW told, Turn(c, r, Kept(r), told),
         told \subseteq {i \in Kept(r) : msgs[i].mention},
         ~r.disturbed => \A i \in Kept(r) : msgs[i].mention => i \in told
  PROVE  CallsInStep'
<1> DEFINE s == Turned(r, Kept(r), told)
<1>1. /\ DOMAIN r = DOMAIN Idle /\ r.got \in Seq(DOMAIN msgs)
      /\ r.told \subseteq {i \in DOMAIN msgs : msgs[i].mention}
      /\ ~r.disturbed => \A i \in Range(r.got) : msgs[i].mention => i \in r.told
      /\ r.rows \subseteq DOMAIN msgs
  BY DEF Sound, ReadInStep
<1>2. Kept(r) \subseteq DOMAIN msgs
  BY <1>1 DEF Kept
<1>3. Ascending(Kept(r)) \in Seq(Kept(r))
  BY <1>2, AscendingTyped DEF AllInStep
<1>4. Ascending(Kept(r)) \in Seq(DOMAIN msgs) /\ Range(Ascending(Kept(r))) \subseteq Kept(r)
  BY <1>2, <1>3, LenProperties DEF Range
<1>5. /\ Walking(r, s) /\ s.at = "walk" /\ s.rows = r.rows
      /\ s.got = Ascending(Kept(r)) \o r.got /\ s.told = r.told \cup told
  BY <1>1 DEF Turned, Walking, SameCall, Idle
<1>6. (Moves(c, s) \/ WalkEnds(c, s))
  BY DEF Turn
<1> HIDE DEF s
<1>7. s.got \in Seq(DOMAIN msgs)
  BY <1>1, <1>4, <1>5, ConcatProperties
<1>8. \A i \in Range(s.got) : i \in Kept(r) \/ i \in Range(r.got)
  BY <1>1, <1>4, <1>5, RangeOfConcat
<1>9. s.told \subseteq {i \in DOMAIN msgs : msgs[i].mention}
  BY <1>1, <1>2, <1>5
<1>10. ~r.disturbed => \A i \in Range(s.got) : msgs[i].mention => i \in s.told
  BY <1>1, <1>5, <1>8
<1>11. Sound(s) /\ s.op = "read" /\ s.at = "walk"
  <2>1. Sound(s)
    BY <1>1, <1>5, <1>7, <1>9, <1>10, WalkingSound
  <2> QED
    BY <1>5, <2>1 DEF Sound, OpInStep
<1> QED
  BY <1>6, <1>11, WalkEndsInStep, StillMoves DEF AllInStep

LEMMA SamePage ==
  ASSUME NEW r, NEW s, s.form = r.form, s.anchor = r.anchor, s.since = r.since,
         s.until = r.until, s.cap = r.cap
  PROVE  Page(s) = Page(r)
<1>1. PageSize(s) = PageSize(r) /\ Before(s) = Before(r)
  BY DEF PageSize, Bounded, Before
<1> QED
  BY <1>1 DEF Page

LEMMA WalkPageStep ==
  ASSUME AllInStep, NEW c \in Callers, WalkPage(c)
  PROVE  AllInStep'
<1> DEFINE q == call[c]
           r == [q EXCEPT !.rows = Page(q)]
<1>1. Still /\ q.at = "walk" /\ UNCHANGED <<listed, known, copy>>
  BY DEF WalkPage, realmVars, cacheVars, Still, At
<1>2. Sound(q) /\ q.op = "read" /\ DOMAIN q = DOMAIN Idle /\ ReadInStep(q)
  BY <1>1, CallSound DEF AllInStep, Sound, OpInStep
<1>3. Page(q) \subseteq DOMAIN msgs
  BY DEF Page, NewestOf, Before, Ids
<1>4. /\ Walking(q, r) /\ r.at = "walk" /\ r.rows = Page(q) /\ r.got = q.got
      /\ r.told = q.told /\ r.disturbed = q.disturbed /\ r.op = q.op
      /\ r.form = q.form /\ r.anchor = q.anchor /\ r.since = q.since
      /\ r.until = q.until /\ r.cap = q.cap
  BY <1>1, <1>2 DEF Walking, SameCall, Idle
<1>5. \/ WalkEnds(c, r)
      \/ Moves(c, [r EXCEPT !.at = "render"])
      \/ (\A i \in Kept(r) : ~msgs[i].mention) /\ Turn(c, r, Kept(r), {})
  BY DEF WalkPage
<1> HIDE DEF r
<1>6. Sound(r) /\ DOMAIN r = DOMAIN Idle
  BY <1>1, <1>2, <1>3, <1>4, WalkingSound DEF ReadInStep, Walking
<1>7. CallsInStep'
  <2>1. CASE WalkEnds(c, r)
    BY <1>1, <1>2, <1>4, <1>6, <2>1, WalkEndsInStep
  <2>2. CASE Moves(c, [r EXCEPT !.at = "render"])
    <3> DEFINE s == [r EXCEPT !.at = "render"]
    <3>1. /\ Walking(r, s) /\ s.at = "render" /\ s.rows = r.rows /\ s.got = r.got
          /\ s.told = r.told /\ s.form = r.form /\ s.anchor = r.anchor
          /\ s.since = r.since /\ s.until = r.until /\ s.cap = r.cap
      BY <1>6 DEF Walking, SameCall, Idle
    <3>2. Moves(c, s)
      BY <2>2
    <3> HIDE DEF s
    <3>3. Page(s) = Page(r) /\ Page(r) = Page(q)
      BY <1>4, <3>1, SamePage
    <3>4. ReadInStep(r) /\ r.op = "read"
      BY <1>2, <1>4, <1>6 DEF Sound
    <3>5. Sound(s)
      BY <1>4, <1>6, <3>1, <3>3, <3>4, WalkingSound DEF ReadInStep
    <3> QED
      BY <1>1, <3>2, <3>5, StillMoves DEF AllInStep
  <2>3. CASE (\A i \in Kept(r) : ~msgs[i].mention) /\ Turn(c, r, Kept(r), {})
    BY <1>1, <1>2, <1>4, <1>6, <2>3, TurnInStep
  <2> QED
    BY <1>5, <2>1, <2>2, <2>3
<1> QED
  BY <1>1, <1>7, StillRealm DEF AllInStep, RealmInStep

LEMMA RenderPageStep ==
  ASSUME AllInStep, NEW c \in Callers, RenderPage(c)
  PROVE  AllInStep'
<1> DEFINE r == call[c]
           told == {i \in Kept(r) \cap RenderedRows(r) : msgs[i].mention}
<1>1. /\ Still /\ r.at = "render" /\ UNCHANGED <<listed, known, copy>>
      /\ Turn(c, r, Kept(r), told)
  BY DEF RenderPage, realmVars, cacheVars, Still, At
<1>2. Sound(r) /\ r.op = "read" /\ ReadInStep(r)
  BY <1>1, CallSound DEF AllInStep, Sound, OpInStep
<1>3. ~r.disturbed => Kept(r) \subseteq RenderedRows(r)
  BY <1>1, <1>2 DEF ReadInStep, Kept, RenderedRows
<1>4. CallsInStep'
  BY <1>1, <1>2, <1>3, TurnInStep
<1> QED
  BY <1>1, <1>4, StillRealm DEF AllInStep, RealmInStep

-----------------------------------------------------------------------------
(* The steps that change the realm *)

\* A call that took note of what another call, or the realm, did.
Noted(r, s) ==
  /\ DOMAIN s = DOMAIN Idle /\ s.waited = r.waited /\ s.tries = r.tries
  /\ SameCall(r, [s EXCEPT !.dead = r.dead, !.patched = r.patched, !.disturbed = r.disturbed])
  /\ (r.dead => s.dead) /\ (r.patched => s.patched) /\ (r.disturbed => s.disturbed)

LEMMA NotedInStep ==
  ASSUME NEW r, InStep(r), NEW s, Noted(r, s)
  PROVE  InStep(s)
<1>1. WaitInStep(s)
  BY DEF InStep, WaitInStep, Noted
<1>2. OpInStep(s)
  BY DEF InStep, Sound, OpInStep, Noted, SameCall, Idle
<1>3. SendInStep(s)
  BY DEF InStep, Sound, SendInStep, Noted, SameCall, Idle
<1>4. ReachInStep(s)
  <2>1. /\ s.at = r.at /\ s.op = r.op /\ s.result = r.result /\ s.mention = r.mention
        /\ s.dir = r.dir /\ s.lacked = r.lacked /\ (r.dead => s.dead)
    BY DEF Noted, SameCall, Idle
  <2> QED
    BY <2>1 DEF InStep, Sound, ReachInStep
<1>5. ThreadInStep(s)
  BY DEF InStep, Sound, ThreadInStep, Noted, SameCall, Idle
<1>6. DescriptionInStep(s)
  BY DEF InStep, Sound, DescriptionInStep, Noted, SameCall, Idle
<1>7. ReadInStep(s)
  <2>1. s.form = r.form /\ s.anchor = r.anchor /\ s.since = r.since /\ s.until = r.until
        /\ s.cap = r.cap
    BY DEF Noted, SameCall, Idle
  <2>2. Page(s) = Page(r)
    BY <2>1, SamePage
  <2> QED
    BY <2>2 DEF InStep, Sound, ReadInStep, Noted, SameCall, Idle
<1>8. MapInStep(s)
  BY DEF InStep, Sound, MapInStep, Noted, SameCall, Idle
<1> QED
  BY <1>1, <1>2, <1>3, <1>4, <1>5, <1>6, <1>7, <1>8 DEF InStep, Sound, Noted

LEMMA MemberChangesStep ==
  ASSUME AllInStep, NEW status \in Statuses, MemberChanges(status)
  PROVE  AllInStep'
<1>1. /\ UNCHANGED <<msgs, created, described, raced, known, copy>>
      /\ member' = status /\ status # "absent" /\ listed' \in {"absent", status}
      /\ call' = [c \in Callers |->
                    [call[c] EXCEPT !.dead = @ \/ (call[c].mention /\ status # "active")]]
  BY DEF MemberChanges, cacheVars
<1>2. RealmInStep' /\ ForkNeedsRace'
  <2>1. RealmInStep'
    BY <1>1 DEF AllInStep, RealmInStep
  <2>2. ForkNeedsRace'
    BY <1>1 DEF AllInStep, ForkNeedsRace, Forked, Holds, Ids
  <2> QED
    BY <2>1, <2>2
<1>3. ASSUME NEW c \in Callers
      PROVE  InStep(call[c])'
  <2> DEFINE r == call[c]
  <2>1. PICK s : s = call'[c]
    OBVIOUS
  <2>2. InStep(r) /\ DOMAIN r = DOMAIN Idle
    BY DEF AllInStep, CallsInStep, InStep, Sound
  <2>3. s = [r EXCEPT !.dead = @ \/ (r.mention /\ status # "active")]
    BY <1>1, <2>1
  <2> HIDE DEF r
  <2>4. Noted(r, s) /\ (s.mention /\ status # "active" => s.dead)
    BY <2>2, <2>3 DEF Noted, SameCall, Idle
  <2>5. InStep(s)
    BY <2>2, <2>4, NotedInStep
  <2>6. ThreadInStep(s)' /\ ReadInStep(s)' /\ MapInStep(s)'
    BY <1>1, <2>5, SameMessages DEF InStep
  <2>7. ReachInStep(s)' /\ DescriptionInStep(s)'
    BY <1>1, <2>4, <2>5 DEF InStep, Sound, ReachInStep, DescriptionInStep
  <2>8. InStep(s)'
    BY <2>5, <2>6, <2>7 DEF InStep, Sound, OpInStep, SendInStep, WaitInStep
  <2> QED
    BY <2>1, <2>8
<1>4. CallsInStep'
  BY <1>1, <1>3 DEF CallsInStep
<1> QED
  BY <1>2, <1>4 DEF AllInStep

LEMMA CreateChannelStep ==
  ASSUME AllInStep, CreateChannel
  PROVE  AllInStep'
<1>1. /\ UNCHANGED <<msgs, described, member, raced, listed, known, copy, call>>
      /\ created' = TRUE
  BY DEF CreateChannel, cacheVars
<1>2. RealmInStep'
  BY <1>1 DEF AllInStep, RealmInStep
<1>3. ForkNeedsRace'
  BY <1>1 DEF AllInStep, ForkNeedsRace, Forked, Holds, Ids
<1>4. ASSUME NEW r, InStep(r)
      PROVE  InStep(r)'
  <2>1. ThreadInStep(r)' /\ ReadInStep(r)' /\ MapInStep(r)'
    BY <1>1, <1>4, SameMessages DEF InStep
  <2>2. ReachInStep(r)' /\ DescriptionInStep(r)'
    BY <1>1, <1>4 DEF InStep, Sound, ReachInStep, DescriptionInStep
  <2> QED
    BY <1>4, <2>1, <2>2 DEF InStep, Sound, OpInStep, SendInStep, WaitInStep
<1>5. CallsInStep'
  BY <1>1, <1>4 DEF AllInStep, CallsInStep
<1> QED
  BY <1>2, <1>3, <1>5 DEF AllInStep

LEMMA EndedSoundThen ==
  \A r, result, s : Ended(r, result, s) /\ EndsWell(r, result)' => Sound(s)'
<1>1. (\A r, result, s : Ended(r, result, s) /\ EndsWell(r, result) => Sound(s))'
  BY EndedSound, PTL
<1>2. ASSUME NEW r, NEW result, NEW s, Ended(r, result, s)
      PROVE  Ended(r, result, s)'
  BY <1>2 DEF Ended
<1> QED
  BY <1>1, <1>2

LEMMA SetChannelDescriptionStep ==
  ASSUME AllInStep, NEW c \in Callers, SetChannelDescription(c)
  PROVE  AllInStep'
<1>1. /\ UNCHANGED <<msgs, created, member, raced, listed, known, copy>>
      /\ call[c].at = "describe" /\ described' = call[c].text
  BY DEF SetChannelDescription, cacheVars, At
<1>2. PICK result \in {"ok", "failed"} :
        call' = [d \in Callers |->
                   IF d = c THEN Over(call[d], result)
                   ELSE [call[d] EXCEPT !.disturbed = @ \/ call[d].op = "describe"]]
  BY DEF SetChannelDescription
<1>3. RealmInStep' /\ ForkNeedsRace'
  <2>1. RealmInStep'
    BY <1>1 DEF AllInStep, RealmInStep
  <2>2. ForkNeedsRace'
    BY <1>1 DEF AllInStep, ForkNeedsRace, Forked, Holds, Ids
  <2> QED
    BY <2>1, <2>2
<1>4. InStep(call[c])'
  <2>1. PICK r, s : r = call[c] /\ s = call'[c]
    OBVIOUS
  <2>2. s = Over(r, result)
    BY <1>2, <2>1
  <2>3. Sound(r) /\ r.op = "describe" /\ described' = r.text
    BY <1>1, <2>1, CallSound DEF AllInStep, OpInStep
  <2>4. Ended(r, result, s)
    BY <2>2, OverEnded
  <2>5. EndsWell(r, result)'
    BY <1>1, <2>3 DEF Sound, SendInStep, ReachInStep, ThreadInStep, EndsWell
  <2>6. Sound(s)'
    BY <2>4, <2>5, EndedSoundThen
  <2>7. WaitInStep(s)'
    BY <2>2, PublishingAssumption DEF PublishingAssumption, WaitInStep, Over, Idle
  <2> QED
    BY <2>1, <2>6, <2>7 DEF InStep
<1>5. ASSUME NEW d \in Callers \ {c}
      PROVE  InStep(call[d])'
  <2> DEFINE r == call[d]
  <2>1. PICK s : s = call'[d]
    OBVIOUS
  <2>2. InStep(r) /\ DOMAIN r = DOMAIN Idle
    BY DEF AllInStep, CallsInStep, InStep, Sound
  <2>3. s = [r EXCEPT !.disturbed = @ \/ r.op = "describe"]
    BY <1>2, <2>1
  <2> HIDE DEF r
  <2>4. Noted(r, s) /\ (s.op = "describe" => s.disturbed)
    BY <2>2, <2>3 DEF Noted, SameCall, Idle
  <2>5. InStep(s)
    BY <2>2, <2>4, NotedInStep
  <2>6. ThreadInStep(s)' /\ ReadInStep(s)' /\ MapInStep(s)'
    BY <1>1, <2>5, SameMessages DEF InStep
  <2>7. ReachInStep(s)' /\ DescriptionInStep(s)'
    BY <1>1, <2>4, <2>5 DEF InStep, Sound, ReachInStep, DescriptionInStep
  <2>8. InStep(s)'
    BY <2>5, <2>6, <2>7 DEF InStep, Sound, OpInStep, SendInStep, WaitInStep
  <2> QED
    BY <2>1, <2>8
<1>6. CallsInStep'
  BY <1>2, <1>4, <1>5 DEF CallsInStep
<1> QED
  BY <1>3, <1>6 DEF AllInStep

\* No message is lost, and none gains or loses its mention.
MentionsStay ==
  /\ DOMAIN msgs \subseteq DOMAIN msgs'
  /\ \A i \in DOMAIN msgs : msgs'[i].mention = msgs[i].mention

LEMMA MentionsKept ==
  ASSUME NEW r, Sound(r), MentionsStay, r.op = "read" => r.disturbed
  PROVE  ReadInStep(r)' /\ MapInStep(r)'
<1>1. Seq(DOMAIN msgs) \subseteq Seq(DOMAIN msgs')
  <2>1. \A q \in Seq(DOMAIN msgs) : Len(q) \in Nat /\ q \in [1 .. Len(q) -> DOMAIN msgs]
    BY LenProperties
  <2>2. \A q \in Seq(DOMAIN msgs) : Len(q) \in Nat /\ q \in [1 .. Len(q) -> DOMAIN msgs']
    BY <2>1 DEF MentionsStay
  <2> QED
    BY <2>2
<1>2. ReadInStep(r)'
  BY <1>1 DEF Sound, ReadInStep, MentionsStay
<1>3. MapInStep(r)'
  BY DEF Sound, MapInStep, MentionsStay
<1> QED
  BY <1>2, <1>3

\* One more message.
LEMMA OneMore ==
  ASSUME RealmInStep, NEW m \in Messages, msgs' = Append(msgs, m)
  PROVE  /\ msgs' \in Seq(Messages) /\ MentionsStay
         /\ \A i \in DOMAIN msgs' : i \in DOMAIN msgs \/ msgs'[i] = m
         /\ \A form \in {"plain", "done"} :
              Ids(form) \subseteq Ids(form)' /\ (Holds(form)' <=> Holds(form) \/ m.topic = form)
<1>1. /\ DOMAIN msgs = 1 .. Len(msgs) /\ Len(msgs) \in Nat
      /\ msgs' \in Seq(Messages) /\ Len(msgs') = Len(msgs) + 1
      /\ \A i \in 1 .. Len(msgs) : msgs'[i] = msgs[i]
      /\ msgs'[Len(msgs) + 1] = m
  BY LenProperties, AppendProperties DEF RealmInStep
<1>2. DOMAIN msgs' = 1 .. Len(msgs) + 1
  BY <1>1, LenProperties
<1>3. \A i \in DOMAIN msgs' : i \in DOMAIN msgs \/ i = Len(msgs) + 1
  BY <1>1, <1>2
<1>4. DOMAIN msgs \subseteq DOMAIN msgs' /\ Len(msgs) + 1 \in DOMAIN msgs'
  BY <1>1, <1>2
<1>5. MentionsStay
  BY <1>1, <1>4 DEF MentionsStay
<1>6. ASSUME NEW form \in {"plain", "done"}
      PROVE  Ids(form) \subseteq Ids(form)' /\ (Holds(form)' <=> Holds(form) \/ m.topic = form)
  <2>1. Ids(form) \subseteq Ids(form)'
    BY <1>1, <1>4 DEF Ids
  <2>2. m.topic = form => Len(msgs) + 1 \in Ids(form)'
    BY <1>1, <1>4 DEF Ids
  <2>3. \A i \in Ids(form)' : i \in Ids(form) \/ m.topic = form
    BY <1>1, <1>3 DEF Ids
  <2> QED
    BY <2>1, <2>2, <2>3 DEF Holds
<1> QED
  BY <1>1, <1>3, <1>5, <1>6

LEMMA MessageIsTyped ==
  ASSUME RealmInStep, NEW topic \in {"plain", "done", "none"}, NEW mention \in BOOLEAN
  PROVE  Message(topic, mention) \in Messages
<1>1. Len(msgs) \in Nat /\ DOMAIN msgs = 1 .. Len(msgs) /\ (msgs # <<>> => Len(msgs) # 0)
  BY LenProperties, EmptySeq DEF RealmInStep
<1>2. msgs # <<>> => msgs[Len(msgs)] \in Messages
  BY <1>1, MessageTyped
<1> QED
  BY <1>2 DEF Message, Now, Messages

LEMMA SendStep ==
  ASSUME AllInStep, NEW c \in Callers, Send(c)
  PROVE  AllInStep'
<1>1. PICK q : q = call[c]
  OBVIOUS
<1> DEFINE topic == IF q.threaded THEN q.form ELSE "none"
           sent == [q EXCEPT !.stored = @ + 1]
           after == IF q.threaded THEN [sent EXCEPT !.at = "stored"] ELSE Over(sent, "ok")
<1>2. /\ q.at = "send" /\ created /\ msgs' = Append(msgs, Message(topic, q.mention))
      /\ raced' = (raced \/ (q.threaded /\ q.patched))
      /\ UNCHANGED <<created, described, member, listed, known, copy>>
  BY <1>1 DEF Send, At, cacheVars
<1>3. PICK mine \in {after, [sent EXCEPT !.at = "lost"]} :
        call' = [d \in Callers |->
                   IF d = c THEN [mine EXCEPT !.waited = 0, !.tries = 0]
                   ELSE [call[d] EXCEPT !.disturbed = @ \/ call[d].op \in {"resolve", "read"}]]
  BY <1>1 DEF Send
<1>4. /\ Sound(q) /\ q.op = "post" /\ q.stored = 0 /\ q.form \in {"plain", "done"}
      /\ q.mention \in BOOLEAN /\ (q.mention => member # "absent") /\ DOMAIN q = DOMAIN Idle
      /\ q.threaded /\ ~q.patched /\ ~raced =>
           IF q.form = "plain" THEN Holds("plain") \/ ~Holds("done")
           ELSE Holds("done") /\ ~Holds("plain")
  BY <1>1, <1>2, CallSound
  DEF AllInStep, Sound, OpInStep, SendInStep, ReachInStep, ThreadInStep, Publishes
<1>5. PICK m \in Messages : /\ msgs' = Append(msgs, m)
                            /\ m.topic = (IF q.threaded THEN q.form ELSE "none")
                            /\ m.mention = q.mention
  <2>1. Message(topic, q.mention) \in Messages
    BY <1>4, MessageIsTyped DEF AllInStep
  <2> QED
    BY <1>2, <2>1 DEF Message
<1>6. /\ msgs' \in Seq(Messages) /\ MentionsStay
      /\ \A i \in DOMAIN msgs' : i \in DOMAIN msgs \/ msgs'[i] = m
      /\ \A form \in {"plain", "done"} :
           Ids(form) \subseteq Ids(form)' /\ (Holds(form)' <=> Holds(form) \/ m.topic = form)
  BY <1>5, OneMore DEF AllInStep
<1>7. RealmInStep'
  BY <1>2, <1>4, <1>5, <1>6 DEF AllInStep, RealmInStep, MentionsStay
<1>8. ForkNeedsRace'
  BY <1>2, <1>4, <1>5, <1>6 DEF AllInStep, ForkNeedsRace, Forked
<1>9. InStep(call[c])'
  <2>1. PICK s : s = call'[c]
    OBVIOUS
  <2>2. s = [mine EXCEPT !.waited = 0, !.tries = 0]
    BY <1>3, <2>1
  <2>3. PICK r : r = sent
    OBVIOUS
  <2>4. r.op = "post" /\ r.stored = 1 /\ r.form \in {"plain", "done"} /\ DOMAIN r = DOMAIN Idle
    BY <1>4, <2>3 DEF Idle
  <2>5. CASE mine = Over(sent, "ok")
    <3>1. PICK o : o = Over(r, "ok")
      OBVIOUS
    <3>2. Ended(r, "ok", o) /\ s = [o EXCEPT !.waited = 0, !.tries = 0]
      BY <2>2, <2>3, <2>5, <3>1, OverEnded
    <3>3. DOMAIN s = DOMAIN Idle /\ SameCall(o, s) /\ s.waited = 0 /\ s.tries = 0
      BY <3>2 DEF Ended, SameCall, Idle
    <3>4. Ended(r, "ok", s)
      BY <3>2, <3>3 DEF Ended, SameCall
    <3>5. EndsWell(r, "ok")'
      BY <1>2, <2>4 DEF EndsWell
    <3>6. Sound(s)'
      BY <3>4, <3>5, EndedSoundThen
    <3>7. WaitInStep(s)'
      BY <3>3, PublishingAssumption DEF PublishingAssumption, WaitInStep
    <3> QED
      BY <2>1, <3>6, <3>7 DEF InStep
  <2>6. CASE \E at \in {"stored", "lost"} : mine = [sent EXCEPT !.at = at]
    <3>1. PICK at \in {"stored", "lost"} : s = [[r EXCEPT !.at = at] EXCEPT !.waited = 0, !.tries = 0]
      BY <2>2, <2>3, <2>6
    <3>2. /\ DOMAIN s = DOMAIN Idle /\ s.at \in {"stored", "lost"} /\ s.stored = 1
          /\ SameCall(r, [s EXCEPT !.at = r.at]) /\ s.waited = 0 /\ s.tries = 0
      BY <2>4, <3>1 DEF SameCall, Idle
    <3>3. SameCall(q, [r EXCEPT !.stored = q.stored])
      BY <1>4, <2>3 DEF SameCall, Idle
    <3>4. /\ s.op = "post" /\ s.mention = q.mention /\ s.dead = q.dead /\ s.lacked = q.lacked
          /\ s.form = q.form
      BY <1>4, <2>4, <3>2, <3>3 DEF SameCall, Idle
    <3>5. OpInStep(s)' /\ SendInStep(s)'
      BY <3>2, <3>4 DEF OpInStep, SendInStep, Checking, Mapping
    <3>6. ReachInStep(s)'
      BY <1>2, <1>4, <3>2, <3>4 DEF Sound, ReachInStep, Publishes
    <3>7. ThreadInStep(s)'
      BY <1>4, <3>2, <3>4 DEF ThreadInStep
    <3>8. DescriptionInStep(s)' /\ ReadInStep(s)' /\ MapInStep(s)'
      BY <3>2, <3>4 DEF DescriptionInStep, ReadInStep, MapInStep
    <3>9. InStep(s)'
      <4>1. WaitInStep(s)'
        BY <3>2, PublishingAssumption DEF PublishingAssumption, WaitInStep
      <4> QED
        BY <3>2, <3>5, <3>6, <3>7, <3>8, <4>1 DEF InStep, Sound
    <3> QED
      BY <2>1, <3>9
  <2> QED
    BY <1>3, <2>5, <2>6
<1>10. ASSUME NEW d \in Callers \ {c}
       PROVE  InStep(call[d])'
  <2>1. PICK r, s : r = call[d] /\ s = call'[d]
    OBVIOUS
  <2>2. InStep(r) /\ DOMAIN r = DOMAIN Idle
    BY <2>1 DEF AllInStep, CallsInStep, InStep, Sound
  <2>3. s = [r EXCEPT !.disturbed = @ \/ r.op \in {"resolve", "read"}]
    BY <1>3, <2>1
  <2>4. Noted(r, s) /\ (s.op \in {"resolve", "read"} => s.disturbed)
    BY <2>2, <2>3 DEF Noted, SameCall, Idle
  <2>5. InStep(s) /\ Sound(s) /\ OpInStep(s)
    BY <2>2, <2>4, NotedInStep DEF InStep, Sound
  <2>6. ReadInStep(s)' /\ MapInStep(s)'
    BY <1>6, <2>4, <2>5, MentionsKept
  <2>7. ReachInStep(s)' /\ DescriptionInStep(s)'
    BY <1>2, <2>5 DEF Sound, ReachInStep, DescriptionInStep
  <2>8. ThreadInStep(s)'
    BY <1>2, <1>4, <1>5, <1>6, <2>4, <2>5 DEF Sound, OpInStep, ThreadInStep
  <2>9. InStep(s)'
    BY <2>5, <2>6, <2>7, <2>8 DEF InStep, Sound, OpInStep, SendInStep, WaitInStep
  <2> QED
    BY <2>1, <2>9
<1>11. CallsInStep'
  BY <1>3, <1>9, <1>10 DEF CallsInStep
<1> QED
  BY <1>7, <1>8, <1>11 DEF AllInStep

\* A rename empties the topic the message was in, into the one that is wanted.
LEMMA RenameMoves ==
  ASSUME RealmInStep, NEW id \in DOMAIN msgs, NEW old \in {"plain", "done"}, msgs[id].topic = old,
         NEW to \in {"plain", "done"}, msgs' = Renamed(id, to)
  PROVE  /\ msgs' \in Seq(Messages) /\ MentionsStay
         /\ \A i \in DOMAIN msgs' : msgs'[i].mention => i \in DOMAIN msgs
         /\ \A i \in Ids("plain") \cup Ids("done") : i \in Ids("plain")' \cup Ids("done")'
         /\ Holds(to)' /\ (old # to => ~Holds(old)')
         /\ old = to => \A form \in {"plain", "done"} : Holds(form)' <=> Holds(form)
<1>1. PICK all : all = [i \in DOMAIN msgs |->
                         IF msgs[i].topic = old THEN [msgs[i] EXCEPT !.topic = to] ELSE msgs[i]]
  OBVIOUS
<1>2. PICK m \in Messages :
        /\ m.topic = to /\ m.mention = FALSE
        /\ msgs' = IF old = to THEN all ELSE Append(all, m)
  <2>1. Message(to, FALSE) \in Messages
    BY MessageIsTyped
  <2> QED
    BY <1>1, <2>1 DEF Renamed, Message
<1>3. DOMAIN msgs = 1 .. Len(msgs) /\ Len(msgs) \in Nat
      /\ \A i \in DOMAIN msgs : msgs[i] \in Messages
  BY LenProperties, MessageTyped DEF RealmInStep
<1>4. \A i \in DOMAIN msgs :
        /\ all[i] \in Messages /\ all[i].mention = msgs[i].mention
        /\ all[i].topic = IF msgs[i].topic = old THEN to ELSE msgs[i].topic
  <2> TAKE i \in DOMAIN msgs
  <2>1. msgs[i] \in Messages
    BY <1>3
  <2>2. CASE msgs[i].topic = old
    BY <1>1, <2>1, <2>2 DEF Messages
  <2>3. CASE msgs[i].topic # old
    BY <1>1, <2>1, <2>3
  <2> QED
    BY <2>2, <2>3
<1>5. all \in Seq(Messages) /\ DOMAIN all = DOMAIN msgs /\ Len(all) = Len(msgs)
  <2>1. all \in [1 .. Len(msgs) -> Messages]
    BY <1>1, <1>3, <1>4
  <2>2. all \in Seq(Messages)
    BY <1>3, <2>1
  <2> QED
    BY <1>1, <1>3, <2>2, LenProperties
<1>6. /\ msgs' \in Seq(Messages) /\ DOMAIN msgs \subseteq DOMAIN msgs'
      /\ \A i \in DOMAIN msgs : msgs'[i] = all[i]
      /\ \A i \in DOMAIN msgs' : i \in DOMAIN msgs \/ (msgs'[i] = m /\ old # to)
  <2>1. CASE old = to
    BY <1>2, <1>5, <2>1
  <2>2. CASE old # to
    <3>1. /\ msgs' \in Seq(Messages) /\ Len(msgs') = Len(msgs) + 1
          /\ \A i \in 1 .. Len(msgs) : msgs'[i] = all[i]
          /\ msgs'[Len(msgs) + 1] = m
      BY <1>2, <1>5, <2>2, AppendProperties
    <3>2. DOMAIN msgs' = 1 .. Len(msgs) + 1
      BY <3>1, LenProperties
    <3>3. \A i \in DOMAIN msgs' : i \in DOMAIN msgs \/ i = Len(msgs) + 1
      BY <1>3, <3>2
    <3>4. DOMAIN msgs \subseteq DOMAIN msgs'
      BY <1>3, <3>2
    <3> QED
      BY <1>3, <2>2, <3>1, <3>3, <3>4
  <2> QED
    BY <2>1, <2>2
<1>7. MentionsStay
  BY <1>4, <1>6 DEF MentionsStay
<1>8. \A i \in DOMAIN msgs' : msgs'[i].mention => i \in DOMAIN msgs
  BY <1>2, <1>6
<1>9. ASSUME NEW form \in {"plain", "done"}, NEW i \in DOMAIN msgs
       PROVE  /\ i \in Ids(form) <=> msgs[i].topic = form
              /\ i \in Ids(form)' <=> all[i].topic = form
  BY <1>6 DEF Ids
<1>10. \A i \in Ids("plain") \cup Ids("done") : i \in Ids("plain")' \cup Ids("done")'
  <2>1. ASSUME NEW i \in Ids("plain") \cup Ids("done")
        PROVE  i \in Ids("plain")' \cup Ids("done")'
    <3>1. i \in DOMAIN msgs
      BY DEF Ids
    <3>2. all[i].topic \in {"plain", "done"}
      BY <1>4, <1>9, <3>1
    <3> QED
      BY <1>9, <3>1, <3>2
  <2> QED
    BY <2>1
<1>11. Holds(to)'
  <2>1. all[id].topic = to
    BY <1>4
  <2> QED
    BY <1>9, <2>1 DEF Holds
<1>12. ASSUME old # to
       PROVE  ~Holds(old)'
  <2>1. \A i \in DOMAIN msgs : all[i].topic # old
    BY <1>4, <1>12
  <2>2. \A i \in DOMAIN msgs' : msgs'[i].topic # old
    BY <1>2, <1>6, <1>12, <2>1
  <2> QED
    BY <2>2 DEF Holds, Ids
<1>13. ASSUME old = to
       PROVE  \A form \in {"plain", "done"} : Holds(form)' <=> Holds(form)
  <2>1. \A i \in DOMAIN msgs : all[i].topic = msgs[i].topic
    BY <1>4, <1>13
  <2>2. DOMAIN msgs' = DOMAIN msgs
    BY <1>6, <1>13
  <2>3. \A form \in {"plain", "done"} : Ids(form)' = Ids(form)
    BY <1>6, <2>1, <2>2 DEF Ids
  <2> QED
    BY <2>3 DEF Holds
<1> QED
  BY <1>6, <1>7, <1>8, <1>10, <1>11, <1>12, <1>13

LEMMA PatchStep ==
  ASSUME AllInStep, NEW c \in Callers, Patch(c)
  PROVE  AllInStep'
<1>1. PICK q : q = call[c]
  OBVIOUS
<1>2. /\ q.at = "patch" /\ msgs' = Renamed(q.id, q.target)
      /\ UNCHANGED <<created, described, member, listed, known, copy, raced>>
  BY <1>1 DEF Patch, At, cacheVars
<1>3. PICK result \in {"ok", "failed"} :
        call' = [d \in Callers |->
                   IF d = c THEN Over(q, result)
                   ELSE [call[d] EXCEPT !.patched = @ \/ call[d].op \in {"post", "read"},
                                        !.disturbed = @ \/ call[d].op \in {"resolve", "read"}]]
  BY <1>1 DEF Patch
<1>4. /\ Sound(q) /\ q.op = "resolve" /\ q.id \in Ids("plain") \cup Ids("done")
      /\ <<q.form, q.target>> \in {<<"plain", "done">>, <<"done", "plain">>}
      /\ ~q.disturbed => q.id \in Ids(q.form)
      /\ q.stored = 0
  BY <1>1, <1>2, CallSound DEF AllInStep, Sound, OpInStep, SendInStep, ThreadInStep
<1>5. PICK old \in {"plain", "done"} : msgs[q.id].topic = old /\ q.id \in DOMAIN msgs
                                       /\ (~q.disturbed => old = q.form)
  BY <1>4 DEF Ids
<1>6. /\ msgs' \in Seq(Messages) /\ MentionsStay
      /\ \A i \in DOMAIN msgs' : msgs'[i].mention => i \in DOMAIN msgs
      /\ \A i \in Ids("plain") \cup Ids("done") : i \in Ids("plain")' \cup Ids("done")'
      /\ Holds(q.target)' /\ (old # q.target => ~Holds(old)')
      /\ old = q.target => \A form \in {"plain", "done"} : Holds(form)' <=> Holds(form)
  <2>1. q.target \in {"plain", "done"} /\ RealmInStep
    BY <1>4 DEF AllInStep
  <2> QED
    BY <1>2, <1>5, <2>1, RenameMoves
<1>7. RealmInStep'
  BY <1>2, <1>6 DEF AllInStep, RealmInStep, MentionsStay
<1>8. ForkNeedsRace'
  BY <1>2, <1>5, <1>6 DEF AllInStep, ForkNeedsRace, Forked
<1>9. InStep(call[c])'
  <2>1. PICK s : s = call'[c]
    OBVIOUS
  <2>2. s = Over(q, result)
    BY <1>3, <2>1
  <2>3. Ended(q, result, s)
    BY <2>2, OverEnded
  <2>4. EndsWell(q, result)'
    BY <1>4, <1>5, <1>6 DEF EndsWell
  <2>5. Sound(s)'
    BY <2>3, <2>4, EndedSoundThen
  <2>6. WaitInStep(s)'
    BY <2>2, PublishingAssumption DEF PublishingAssumption, WaitInStep, Over, Idle
  <2> QED
    BY <2>1, <2>5, <2>6 DEF InStep
<1>10. ASSUME NEW d \in Callers \ {c}
       PROVE  InStep(call[d])'
  <2>1. PICK r, s : r = call[d] /\ s = call'[d]
    OBVIOUS
  <2>2. InStep(r) /\ DOMAIN r = DOMAIN Idle
    BY <2>1 DEF AllInStep, CallsInStep, InStep, Sound
  <2>3. s = [r EXCEPT !.patched = @ \/ r.op \in {"post", "read"},
                      !.disturbed = @ \/ r.op \in {"resolve", "read"}]
    BY <1>3, <2>1
  <2>4. /\ Noted(r, s) /\ (s.op \in {"resolve", "read"} => s.disturbed)
        /\ (s.op = "post" => s.patched)
    BY <2>2, <2>3 DEF Noted, SameCall, Idle
  <2>5. InStep(s) /\ Sound(s) /\ OpInStep(s)
    BY <2>2, <2>4, NotedInStep DEF InStep, Sound
  <2>6. ReadInStep(s)' /\ MapInStep(s)'
    BY <1>6, <2>4, <2>5, MentionsKept
  <2>7. ReachInStep(s)' /\ DescriptionInStep(s)'
    BY <1>2, <2>5 DEF Sound, ReachInStep, DescriptionInStep
  <2>8. ThreadInStep(s)'
    BY <1>6, <2>4, <2>5 DEF Sound, OpInStep, ThreadInStep
  <2>9. InStep(s)'
    BY <2>5, <2>6, <2>7, <2>8 DEF InStep, Sound, OpInStep, SendInStep, WaitInStep
  <2> QED
    BY <2>1, <2>9
<1>11. CallsInStep'
  BY <1>3, <1>9, <1>10 DEF CallsInStep
<1> QED
  BY <1>7, <1>8, <1>11 DEF AllInStep

-----------------------------------------------------------------------------
(* The invariant *)

LEMMA InitInStep == Init => AllInStep
<1> SUFFICES ASSUME Init
             PROVE  AllInStep
  OBVIOUS
<1>1. RealmInStep
  BY PublishingAssumption DEF PublishingAssumption, Init, RealmInStep, Messages, Statuses
<1>2. ForkNeedsRace
  BY DEF Init, ForkNeedsRace
<1>3. CallsInStep
  BY IdleInStep DEF Init, CallsInStep
<1> QED
  BY <1>1, <1>2, <1>3 DEF AllInStep

LEMMA NextInStep == AllInStep /\ [Next]_vars => AllInStep'
<1> SUFFICES ASSUME AllInStep, [Next]_vars
             PROVE  AllInStep'
  OBVIOUS
<1>1. CASE \E status \in Statuses : MemberChanges(status)
  BY <1>1, MemberChangesStep
<1>2. CASE CreateChannel
  BY <1>2, CreateChannelStep
<1>3. CASE Expire \/ ListKnownChannels
  BY <1>3, ListingStep
<1>4. ASSUME NEW c \in Callers, Begin(c)
      PROVE  AllInStep'
  BY <1>4, BeginStep
<1>5. ASSUME NEW c \in Callers, Fails(c) \/ SendLost(c)
      PROVE  AllInStep'
  BY <1>5, NoAnswerStep DEF Fails, SendLost
<1>6. ASSUME NEW c \in Callers, NEW asked \in Asked, RateLimited(c, asked)
      PROVE  AllInStep'
  BY <1>6, RateLimitedStep
<1>7. ASSUME NEW c \in Callers, Answered(c)
      PROVE  AllInStep'
  <2>1. CASE \/ RefuseOverlongBody(c) \/ ValidateOutboundMentions(c)
             \/ DeadMentionsAfterFreshRead(c) \/ RenderedMentionIds(c) \/ Cover(c)
    BY <2>1, RefuseOverlongBodyStep, ValidateOutboundMentionsStep,
      DeadMentionsAfterFreshReadStep, RenderedMentionIdsStep, CoverStep
  <2>2. CASE \/ LookupChannel(c) \/ RefreshKnownStreams(c)
             \/ AddressPlain(c) \/ AddressResolved(c)
    BY <2>2, LookupChannelStep, RefreshKnownStreamsStep, AddressPlainStep, AddressResolvedStep
  <2>3. CASE Send(c) \/ SendLost(c) \/ StoredRead(c) \/ Rewrite(c)
    BY <1>5, <2>3, SendStep, StoredReadStep, RewriteStep
  <2>4. CASE FetchChannelDescription(c) \/ SetChannelDescription(c)
    BY <2>4, FetchChannelDescriptionStep, SetChannelDescriptionStep
  <2>5. CASE FindSource(c) \/ FindTarget(c) \/ Patch(c)
    BY <2>5, FindSourceStep, FindTargetStep, PatchStep
  <2>6. CASE WalkPage(c) \/ RenderPage(c)
    BY <2>6, WalkPageStep, RenderPageStep
  <2>7. CASE \/ ResolveDirectory(c) \/ FetchMessageRef(c) \/ CoverAuthor(c)
             \/ ShowMessage(c) \/ CoverMentioned(c)
    BY <2>7, MappingStep
  <2>8. CASE End(c)
    BY <2>8, EndStep
  <2> QED
    BY <1>7, <2>1, <2>2, <2>3, <2>4, <2>5, <2>6, <2>7, <2>8 DEF Answered
<1>8. CASE UNCHANGED vars
  <2>1. Still /\ UNCHANGED <<listed, known, copy, call>>
    BY <1>8 DEF vars, realmVars, cacheVars, Still
  <2>2. \A r : InStep(r) => InStep(r)'
    BY <2>1, StillSound
  <2>3. CallsInStep'
    BY <2>1, <2>2 DEF AllInStep, CallsInStep
  <2> QED
    BY <2>1, <2>3, StillRealm DEF AllInStep, RealmInStep
<1> QED
  BY <1>1, <1>2, <1>3, <1>4, <1>5, <1>6, <1>7, <1>8 DEF Next, Realm, Step

LEMMA CallsStayInStep == Spec => []AllInStep
  BY InitInStep, NextInStep, PTL DEF Spec

-----------------------------------------------------------------------------
(* A read and the messages it passes *)

Increasing(s) == \A k, m \in DOMAIN s : k < m => s[k] < s[m]

\* Where a walk stands: it has seen all of its narrow from its anchor on that
\* was there when it began, and keeps what lies in the window.
WalkAt(r) ==
  /\ r.anchor \in Nat /\ r.left \in Nat
  /\ r.seen \subseteq Ids(r.form) /\ (\A i \in r.seen : r.anchor <= i)
  /\ r.seen # {} => r.anchor \in r.seen
  /\ Range(r.got) = {i \in r.seen : InWindow(r, i)}
  /\ \A i \in Ids(r.form) : r.anchor <= i /\ i <= r.upto => i \in r.seen

\* A page ends at the anchor and has no hole.
PageAt(r) ==
  /\ r.rows \subseteq Ids(r.form) /\ r.rows # {}
  /\ \A i \in r.rows : i <= r.anchor
  /\ \A i \in Ids(r.form), m \in r.rows :
       m <= i /\ i <= r.anchor /\ i <= r.upto => i \in r.rows

\* What a walk that has ended left out.
LeftOut(r, i) ==
  \/ i > r.upto \/ ~InWindow(r, i)
  \/ Len(r.got) = r.cap /\ \A j \in Range(r.got) : i < j
  \/ r.left = 0 /\ i < r.anchor

WalkInStep(r) ==
  r.op = "read" /\ ~r.patched =>
    /\ r.upto \in 0 .. Len(msgs) /\ r.since \in Nat
    /\ Increasing(r.got)
    /\ \A i \in Range(r.got) : i \in Ids(r.form) /\ InWindow(r, i)
    /\ r.at \in {"walk", "render"} => WalkAt(r) /\ r.left # 0
    /\ r.at = "render" => PageAt(r)
    /\ r.at = "end" /\ r.result = "ok" =>
         \A i \in Ids(r.form) \ Range(r.got) : LeftOut(r, i)

TimesAscend == \A i, j \in DOMAIN msgs : i <= j => msgs[i].ts <= msgs[j].ts

WalksInStep == TimesAscend /\ \A c \in Callers : WalkInStep(call[c])

\* A larger member of a set has the larger rank.
LEMMA RanksDiffer ==
  ASSUME NEW S, S \subseteq Nat, IsFiniteSet(S), NEW a \in S, NEW b \in S, a < b
  PROVE  Cardinality({j \in S : j < a}) < Cardinality({j \in S : j < b})
<1> DEFINE A == {j \in S : j < a}
           B == {j \in S : j < b}
<1>1. A \subseteq B /\ a \in B /\ a \notin A /\ B \subseteq S
  <2>1. a \in Nat /\ b \in Nat /\ \A j \in S : j \in Nat
    OBVIOUS
  <2>2. \A j \in S : j < a => j < b
    BY <2>1
  <2>3. ~(a < a)
    BY ONLY <2>1
  <2> QED
    BY <2>2, <2>3
<1> HIDE DEF A, B
<1>2. IsFiniteSet(B)
  BY <1>1, FS_Subset
<1>3. Cardinality(A) <= Cardinality(B) /\ Cardinality(A) # Cardinality(B) /\ IsFiniteSet(A)
  BY <1>1, <1>2, FS_Subset
<1>4. Cardinality(A) \in Nat /\ Cardinality(B) \in Nat
  BY <1>2, <1>3, FS_CardinalityType
<1>5. Cardinality(A) < Cardinality(B)
  BY ONLY <1>3, <1>4
<1> QED
  BY <1>5 DEF A, B

\* Members of one rank are the same.
LEMMA SameRankSame ==
  ASSUME NEW S, S \subseteq Nat, IsFiniteSet(S), NEW a \in S, NEW b \in S,
         Cardinality({j \in S : j < a}) = Cardinality({j \in S : j < b})
  PROVE  a = b
<1> DEFINE Rank(i) == Cardinality({j \in S : j < i})
<1>1. Rank(a) \in Nat /\ Rank(b) \in Nat
  BY FS_Subset, FS_CardinalityType
<1>2. a < b => Rank(a) < Rank(b)
  BY RanksDiffer
<1>3. b < a => Rank(b) < Rank(a)
  BY RanksDiffer
<1>4. Rank(a) = Rank(b)
  OBVIOUS
<1> HIDE DEF Rank
<1>5. a \in Nat /\ b \in Nat
  OBVIOUS
<1> QED
  BY ONLY <1>1, <1>2, <1>3, <1>4, <1>5

\* Ascending lists a set once, in order.
LEMMA AscendingOrdered ==
  ASSUME NEW S, S \subseteq Nat, IsFiniteSet(S)
  PROVE  /\ Ascending(S) \in Seq(S) /\ Len(Ascending(S)) = Cardinality(S)
         /\ Increasing(Ascending(S)) /\ Range(Ascending(S)) = S
<1> DEFINE A == Ascending(S)
           Rank(i) == Cardinality({j \in S : j < i})
           n == Cardinality(S)
<1>1. n \in Nat
  BY FS_CardinalityType
<1>2. A \in [1 .. n -> S] /\ \A k \in 1 .. n : Rank(A[k]) = k - 1
  <2>1. \A k \in 1 .. n : \E i \in S : Rank(i) = k - 1
    BY RankTaken
  <2> QED
    BY <2>1 DEF Ascending
<1>3. A \in Seq(S) /\ Len(A) = n /\ DOMAIN A = 1 .. n
  BY <1>1, <1>2
<1>4. Increasing(A)
  <2> SUFFICES ASSUME NEW k \in 1 .. n, NEW m \in 1 .. n, k < m
               PROVE  A[k] < A[m]
    BY <1>3 DEF Increasing
  <2>1. A[k] \in S /\ A[m] \in S /\ Rank(A[k]) = k - 1 /\ Rank(A[m]) = m - 1
    BY <1>2
  <2>2. PICK a \in S, b \in S : a = A[k] /\ b = A[m]
    BY <2>1
  <2>3. Rank(a) = k - 1 /\ Rank(b) = m - 1
    BY <2>1, <2>2
  <2>4. b < a => Rank(b) < Rank(a)
    BY RanksDiffer
  <2> HIDE DEF Rank
  <2>5. a # b /\ ~(b < a)
    BY <1>1, <2>3, <2>4
  <2>6. a \in Nat /\ b \in Nat
    OBVIOUS
  <2>7. a < b
    BY ONLY <2>5, <2>6
  <2> QED
    BY <2>2, <2>7
<1>5. Range(A) = S
  <2>1. Range(A) \subseteq S
    BY <1>2 DEF Range
  <2>2. ASSUME NEW i \in S
        PROVE  i \in Range(A)
    <3> DEFINE B == {j \in S : j < i}
    <3>1. B \subseteq S /\ B # S
      <4>1. i \in Nat /\ ~(i < i)
        OBVIOUS
      <4> QED
        BY <4>1
    <3> HIDE DEF B
    <3>2. Cardinality(B) \in Nat /\ Cardinality(B) <= n /\ Cardinality(B) # n
      BY <3>1, FS_Subset, FS_CardinalityType
    <3>3. Rank(i) = Cardinality(B)
      BY DEF B
    <3>4. Rank(i) + 1 \in 1 .. n
      <4> HIDE DEF Rank, n
      <4> QED
        BY <1>1, <3>2, <3>3
    <3>5. PICK k \in 1 .. n : k = Rank(i) + 1
      BY <3>4
    <3>6. Rank(A[k]) = k - 1 /\ A[k] \in S
      BY <1>2
    <3>7. Rank(i) = k - 1
      <4> HIDE DEF Rank
      <4> QED
        BY <3>2, <3>3, <3>5
    <3>8. PICK a \in S : a = A[k]
      BY <3>6
    <3>9. Rank(a) = Rank(i)
      BY <3>6, <3>7, <3>8
    <3>10. a = i
      BY <3>9, SameRankSame
    <3> QED
      BY <1>3, <3>8, <3>10 DEF Range
  <2> QED
    BY <2>1, <2>2
<1> QED
  BY <1>3, <1>4, <1>5

\* A sequence of messages in order is the one its set makes.
LEMMA IncreasingIsAscending ==
  ASSUME NEW s \in Seq(Nat), Increasing(s)
  PROVE  s = Ascending(Range(s))
<1> DEFINE S == Range(s)
<1>1. Len(s) \in Nat /\ DOMAIN s = 1 .. Len(s) /\ s \in [1 .. Len(s) -> Nat]
  BY LenProperties
<1>2. S \subseteq Nat /\ \A k \in 1 .. Len(s) : s[k] \in S
  BY <1>1 DEF Range
<1>3. \A k, m \in 1 .. Len(s) : (k < m <=> s[k] < s[m]) /\ (s[k] = s[m] => k = m)
  <2> TAKE k \in 1 .. Len(s), m \in 1 .. Len(s)
  <2>1. (k < m => s[k] < s[m]) /\ (m < k => s[m] < s[k])
    BY <1>1 DEF Increasing
  <2>2. s[k] \in Nat /\ s[m] \in Nat /\ k \in Nat /\ m \in Nat
    BY <1>1
  <2> QED
    BY <2>1, <2>2
<1>4. ASSUME NEW T, NEW n \in 0 .. Len(s), T = {s[m] : m \in 1 .. n}
      PROVE  Cardinality(T) = n /\ IsFiniteSet(T)
  <2> DEFINE f == [m \in 1 .. n |-> s[m]]
  <2>1. n \in Nat /\ 1 .. n \subseteq 1 .. Len(s)
    BY <1>1
  <2>2. f \in Bijection(1 .. n, T)
    <3>1. f \in [1 .. n -> T] /\ \A t \in T : \E m \in 1 .. n : f[m] = t
      BY <1>4
    <3>2. \A k, m \in 1 .. n : f[k] = f[m] => k = m
      BY <1>3, <2>1
    <3> QED
      BY <3>1, <3>2 DEF Bijection, Injection, Surjection, IsInjective
  <2>3. ExistsBijection(1 .. n, T)
    BY <2>2 DEF ExistsBijection
  <2>4. IsFiniteSet(1 .. n)
    BY <2>1, FS_Interval
  <2> QED
    BY <2>1, <2>3, <2>4, FS_CountingElements, FS_Bijection
<1>5. S = {s[m] : m \in 1 .. Len(s)} /\ Len(s) \in 0 .. Len(s)
  BY <1>1 DEF Range
<1>6. Cardinality(S) = Len(s) /\ IsFiniteSet(S)
  BY <1>4, <1>5
<1>7. ASSUME NEW k \in 1 .. Len(s)
      PROVE  Cardinality({j \in S : j < s[k]}) = k - 1
  <2> DEFINE T == {j \in S : j < s[k]}
  <2>1. k - 1 \in 0 .. Len(s) /\ \A m \in 1 .. Len(s) : m < k <=> m \in 1 .. (k - 1)
    BY <1>1
  <2>2. T = {s[m] : m \in 1 .. (k - 1)}
    <3>1. ASSUME NEW j \in T
          PROVE  j \in {s[m] : m \in 1 .. (k - 1)}
      <4>1. PICK m \in 1 .. Len(s) : j = s[m]
        BY <1>5
      <4>2. m < k
        BY <1>3, <4>1
      <4> QED
        BY <2>1, <4>1, <4>2
    <3>2. ASSUME NEW m \in 1 .. (k - 1)
          PROVE  s[m] \in T
      <4>1. m \in 1 .. Len(s) /\ m < k
        BY <1>1, <2>1
      <4> QED
        BY <1>2, <1>3, <4>1
    <3> QED
      BY <3>1, <3>2
  <2> HIDE DEF T
  <2>3. Cardinality(T) = k - 1
    BY <1>4, <2>1, <2>2
  <2> QED
    BY <2>3 DEF T
<1> DEFINE A == Ascending(S)
<1>8. /\ A \in Seq(S) /\ Len(A) = Len(s) /\ A \in [1 .. Len(s) -> S]
      /\ \A k \in 1 .. Len(s) : Cardinality({j \in S : j < A[k]}) = k - 1
  <2> HIDE DEF S
  <2>1. \A k \in 1 .. Cardinality(S) : \E i \in S : Cardinality({j \in S : j < i}) = k - 1
    BY <1>2, <1>6, RankTaken
  <2>2. A \in [1 .. Len(s) -> S] /\ \A k \in 1 .. Len(s) : Cardinality({j \in S : j < A[k]}) = k - 1
    BY <1>6, <2>1 DEF Ascending
  <2> QED
    BY <1>1, <2>2
<1>9. \A k \in 1 .. Len(s) : A[k] = s[k]
  <2> TAKE k \in 1 .. Len(s)
  <2> HIDE DEF S, A
  <2>1. s[k] \in S /\ A[k] \in S
    BY <1>2, <1>8
  <2>2. PICK a \in S, b \in S : a = A[k] /\ b = s[k]
    BY <2>1
  <2>3. Cardinality({j \in S : j < a}) = k - 1 /\ Cardinality({j \in S : j < b}) = k - 1
    BY <1>7, <1>8, <2>2
  <2>4. Cardinality({j \in S : j < a}) = Cardinality({j \in S : j < b})
    BY <2>3
  <2>5. S \subseteq Nat /\ IsFiniteSet(S)
    BY <1>2, <1>6
  <2>6. a = b
    BY <2>4, <2>5, SameRankSame
  <2> QED
    BY <2>2, <2>6
<1> QED
  BY <1>1, <1>8, <1>9

\* Increasing sequences joined, the lower before the higher, increase.
LEMMA EarlierBefore ==
  ASSUME NEW s \in Seq(Nat), NEW t \in Seq(Nat), Increasing(s), Increasing(t),
         \A x \in Range(s), y \in Range(t) : x < y
  PROVE  Increasing(s \o t) /\ Range(s \o t) = Range(s) \cup Range(t)
<1>1. /\ Len(s) \in Nat /\ DOMAIN s = 1 .. Len(s) /\ Len(t) \in Nat /\ DOMAIN t = 1 .. Len(t)
      /\ s \o t \in Seq(Nat)
      /\ Len(s \o t) = Len(s) + Len(t)
      /\ \A k \in 1 .. Len(s) + Len(t) :
           (s \o t)[k] = IF k <= Len(s) THEN s[k] ELSE t[k - Len(s)]
  BY LenProperties, ConcatProperties
<1>2. DOMAIN (s \o t) = 1 .. Len(s) + Len(t)
  BY <1>1, LenProperties
<1> DEFINE u == s \o t
<1> HIDE DEF u
<1>3. DOMAIN u = 1 .. Len(s) + Len(t)
      /\ \A k \in 1 .. Len(s) + Len(t) : u[k] = IF k <= Len(s) THEN s[k] ELSE t[k - Len(s)]
  BY <1>1, <1>2 DEF u
<1>4. ASSUME NEW k \in DOMAIN u, NEW m \in DOMAIN u, k < m
      PROVE  u[k] < u[m]
  <2>1. CASE m <= Len(s)
    <3>1. k \in DOMAIN s /\ m \in DOMAIN s /\ u[k] = s[k] /\ u[m] = s[m]
      BY <1>1, <1>3, <1>4, <2>1
    <3> QED
      BY <1>4, <3>1 DEF Increasing
  <2>2. CASE k > Len(s)
    <3>1. /\ k - Len(s) \in DOMAIN t /\ m - Len(s) \in DOMAIN t /\ k - Len(s) < m - Len(s)
          /\ u[k] = t[k - Len(s)] /\ u[m] = t[m - Len(s)]
      BY <1>1, <1>3, <1>4, <2>2
    <3> QED
      BY <3>1 DEF Increasing
  <2>3. CASE k <= Len(s) /\ m > Len(s)
    <3>1. k \in DOMAIN s /\ m - Len(s) \in DOMAIN t /\ u[k] = s[k] /\ u[m] = t[m - Len(s)]
      BY <1>1, <1>3, <1>4, <2>3
    <3>2. s[k] \in Range(s) /\ t[m - Len(s)] \in Range(t)
      BY <3>1 DEF Range
    <3> QED
      BY <3>1, <3>2
  <2> QED
    BY <1>1, <1>3, <2>1, <2>2, <2>3
<1>5. Range(u) \subseteq Range(s) \cup Range(t)
  BY RangeOfConcat DEF u
<1>6. ASSUME NEW k \in DOMAIN s
      PROVE  s[k] \in Range(u)
  <2>1. k \in DOMAIN u /\ u[k] = s[k]
    BY <1>1, <1>3
  <2> QED
    BY <2>1 DEF Range
<1>7. ASSUME NEW k \in DOMAIN t
      PROVE  t[k] \in Range(u)
  <2>1. Len(s) + k \in DOMAIN u /\ u[Len(s) + k] = t[k]
    <3>1. k \in 1 .. Len(t) /\ Len(s) + k \in 1 .. Len(s) + Len(t) /\ ~(Len(s) + k <= Len(s))
          /\ Len(s) + k - Len(s) = k
      BY <1>1
    <3> QED
      BY <1>3, <3>1
  <2> QED
    BY <2>1 DEF Range
<1>8. Increasing(u) /\ Range(u) = Range(s) \cup Range(t)
  BY <1>4, <1>5, <1>6, <1>7 DEF Increasing, Range
<1> QED
  BY <1>8 DEF u

\* The newest of an ordered sequence.
LEMMA LastKeepsOrder ==
  ASSUME NEW s \in Seq(Nat), NEW n \in Nat, Increasing(s)
  PROVE  LET t == LastOf(s, n) IN
         /\ t \in Seq(Nat) /\ Increasing(t) /\ Range(t) \subseteq Range(s)
         /\ Len(s) >= n => Len(t) = n
         /\ \A i \in Range(s) \ Range(t) : Len(t) = n /\ \A j \in Range(t) : i < j
<1>1. Len(s) \in Nat /\ DOMAIN s = 1 .. Len(s) /\ \A k \in 1 .. Len(s) : s[k] \in Nat
  BY LenProperties
<1>2. LastOf(s, n) \in Seq(Nat) /\ Range(LastOf(s, n)) \subseteq Range(s)
  BY LastTyped
<1>3. CASE Len(s) <= n
  <2>1. LastOf(s, n) = s
    BY <1>3 DEF LastOf
  <2>2. Len(s) >= n => Len(s) = n
    <3>1. PICK l \in Nat : l = Len(s)
      BY <1>1
    <3>2. l <= n /\ n \in Nat
      BY <1>3, <3>1
    <3>3. l >= n => l = n
      BY ONLY <3>1, <3>2
    <3> QED
      BY <3>1, <3>3
  <2> QED
    BY <1>2, <2>1, <2>2
<1>4. CASE Len(s) > n
  <2> DEFINE m == Len(s) - n + 1
             t == SubSeq(s, m, Len(s))
  <2>1. m \in 1 .. Len(s) + 1 /\ LastOf(s, n) = t
    BY <1>1, <1>4 DEF LastOf
  <2>2. /\ Len(t) = n /\ DOMAIN t = 1 .. n
        /\ \A k \in 1 .. n : m + k - 1 \in 1 .. Len(s) /\ t[k] = s[m + k - 1]
    <3> HIDE DEF m
    <3>1. Len(s) - m + 1 = n
      BY <1>1, <1>4 DEF m
    <3>2. m <= Len(s) + 1 /\ m \in Nat /\ m >= 1
      BY <1>1, <2>1
    <3>3. \A k \in 1 .. n : m + k - 1 \in 1 .. Len(s)
      BY <1>1, <3>1, <3>2
    <3>4. /\ SubSeq(s, m, Len(s)) \in Seq(Nat)
          /\ Len(SubSeq(s, m, Len(s))) = IF m <= Len(s) THEN Len(s) - m + 1 ELSE 0
          /\ \A k \in 1 .. Len(s) - m + 1 : SubSeq(s, m, Len(s))[k] = s[m + k - 1]
      <4>1. \A k \in m .. Len(s) : s[k] \in Nat
        BY <1>1, <3>2
      <4> QED
        BY <1>1, <3>2, <4>1, SubSeqProperties
    <3>5. Len(t) = n
      BY <1>1, <3>1, <3>2, <3>4
    <3>6. DOMAIN t = 1 .. n
      BY <3>4, <3>5, LenProperties
    <3> QED
      BY <3>1, <3>3, <3>4, <3>5, <3>6
  <2> HIDE DEF t
  <2>3. Increasing(t)
    <3> SUFFICES ASSUME NEW k \in 1 .. n, NEW l \in 1 .. n, k < l
                 PROVE  t[k] < t[l]
      BY <2>2 DEF Increasing
    <3>1. m + k - 1 < m + l - 1 /\ m + k - 1 \in DOMAIN s /\ m + l - 1 \in DOMAIN s
      BY <1>1, <2>1, <2>2
    <3> HIDE DEF m
    <3> QED
      BY <2>2, <3>1 DEF Increasing
  <2>4. \A i \in Range(s) \ Range(t), j \in Range(t) : i < j
    <3> SUFFICES ASSUME NEW i \in Range(s) \ Range(t), NEW j \in Range(t)
                 PROVE  i < j
      OBVIOUS
    <3>1. PICK k \in 1 .. Len(s) : i = s[k]
      BY <1>1 DEF Range
    <3>2. PICK l \in 1 .. n : j = s[m + l - 1] /\ m + l - 1 \in 1 .. Len(s)
      BY <2>2 DEF Range
    <3>3. k < m
      <4>1. SUFFICES ASSUME k >= m
                     PROVE  FALSE
        BY <2>1, <3>1
      <4>2. k - m + 1 \in 1 .. n /\ m + (k - m + 1) - 1 = k
        BY <1>1, <2>1, <4>1
      <4>3. t[k - m + 1] = i
        <5> HIDE DEF m
        <5> QED
          BY <2>2, <3>1, <4>2
      <4>4. i \in Range(t)
        <5> HIDE DEF m
        <5> QED
          BY <2>2, <4>2, <4>3 DEF Range
      <4> QED
        BY <4>4
    <3>4. k < m + l - 1
      BY <2>1, <3>3
    <3> HIDE DEF m
    <3> QED
      BY <1>1, <3>1, <3>2, <3>4 DEF Increasing
  <2> QED
    BY <1>2, <2>1, <2>2, <2>3, <2>4
<1> QED
  BY <1>1, <1>3, <1>4

\* MinOf names the least member.
LEMMA LeastIsMember ==
  ASSUME NEW S, S \subseteq Nat, S # {}
  PROVE  MinOf(S) \in S /\ \A j \in S : MinOf(S) <= j
  BY LeastExists DEF MinOf

\* The realm's messages are finitely many naturals, and so is any part of them.
LEMMA RowsAreMessages ==
  RealmInStep => /\ DOMAIN msgs = 1 .. Len(msgs) /\ Len(msgs) \in Nat
                 /\ \A S : S \subseteq DOMAIN msgs => S \subseteq Nat /\ IsFiniteSet(S)
<1> SUFFICES ASSUME RealmInStep
             PROVE  /\ DOMAIN msgs = 1 .. Len(msgs) /\ Len(msgs) \in Nat
                    /\ \A S : S \subseteq DOMAIN msgs => S \subseteq Nat /\ IsFiniteSet(S)
  OBVIOUS
<1>1. DOMAIN msgs = 1 .. Len(msgs) /\ Len(msgs) \in Nat
  BY LenProperties DEF RealmInStep
<1>2. IsFiniteSet(1 .. Len(msgs)) /\ 1 .. Len(msgs) \subseteq Nat
  BY <1>1, FS_Interval
<1> QED
  BY <1>1, <1>2, FS_Subset

\* The newest rows before an anchor have no hole among them.
LEMMA NewestClosed ==
  ASSUME NEW S, S \subseteq Nat, IsFiniteSet(S), NEW n \in Nat,
         NEW m \in NewestOf(S, n), NEW i \in S, m <= i
  PROVE  i \in NewestOf(S, n)
<1> DEFINE A == {j \in S : j > i}
           B == {j \in S : j > m}
<1>1. A \subseteq B /\ B \subseteq S
  <2>1. m \in Nat /\ i \in Nat /\ \A j \in S : j \in Nat
    BY DEF NewestOf
  <2>2. \A j \in S : j > i => j > m
    BY <2>1
  <2> QED
    BY <2>2
<1>2. Cardinality(B) < n
  BY DEF NewestOf
<1> HIDE DEF A, B
<1>3. IsFiniteSet(B)
  BY <1>1, FS_Subset
<1>4. Cardinality(A) <= Cardinality(B) /\ IsFiniteSet(A)
  BY <1>1, <1>3, FS_Subset
<1>5. Cardinality(A) \in Nat /\ Cardinality(B) \in Nat
  BY <1>3, <1>4, FS_CardinalityType
<1>6. Cardinality(A) < n
  BY ONLY <1>2, <1>4, <1>5, n \in Nat
<1> QED
  BY <1>6 DEF A, NewestOf

\* A page of at least one row has the newest of what is left.
LEMMA NewestReaches ==
  ASSUME RealmInStep, NEW S, S \subseteq DOMAIN msgs, S # {}, NEW n \in Nat, n # 0
  PROVE  NewestOf(S, n) # {}
<1>1. MaxOf(S) \in S /\ S \subseteq Nat
  BY MaxIsMember, RowsAreMessages
<1>2. \A j \in S : j <= MaxOf(S)
  <2>1. PICK i \in S : \A j \in S : j <= i
    <3>1. S \subseteq Nat /\ DOMAIN msgs = 1 .. Len(msgs) /\ Len(msgs) \in Nat
      BY RowsAreMessages
    <3> DEFINE Left == {Len(msgs) - i : i \in S}
    <3>2. Left \subseteq Nat /\ Left # {}
      BY <3>1
    <3>3. PICK l \in Left : \A k \in Left : l <= k
      <4> HIDE DEF Left
      <4> QED
        BY <3>2, LeastExists
    <3>4. PICK i \in S : l = Len(msgs) - i
      BY <3>3
    <3>5. \A j \in S : j <= i
      <4> TAKE j \in S
      <4>1. Len(msgs) - j \in Left
        OBVIOUS
      <4>2. Len(msgs) - i <= Len(msgs) - j
        BY <3>3, <3>4, <4>1
      <4> QED
        BY <3>1, <4>2
    <3> QED
      BY <3>5
  <2> QED
    BY <2>1 DEF MaxOf
<1>3. {j \in S : j > MaxOf(S)} = {}
  BY <1>1, <1>2
<1>4. Cardinality({j \in S : j > MaxOf(S)}) < n
  BY <1>3, FS_EmptySet
<1> QED
  BY <1>1, <1>4 DEF NewestOf

-----------------------------------------------------------------------------
(* The pages of a walk *)

\* A page is empty only where nothing was asked for.
LEMMA SizeOfPage ==
  ASSUME NEW r, r.cap \in Nat
  PROVE  PageSize(r) \in Nat /\ (PageSize(r) = 0 => r.cap = 0)
  BY PublishingAssumption DEF PublishingAssumption, PageSize

\* A page, as it is fetched.
LEMMA PageFetched ==
  ASSUME RealmInStep, NEW r, r.cap \in Nat, r.anchor \in Nat, NEW i \in Ids(r.form),
         NEW m \in Page(r), m <= i, i <= r.anchor
  PROVE  i \in Page(r)
<1>1. /\ Before(r) \subseteq DOMAIN msgs /\ Ids(r.form) \subseteq DOMAIN msgs
      /\ Before(r) \subseteq Nat /\ IsFiniteSet(Before(r)) /\ DOMAIN msgs \subseteq Nat
  BY RowsAreMessages DEF Before, Ids
<1>2. CASE i = r.anchor
  BY <1>2 DEF Page
<1>3. CASE i # r.anchor
  <2>1. i < r.anchor /\ i \in Nat
    BY <1>1, <1>3
  <2>2. i \in Before(r) /\ m # r.anchor
    BY <2>1 DEF Before
  <2>3. m \in NewestOf(Before(r), PageSize(r))
    BY <2>2 DEF Page
  <2>4. i \in NewestOf(Before(r), PageSize(r))
    BY <1>1, <2>2, <2>3, NewestClosed, SizeOfPage
  <2> QED
    BY <2>4 DEF Page
<1> QED
  BY <1>2, <1>3

\* A page holds messages of its narrow, up to its anchor.
LEMMA PageTyped ==
  ASSUME RealmInStep, NEW r, r.anchor \in Nat
  PROVE  Page(r) \subseteq Ids(r.form) /\ \A i \in Page(r) : i <= r.anchor /\ i \in Nat
<1>1. Ids(r.form) \subseteq Nat
  BY RowsAreMessages DEF Ids
<1>2. NewestOf(Before(r), PageSize(r)) \subseteq {i \in Ids(r.form) : i < r.anchor}
  BY DEF NewestOf, Before
<1> QED
  BY <1>1, <1>2 DEF Page

\* A page with nothing that was not seen is the end of what there is.
LEMMA PageExhausted ==
  ASSUME RealmInStep, NEW r, r.cap \in Nat, r.cap # 0, r.anchor \in Nat,
         \A i \in Page(r) : r.anchor <= i
  PROVE  \A i \in Ids(r.form) : r.anchor <= i
<1>1. /\ Before(r) \subseteq DOMAIN msgs /\ Before(r) \subseteq Nat
      /\ Ids(r.form) \subseteq Nat
  BY RowsAreMessages DEF Before, Ids
<1>2. PageSize(r) \in Nat /\ PageSize(r) # 0
  BY SizeOfPage
<1>3. Before(r) = {}
  <2>1. SUFFICES ASSUME Before(r) # {}
                 PROVE  FALSE
    OBVIOUS
  <2>2. PICK i \in NewestOf(Before(r), PageSize(r)) : TRUE
    BY <1>1, <1>2, <2>1, NewestReaches
  <2>3. i \in Page(r) /\ i \in Before(r)
    BY DEF Page, NewestOf
  <2>4. i \in Nat /\ i < r.anchor /\ r.anchor <= i
    BY <1>1, <2>3 DEF Before
  <2> QED
    BY ONLY <2>4, r.anchor \in Nat
<1> QED
  BY <1>1, <1>3 DEF Before

\* What a read's record says of its walk.
SameWalk(r, s) ==
  /\ s.op = r.op /\ s.at = r.at /\ s.result = r.result /\ s.form = r.form
  /\ s.since = r.since /\ s.until = r.until /\ s.cap = r.cap /\ s.upto = r.upto
  /\ s.anchor = r.anchor /\ s.left = r.left /\ s.seen = r.seen /\ s.rows = r.rows
  /\ s.got = r.got /\ s.patched = r.patched

\* Messages only join the end of the channel.
Grows ==
  /\ DOMAIN msgs = 1 .. Len(msgs) /\ DOMAIN msgs' = 1 .. Len(msgs')
  /\ Len(msgs) \in Nat /\ Len(msgs') \in Nat /\ Len(msgs) <= Len(msgs')
  /\ \A i \in DOMAIN msgs : msgs'[i] = msgs[i]

\* A walk is as it was when messages only join the channel.
LEMMA WalkKept ==
  ASSUME NEW r, NEW s, SameWalk(r, s), Grows, WalkInStep(r)
  PROVE  WalkInStep(s)'
<1> SUFFICES ASSUME r.op = "read", ~r.patched
             PROVE  WalkInStep(s)'
  BY DEF WalkInStep, SameWalk
<1>1. /\ s.at = r.at /\ s.result = r.result /\ s.form = r.form
      /\ s.since = r.since /\ s.until = r.until /\ s.cap = r.cap /\ s.upto = r.upto
      /\ s.anchor = r.anchor /\ s.left = r.left /\ s.seen = r.seen /\ s.rows = r.rows
      /\ s.got = r.got
  BY DEF SameWalk
<1>2. r.upto \in 0 .. Len(msgs) /\ r.upto \in 0 .. Len(msgs') /\ r.since \in Nat
  BY DEF WalkInStep, Grows
<1>3. /\ Ids(r.form) \subseteq Ids(r.form)' /\ Ids(r.form) \subseteq DOMAIN msgs
      /\ \A i \in Ids(r.form)' : i \in Ids(r.form) \/ i > r.upto
  <2>1. DOMAIN msgs \subseteq DOMAIN msgs'
    BY DEF Grows
  <2>2. \A i \in DOMAIN msgs' : i \in DOMAIN msgs \/ i > r.upto
    BY <1>2 DEF Grows
  <2> QED
    BY <2>1, <2>2 DEF Ids, Grows
<1>4. \A i \in DOMAIN msgs : InWindow(s, i)' <=> InWindow(r, i)
  BY <1>1 DEF InWindow, Grows
<1>5. \A i \in Range(r.got) : i \in Ids(r.form)' /\ InWindow(s, i)'
  BY <1>3, <1>4 DEF WalkInStep
<1>6. r.at \in {"walk", "render"} => WalkAt(s)'
  <2> SUFFICES ASSUME r.at \in {"walk", "render"}
               PROVE  WalkAt(s)'
    OBVIOUS
  <2>1. WalkAt(r)
    BY DEF WalkInStep
  <2>2. r.seen \subseteq DOMAIN msgs
    BY <1>3, <2>1 DEF WalkAt
  <2>3. {i \in r.seen : InWindow(s, i)'} = {i \in r.seen : InWindow(r, i)}
    BY <1>4, <2>2
  <2>4. \A i \in Ids(r.form)' : r.anchor <= i /\ i <= r.upto => i \in r.seen
    <3> TAKE i \in Ids(r.form)'
    <3>1. CASE i \in Ids(r.form)
      BY <2>1, <3>1 DEF WalkAt
    <3>2. CASE i > r.upto
      <4>1. i \in Nat /\ r.upto \in Nat
        BY <1>2 DEF Ids, Grows
      <4> QED
        BY <3>2, <4>1
    <3> QED
      BY <1>3, <3>1, <3>2
  <2> QED
    BY <1>1, <1>3, <2>1, <2>3, <2>4 DEF WalkAt
<1>7. r.at = "render" => PageAt(s)'
  <2> SUFFICES ASSUME r.at = "render"
               PROVE  PageAt(s)'
    OBVIOUS
  <2>1. PageAt(r)
    BY DEF WalkInStep
  <2>2. \A i \in Ids(r.form)', m \in r.rows :
          m <= i /\ i <= r.anchor /\ i <= r.upto => i \in r.rows
    <3> TAKE i \in Ids(r.form)', m \in r.rows
    <3>1. CASE i \in Ids(r.form)
      BY <2>1, <3>1 DEF PageAt
    <3>2. CASE i > r.upto
      <4>1. i \in Nat /\ r.upto \in Nat
        BY <1>2 DEF Ids, Grows
      <4> QED
        BY <3>2, <4>1
    <3> QED
      BY <1>3, <3>1, <3>2
  <2> QED
    BY <1>1, <1>3, <2>1, <2>2 DEF PageAt
<1>8. r.at = "end" /\ r.result = "ok" =>
        \A i \in Ids(r.form)' \ Range(r.got) : LeftOut(s, i)'
  <2> SUFFICES ASSUME r.at = "end", r.result = "ok", NEW i \in Ids(r.form)', i \notin Range(r.got)
               PROVE  LeftOut(s, i)'
    OBVIOUS
  <2>1. CASE i > r.upto
    BY <1>1, <2>1 DEF LeftOut
  <2>2. CASE i \in Ids(r.form)
    <3>1. LeftOut(r, i) /\ (InWindow(s, i)' <=> InWindow(r, i))
      BY <1>3, <1>4, <2>2 DEF WalkInStep
    <3> QED
      BY <1>1, <3>1 DEF LeftOut
  <2> QED
    BY <1>3, <2>1, <2>2
<1>9. Increasing(s.got)'
  BY <1>1 DEF WalkInStep, Increasing
<1> QED
  BY <1>1, <1>2, <1>5, <1>6, <1>7, <1>8, <1>9 DEF WalkInStep

-----------------------------------------------------------------------------
(* A walk begins, turns its pages and ends *)

\* A read on its way.
Reading(r) ==
  /\ DOMAIN r = DOMAIN Idle /\ r.op = "read" /\ r.cap \in Nat /\ r.got \in Seq(DOMAIN msgs)
  /\ ~r.patched =>
       r.upto \in 0 .. Len(msgs) /\ r.since \in Nat /\ Increasing(r.got) /\ WalkAt(r)

\* The call goes on as a read whose walk is in step.
Passes(c) == \E s : DOMAIN s = DOMAIN Idle /\ Moves(c, s) /\ s.op = "read" /\ WalkInStep(s)

\* A read that has kept nothing is in order.
LEMMA NothingReadYet ==
  ASSUME NEW s, s.got = <<>>
  PROVE  Increasing(s.got) /\ Range(s.got) = {} /\ Len(s.got) = 0
<1>1. DOMAIN <<>> = {} /\ Len(<<>>) = 0
  OBVIOUS
<1> QED
  BY <1>1 DEF Increasing, Range

\* A walk begins beyond the newest message, with nothing seen.
LEMMA WalkBegins ==
  ASSUME RealmInStep, NEW r, NEW form, DOMAIN r = DOMAIN Idle, r.op = "read",
         NEW s, DOMAIN s = DOMAIN Idle,
         ~s.patched => s.upto \in 0 .. Len(msgs) /\ s.since \in Nat,
         s.op = "read", s.at = "walk", s.form = form, s.anchor = Len(msgs) + MaxCalls + 1,
         s.left \in Nat \ {0}, s.seen = {}, s.got = <<>>
  PROVE  WalkInStep(s)
<1>1. Len(msgs) \in Nat /\ MaxCalls \in Nat /\ DOMAIN msgs = 1 .. Len(msgs)
  BY RowsAreMessages, PublishingAssumption DEF PublishingAssumption
<1>2. Increasing(s.got) /\ Range(s.got) = {}
  BY NothingReadYet
<1>3. WalkAt(s)
  <2>1. s.anchor \in Nat /\ s.anchor > Len(msgs)
    BY <1>1
  <2>2. \A i \in Ids(s.form) : ~(s.anchor <= i)
    BY <1>1, <2>1 DEF Ids
  <2> QED
    BY <1>2, <2>1, <2>2 DEF WalkAt
<1> QED
  BY <1>2, <1>3 DEF WalkInStep

\* A read begins with a page left to walk.
LEMMA WalkLeft ==
  ASSUME NEW r, DOMAIN r = DOMAIN Idle
  PROVE  (IF Bounded(r) THEN MaxPages ELSE 1) \in Nat \ {0}
  BY PublishingAssumption DEF PublishingAssumption

\* What a walk that ends leaves out, it may leave out.
LEMMA WalkEndsWell ==
  ASSUME RealmInStep, NEW c, NEW r, Reading(r), WalkEnds(c, r),
         ~r.patched => \A i \in Ids(r.form) :
           i < r.anchor => ~InWindow(r, i) \/ r.left = 0 \/ Len(r.got) >= r.cap
  PROVE  Passes(c)
<1>1. /\ DOMAIN r = DOMAIN Idle /\ r.op = "read" /\ r.cap \in Nat /\ r.got \in Seq(DOMAIN msgs)
      /\ ~r.patched =>
           r.upto \in 0 .. Len(msgs) /\ r.since \in Nat /\ Increasing(r.got) /\ WalkAt(r)
  BY DEF Reading
<1>2. CASE Moves(c, Walk(r, "done"))
  <2>1. PICK s : s = Walk(r, "done")
    OBVIOUS
  <2>2. /\ DOMAIN s = DOMAIN Idle /\ s.op = "read" /\ s.at = "walk" /\ s.form = "done"
        /\ s.anchor = Len(msgs) + MaxCalls + 1 /\ s.seen = {} /\ s.got = <<>>
        /\ s.patched = r.patched /\ s.upto = r.upto /\ s.since = r.since
        /\ s.left = IF Bounded(r) THEN MaxPages ELSE 1
    BY <1>1, <2>1 DEF Walk, Idle
  <2>3. s.left \in Nat \ {0}
    BY <1>1, <2>2, WalkLeft
  <2>4. ~s.patched => s.upto \in 0 .. Len(msgs) /\ s.since \in Nat
    BY <1>1, <2>2
  <2>5. WalkInStep(s)
    BY <1>1, <2>2, <2>3, <2>4, WalkBegins
  <2> QED
    BY <1>2, <2>1, <2>2, <2>5 DEF Passes
<1>3. CASE Moves(c, [r EXCEPT !.at = "end", !.result = "ok", !.got = LastOf(@, r.cap),
                             !.rows = {}, !.seen = {}])
  <2>1. PICK s : s = [r EXCEPT !.at = "end", !.result = "ok", !.got = LastOf(@, r.cap),
                              !.rows = {}, !.seen = {}]
    OBVIOUS
  <2>2. /\ DOMAIN s = DOMAIN Idle /\ s.op = "read" /\ s.at = "end" /\ s.result = "ok"
        /\ s.got = LastOf(r.got, r.cap) /\ s.form = r.form /\ s.cap = r.cap
        /\ s.since = r.since /\ s.until = r.until
        /\ s.patched = r.patched /\ s.upto = r.upto /\ s.left = r.left /\ s.anchor = r.anchor
    BY <1>1, <2>1 DEF Idle
  <2>3. ASSUME ~r.patched
        PROVE  WalkInStep(s)
    <3>1. r.got \in Seq(Nat) /\ Increasing(r.got) /\ WalkAt(r) /\ DOMAIN msgs \subseteq Nat
      BY <1>1, <2>3, RowsAreMessages
    <3>2. /\ Increasing(s.got) /\ Range(s.got) \subseteq Range(r.got)
          /\ Len(r.got) >= r.cap => Len(s.got) = r.cap
          /\ \A i \in Range(r.got) \ Range(s.got) : Len(s.got) = r.cap /\ \A j \in Range(s.got) : i < j
      <4>1. PICK t : t = LastOf(r.got, r.cap)
        OBVIOUS
      <4>2. /\ Increasing(t) /\ Range(t) \subseteq Range(r.got)
            /\ Len(r.got) >= r.cap => Len(t) = r.cap
            /\ \A i \in Range(r.got) \ Range(t) : Len(t) = r.cap /\ \A j \in Range(t) : i < j
        BY <1>1, <3>1, <4>1, LastKeepsOrder
      <4> QED
        BY <2>2, <4>1, <4>2
    <3>3. \A i : InWindow(s, i) <=> InWindow(r, i)
      BY <2>2 DEF InWindow
    <3>4. \A i \in Range(r.got) : i \in Ids(r.form) /\ InWindow(r, i) /\ r.anchor <= i
                                  /\ i \in Nat /\ r.anchor \in Nat
      BY <3>1 DEF WalkAt, Ids
    <3>5. ASSUME NEW i \in Ids(r.form), i \notin Range(s.got)
          PROVE  LeftOut(s, i)
      <4>1. i \in Nat /\ r.anchor \in Nat /\ r.upto \in Nat
        BY <1>1, <2>3, <3>1 DEF Ids, WalkAt
      <4>2. CASE i < r.anchor
        <5>1. CASE Len(r.got) >= r.cap
          <6>1. \A j \in Range(s.got) : j \in Nat /\ r.anchor <= j
            BY <3>2, <3>4
          <6>2. \A j \in Range(s.got) : i < j
            BY <4>1, <4>2, <6>1
          <6> QED
            BY <2>2, <3>2, <5>1, <6>2 DEF LeftOut
        <5>2. CASE ~InWindow(r, i) \/ r.left = 0
          BY <2>2, <3>3, <4>2, <5>2 DEF LeftOut
        <5> QED
          BY <2>3, <4>2, <5>1, <5>2
      <4>3. CASE r.anchor <= i /\ i <= r.upto
        <5>1. i \in r.seen
          BY <3>1, <4>3 DEF WalkAt
        <5>2. CASE InWindow(r, i)
          <6>1. i \in Range(r.got) \ Range(s.got)
            BY <3>1, <3>5, <5>1, <5>2 DEF WalkAt
          <6> QED
            BY <2>2, <3>2, <6>1 DEF LeftOut
        <5> QED
          BY <3>3, <5>2 DEF LeftOut
      <4>4. CASE i > r.upto
        BY <2>2, <4>4 DEF LeftOut
      <4>5. i < r.anchor \/ (r.anchor <= i /\ i <= r.upto) \/ i > r.upto
        BY ONLY <4>1
      <4> QED
        BY <4>2, <4>3, <4>4, <4>5
    <3> QED
      BY <1>1, <2>2, <2>3, <3>2, <3>3, <3>4, <3>5 DEF WalkInStep
  <2>4. WalkInStep(s)
    BY <2>2, <2>3 DEF WalkInStep
  <2> QED
    BY <1>3, <2>1, <2>2, <2>4 DEF Passes
<1> QED
  BY <1>2, <1>3 DEF WalkEnds

\* A turn takes a page without a hole, and the walk stands at its oldest row.
LEMMA TurnPasses ==
  ASSUME RealmInStep, TimesAscend, NEW c, NEW r, Reading(r),
         r.rows \subseteq DOMAIN msgs,
         ~r.patched => r.left # 0 /\ PageAt(r),
         NEW told, Turn(c, r, Kept(r), told)
  PROVE  Passes(c)
<1>1. /\ DOMAIN r = DOMAIN Idle /\ r.op = "read" /\ r.cap \in Nat /\ r.got \in Seq(DOMAIN msgs)
      /\ ~r.patched =>
           r.upto \in 0 .. Len(msgs) /\ r.since \in Nat /\ Increasing(r.got) /\ WalkAt(r)
  BY DEF Reading
<1>2. PICK s : s = Turned(r, Kept(r), told)
  OBVIOUS
<1>3. /\ DOMAIN s = DOMAIN Idle /\ s.op = "read" /\ s.at = "walk" /\ s.form = r.form
      /\ s.cap = r.cap /\ s.since = r.since /\ s.until = r.until
      /\ s.patched = r.patched /\ s.upto = r.upto /\ s.left = r.left - 1
      /\ s.anchor = MinOf(r.rows) /\ s.seen = r.seen \cup r.rows
      /\ s.got = Ascending(Kept(r)) \o r.got
  BY <1>1, <1>2 DEF Turned, Idle
<1>4. /\ Kept(r) \subseteq DOMAIN msgs /\ Kept(r) \subseteq Nat /\ IsFiniteSet(Kept(r))
      /\ DOMAIN msgs \subseteq Nat
  BY RowsAreMessages DEF Kept
<1>5. /\ Ascending(Kept(r)) \in Seq(DOMAIN msgs) /\ Increasing(Ascending(Kept(r)))
      /\ Range(Ascending(Kept(r))) = Kept(r)
  BY <1>4, AscendingOrdered
<1>6. s.got \in Seq(DOMAIN msgs)
  BY <1>1, <1>3, <1>5, ConcatProperties
<1>7. ASSUME ~r.patched
      PROVE  /\ Increasing(s.got) /\ WalkAt(s) /\ r.left \in Nat \ {0}
             /\ s.anchor \in r.rows
  <2>1. WalkAt(r) /\ PageAt(r) /\ r.anchor \in Nat /\ r.left \in Nat \ {0} /\ r.upto \in Nat
    BY <1>1, <1>7 DEF WalkAt
  <2>2. /\ r.rows \subseteq Nat /\ s.anchor \in r.rows /\ s.anchor \in Nat
        /\ \A j \in r.rows : s.anchor <= j /\ j <= r.anchor /\ j \in Nat
    BY <1>3, <1>4, <2>1, LeastIsMember DEF PageAt
  <2>3. \A j \in r.seen : r.anchor <= j /\ j \in Nat
    BY <1>4, <2>1 DEF WalkAt, Ids
  <2>4. \A x \in Kept(r), y \in Range(r.got) : x < y
    <3> TAKE x \in Kept(r), y \in Range(r.got)
    <3>1. y \in r.seen /\ r.anchor \in r.seen
      BY <2>1 DEF WalkAt
    <3>2. x \in r.rows /\ x \notin r.seen
      BY DEF Kept
    <3>3. x <= r.anchor /\ x # r.anchor /\ r.anchor <= y /\ x \in Nat /\ y \in Nat
      BY <2>2, <2>3, <3>1, <3>2
    <3> QED
      BY ONLY <2>1, <3>3
  <2>5. Increasing(s.got) /\ Range(s.got) = Kept(r) \cup Range(r.got)
    <3>1. r.got \in Seq(Nat) /\ Ascending(Kept(r)) \in Seq(Nat)
      BY <1>1, <1>4, <1>5
    <3> QED
      BY <1>1, <1>3, <1>5, <1>7, <2>4, <3>1, EarlierBefore
  <2>6. Range(s.got) = {i \in s.seen : InWindow(s, i)}
    <3>1. \A i : InWindow(s, i) <=> InWindow(r, i)
      BY <1>3 DEF InWindow
    <3>2. Range(r.got) = {i \in r.seen : InWindow(r, i)}
      BY <2>1 DEF WalkAt
    <3> QED
      BY <1>3, <2>5, <3>1, <3>2 DEF Kept
  <2>7. \A i \in s.seen : s.anchor <= i
    <3> TAKE i \in s.seen
    <3>1. CASE i \in r.rows
      BY <2>2, <3>1
    <3>2. CASE i \in r.seen
      <4>1. s.anchor <= r.anchor /\ r.anchor <= i /\ i \in Nat
        BY <2>2, <2>3, <3>2
      <4> QED
        BY ONLY <2>1, <2>2, <4>1
    <3> QED
      BY <1>3, <3>1, <3>2
  <2>8. \A i \in Ids(s.form) : s.anchor <= i /\ i <= s.upto => i \in s.seen
    <3> SUFFICES ASSUME NEW i \in Ids(r.form), s.anchor <= i, i <= r.upto
                 PROVE  i \in r.seen \cup r.rows
      BY <1>3
    <3>1. CASE r.anchor <= i
      BY <2>1, <3>1 DEF WalkAt
    <3>2. CASE i <= r.anchor
      BY <2>1, <2>2, <3>2 DEF PageAt
    <3> QED
      BY <1>4, <2>1, <3>1, <3>2 DEF Ids
  <2>9. s.seen \subseteq Ids(s.form)
    BY <1>3, <2>1 DEF WalkAt, PageAt
  <2>10. s.left \in Nat
    BY <1>3, <2>1
  <2> QED
    BY <1>3, <2>1, <2>2, <2>5, <2>6, <2>7, <2>8, <2>9, <2>10 DEF WalkAt
<1>8. Reading(s)
  BY <1>1, <1>3, <1>6, <1>7 DEF Reading
<1>9. CASE Moves(c, s) /\ r.left > 1
  <2>1. ~s.patched => s.left # 0
    BY <1>3, <1>7, <1>9
  <2>2. WalkInStep(s)
    <3>1. ~s.patched => \A i \in Range(s.got) : i \in Ids(s.form) /\ InWindow(s, i)
      BY <1>3, <1>7 DEF WalkAt
    <3> QED
      BY <1>1, <1>3, <1>7, <2>1, <3>1 DEF WalkInStep
  <2> QED
    BY <1>3, <1>9, <2>2 DEF Passes
<1>10. CASE WalkEnds(c, s) /\ (~(r.left > 1) \/ Crossed(r, r.rows) \/ ~(Len(s.got) < r.cap))
  <2>1. ASSUME ~s.patched, NEW i \in Ids(s.form), i < s.anchor
        PROVE  ~InWindow(s, i) \/ s.left = 0 \/ Len(s.got) >= s.cap
    <3>1. r.left \in Nat \ {0} /\ s.anchor \in r.rows /\ Len(s.got) \in Nat
      BY <1>3, <1>6, <1>7, <2>1, LenProperties
    <3>2. CASE ~(r.left > 1)
      BY <1>3, <3>1, <3>2
    <3>3. CASE ~(Len(s.got) < r.cap)
      BY <1>1, <1>3, <3>1, <3>3
    <3>4. CASE Crossed(r, r.rows)
      <4>1. r.since # 0 /\ msgs[s.anchor].ts < r.since
        BY <1>3, <3>4 DEF Crossed
      <4>2. i \in DOMAIN msgs /\ s.anchor \in DOMAIN msgs /\ i <= s.anchor
        BY <1>4, <2>1, <3>1 DEF Ids
      <4>3. msgs[i].ts <= msgs[s.anchor].ts /\ msgs[i].ts \in Nat /\ msgs[s.anchor].ts \in Nat
        BY <4>2, MessageTyped DEF TimesAscend, Messages
      <4>4. s.since # 0 /\ ~(msgs[i].ts >= s.since)
        <5>1. r.since \in Nat /\ s.since = r.since
          BY <1>1, <1>3, <2>1
        <5> QED
          BY <4>1, <4>3, <5>1
      <4> QED
        BY <4>4 DEF InWindow
    <3> QED
      BY <1>10, <3>2, <3>3, <3>4
  <2> QED
    BY <1>8, <1>10, <2>1, WalkEndsWell
<1> QED
  BY <1>2, <1>9, <1>10 DEF Turn

-----------------------------------------------------------------------------
(* The steps of a read *)

\* A step that leaves the messages alone is one by which they grow.
LEMMA RealmGrows ==
  ASSUME RealmInStep, UNCHANGED msgs
  PROVE  Grows
  BY RowsAreMessages DEF Grows

\* Every walk stays in step when the messages grow and no record of a walk changes.
LEMMA WalksKept ==
  ASSUME Grows, TimesAscend',
         \A d \in Callers : \/ call'[d].op # "read"
                            \/ call'[d].patched
                            \/ \E r : WalkInStep(r) /\ SameWalk(r, call'[d])
  PROVE  WalksInStep'
<1>1. ASSUME NEW d \in Callers
      PROVE  WalkInStep(call[d])'
  <2>1. PICK s : s = call'[d]
    OBVIOUS
  <2>2. CASE s.op # "read" \/ s.patched
    <3>1. WalkInStep(s)'
      BY <2>2 DEF WalkInStep
    <3> QED
      BY <2>1, <3>1
  <2>3. ASSUME NEW r, WalkInStep(r), SameWalk(r, s)
        PROVE  WalkInStep(call[d])'
    <3>1. WalkInStep(s)'
      BY <2>3, WalkKept
    <3> QED
      BY <2>1, <3>1
  <2> QED
    BY <2>1, <2>2, <2>3
<1> QED
  BY <1>1 DEF WalksInStep

\* A step of one call that leaves the realm's messages alone.
\* A step of one call keeps the walks when its own record is in step.
LEMMA WalksMove ==
  ASSUME AllInStep, WalksInStep, NEW c \in Callers, NEW r, DOMAIN r = DOMAIN Idle, Moves(c, r),
         UNCHANGED msgs, r.op # "read" \/ WalkInStep(r)
  PROVE  WalksInStep'
<1>1. PICK s : s = [r EXCEPT !.waited = 0, !.tries = 0]
  OBVIOUS
<1>2. SameWalk(r, s)
  BY <1>1 DEF SameWalk, Idle
<1>3. call' = [call EXCEPT ![c] = s] /\ DOMAIN call = Callers
  BY <1>1 DEF Moves, AllInStep, CallsInStep
<1>4. ASSUME NEW d \in Callers
      PROVE  \/ call'[d].op # "read"
             \/ call'[d].patched
             \/ \E q : WalkInStep(q) /\ SameWalk(q, call'[d])
  <2>1. CASE d = c
    <3>1. call'[d] = s
      BY <1>3, <2>1
    <3>2. s.op = r.op
      BY <1>2 DEF SameWalk
    <3> QED
      BY <1>2, <3>1, <3>2
  <2>2. CASE d # c
    <3>1. call'[d] = call[d]
      BY <1>3, <2>2
    <3>2. SameWalk(call[d], call'[d])
      BY <3>1 DEF SameWalk
    <3>3. WalkInStep(call[d])
      BY DEF WalksInStep
    <3> QED
      BY <3>2, <3>3
  <2> QED
    BY <2>1, <2>2
<1>5. TimesAscend'
  BY DEF WalksInStep, TimesAscend
<1> QED
  BY <1>4, <1>5, RealmGrows, WalksKept DEF AllInStep

\* So it does when that call goes on as a read in step,
LEMMA PassesKeepsWalks ==
  ASSUME AllInStep, WalksInStep, NEW c \in Callers, Passes(c), UNCHANGED msgs
  PROVE  WalksInStep'
<1>1. PICK s : DOMAIN s = DOMAIN Idle /\ Moves(c, s) /\ WalkInStep(s)
  BY DEF Passes
<1> QED
  BY <1>1, WalksMove

\* when it moves on and is no read,
LEMMA GoesKeepsWalks ==
  ASSUME AllInStep, WalksInStep, NEW c \in Callers, NEW at, Goes(c, at),
         call[c].op # "read", UNCHANGED msgs
  PROVE  WalksInStep'
<1>1. PICK r : r = [call[c] EXCEPT !.at = at]
  OBVIOUS
<1>2. DOMAIN r = DOMAIN Idle /\ r.op # "read"
  <2>1. DOMAIN call[c] = DOMAIN Idle
    BY CallSound DEF AllInStep
  <2> QED
    BY <1>1, <2>1 DEF Idle
<1>3. Moves(c, r)
  BY <1>1 DEF Goes
<1> QED
  BY <1>2, <1>3, WalksMove

\* and when it ends without an answer.
LEMMA EndsKeepsWalks ==
  ASSUME AllInStep, WalksInStep, NEW c \in Callers, NEW result, Ends(c, result),
         call[c].op # "read" \/ result = "failed", UNCHANGED msgs
  PROVE  WalksInStep'
<1>1. PICK r : r = Over(call[c], result)
  OBVIOUS
<1>2. /\ DOMAIN r = DOMAIN Idle /\ r.op = call[c].op /\ r.at = "end" /\ r.result = result
      /\ r.upto = 0 /\ r.since = 0 /\ r.got = <<>>
  BY <1>1 DEF Over, Idle
<1>3. r.op # "read" \/ WalkInStep(r)
  <2> SUFFICES ASSUME r.result = "failed"
               PROVE  WalkInStep(r)
    BY <1>2
  <2>1. Increasing(r.got) /\ Range(r.got) = {}
    BY <1>2, NothingReadYet
  <2>2. Len(msgs) \in Nat
    BY RowsAreMessages DEF AllInStep
  <2> QED
    BY <1>2, <2>1, <2>2 DEF WalkInStep
<1>4. Moves(c, r)
  BY <1>1 DEF Ends
<1> QED
  BY <1>2, <1>3, <1>4, WalksMove

\* A call that walks or renders is a read on its way.
LEMMA CallIsReading ==
  ASSUME AllInStep, WalksInStep, NEW c \in Callers, NEW r, r = call[c], r.at \in {"walk", "render"}
  PROVE  /\ Reading(r) /\ r.rows \subseteq DOMAIN msgs
         /\ ~r.patched => /\ WalkAt(r) /\ r.left # 0
                          /\ r.at = "render" => PageAt(r)
<1>1. Sound(r) /\ r.op = "read" /\ ReadInStep(r) /\ WalkInStep(r)
  BY CallSound DEF AllInStep, Sound, OpInStep, WalksInStep
<1> QED
  BY <1>1 DEF Sound, ReadInStep, WalkInStep, Reading

\* RenderPage keeps the walks: the page it renders was fetched without a hole.
LEMMA RenderPageWalks ==
  ASSUME AllInStep, WalksInStep, NEW c \in Callers, RenderPage(c)
  PROVE  WalksInStep'
<1>1. PICK r : r = call[c]
  OBVIOUS
<1>2. PICK told : told = {i \in Kept(r) \cap RenderedRows(r) : msgs[i].mention}
  OBVIOUS
<1>3. r.at = "render" /\ Turn(c, r, Kept(r), told) /\ UNCHANGED msgs
  BY <1>1, <1>2 DEF RenderPage, At, realmVars
<1>4. Reading(r) /\ r.rows \subseteq DOMAIN msgs /\ (~r.patched => r.left # 0 /\ PageAt(r))
  BY <1>1, <1>3, CallIsReading
<1>5. Passes(c)
  BY <1>3, <1>4, TurnPasses DEF AllInStep, WalksInStep
<1> QED
  BY <1>3, <1>5, PassesKeepsWalks

\* WalkPage keeps the walks: it ends, turns the page, or leaves it to be rendered.
LEMMA WalkPageWalks ==
  ASSUME AllInStep, WalksInStep, NEW c \in Callers, WalkPage(c)
  PROVE  WalksInStep'
<1>1. PICK q : q = call[c]
  OBVIOUS
<1>2. PICK r : r = [q EXCEPT !.rows = Page(q)]
  OBVIOUS
<1>3. /\ q.at = "walk" /\ UNCHANGED msgs
      /\ \/ r.rows \subseteq r.seen /\ WalkEnds(c, r)
         \/ ~(r.rows \subseteq r.seen) /\ Moves(c, [r EXCEPT !.at = "render"])
         \/ ~(r.rows \subseteq r.seen) /\ Turn(c, r, Kept(r), {})
  BY <1>1, <1>2 DEF WalkPage, At, realmVars
<1>4. Reading(q) /\ (~q.patched => WalkAt(q) /\ q.left # 0)
  BY <1>1, <1>3, CallIsReading
<1>5. /\ DOMAIN r = DOMAIN Idle /\ r.op = "read" /\ r.at = "walk" /\ r.form = q.form
      /\ r.cap = q.cap /\ r.since = q.since /\ r.until = q.until /\ r.patched = q.patched
      /\ r.upto = q.upto /\ r.left = q.left /\ r.anchor = q.anchor /\ r.seen = q.seen
      /\ r.got = q.got /\ r.rows = Page(q)
  BY <1>2, <1>3, <1>4 DEF Reading, Idle
<1>6. Page(r) = Page(q) /\ (\A i : InWindow(r, i) <=> InWindow(q, i))
  BY <1>5, SamePage DEF InWindow
<1>7. WalkAt(q) => WalkAt(r)
  BY <1>5, <1>6 DEF WalkAt
<1>8. Reading(r)
  BY <1>4, <1>5, <1>7 DEF Reading
<1>9. Page(q) \subseteq DOMAIN msgs
  BY DEF Page, NewestOf, Before, Ids
<1>10. r.cap \in Nat /\ RealmInStep /\ TimesAscend /\ Len(r.got) \in Nat
  BY <1>8, LenProperties DEF Reading, AllInStep, WalksInStep
<1>11. ~r.patched => WalkAt(r) /\ r.left # 0 /\ r.anchor \in Nat
  BY <1>4, <1>5, <1>7 DEF WalkAt
<1>12. ASSUME ~r.patched, ~(r.rows \subseteq r.seen)
       PROVE  PageAt(r)
  <2>1. Page(r) \subseteq Ids(r.form) /\ \A i \in Page(r) : i <= r.anchor
    BY <1>10, <1>11, <1>12, PageTyped
  <2>2. \A i \in Ids(r.form), m \in Page(r) : m <= i /\ i <= r.anchor => i \in Page(r)
    BY <1>10, <1>11, <1>12, PageFetched
  <2>3. r.rows = Page(r) /\ r.rows # {}
    BY <1>5, <1>6, <1>12
  <2> QED
    BY <2>1, <2>2, <2>3 DEF PageAt
<1>13. CASE r.rows \subseteq r.seen /\ WalkEnds(c, r)
  <2>1. ASSUME ~r.patched, NEW i \in Ids(r.form), i < r.anchor
        PROVE  ~InWindow(r, i) \/ r.left = 0 \/ Len(r.got) >= r.cap
    <3>1. CASE r.cap = 0
      BY <1>10, <3>1
    <3>2. CASE r.cap # 0
      <4>1. \A j \in Page(r) : r.anchor <= j
        BY <1>5, <1>6, <1>11, <1>13, <2>1 DEF WalkAt
      <4>2. r.anchor <= i
        BY <1>10, <1>11, <2>1, <3>2, <4>1, PageExhausted
      <4>3. i \in Nat /\ r.anchor \in Nat
        BY <1>10, <1>11, <2>1, RowsAreMessages DEF Ids
      <4> QED
        BY <2>1, <4>2, <4>3
    <3> QED
      BY <3>1, <3>2
  <2>2. Passes(c)
    BY <1>8, <1>10, <1>13, <2>1, WalkEndsWell
  <2> QED
    BY <1>3, <2>2, PassesKeepsWalks
<1>14. CASE ~(r.rows \subseteq r.seen) /\ Turn(c, r, Kept(r), {})
  <2>1. ~r.patched => r.left # 0 /\ PageAt(r)
    BY <1>11, <1>12, <1>14
  <2>2. r.rows \subseteq DOMAIN msgs
    BY <1>5, <1>9
  <2>3. Passes(c)
    BY <1>8, <1>10, <1>14, <2>1, <2>2, TurnPasses
  <2> QED
    BY <1>3, <2>3, PassesKeepsWalks
<1>15. CASE ~(r.rows \subseteq r.seen) /\ Moves(c, [r EXCEPT !.at = "render"])
  <2>1. PICK s : s = [r EXCEPT !.at = "render"]
    OBVIOUS
  <2>2. /\ DOMAIN s = DOMAIN Idle /\ s.op = "read" /\ s.at = "render" /\ s.form = r.form
        /\ s.since = r.since /\ s.until = r.until /\ s.patched = r.patched
        /\ s.upto = r.upto /\ s.left = r.left /\ s.anchor = r.anchor /\ s.seen = r.seen
        /\ s.got = r.got /\ s.rows = r.rows
    BY <1>5, <2>1 DEF Idle
  <2>3. ASSUME ~r.patched
        PROVE  WalkInStep(s)
    <3>1. \A i : InWindow(s, i) <=> InWindow(r, i)
      BY <2>2 DEF InWindow
    <3>2. WalkAt(s)
      BY <1>11, <2>2, <2>3, <3>1 DEF WalkAt
    <3>3. PageAt(s)
      BY <1>12, <1>15, <2>2, <2>3 DEF PageAt
    <3>4. \A i \in Range(s.got) : i \in Ids(s.form) /\ InWindow(s, i)
      BY <3>2 DEF WalkAt
    <3> QED
      BY <1>8, <1>11, <2>2, <2>3, <3>2, <3>3, <3>4 DEF WalkInStep, Reading
  <2>4. WalkInStep(s)
    BY <2>2, <2>3 DEF WalkInStep
  <2>5. Moves(c, s)
    BY <1>15, <2>1
  <2> QED
    BY <1>3, <2>2, <2>4, <2>5, WalksMove
<1> QED
  BY <1>3, <1>13, <1>14, <1>15

-----------------------------------------------------------------------------
(* The other calls and the walks *)

\* A read begins with all it is to return before it.
LEMMA BeginWalks ==
  ASSUME AllInStep, WalksInStep, NEW c \in Callers, Begin(c)
  PROVE  WalksInStep'
<1>1. ASSUME NEW r, DOMAIN r = DOMAIN Idle, r.op # "read", Begins(c, r)
      PROVE  WalksInStep'
  <2>1. PICK s : s = [r EXCEPT !.dead = r.mention /\ member # "active",
                               !.lacked = r.op \in {"post", "describe"} /\ ~created,
                               !.upto = IF r.op = "read" THEN Len(msgs) ELSE 0]
    OBVIOUS
  <2>2. DOMAIN s = DOMAIN Idle /\ s.op # "read"
    BY <1>1, <2>1 DEF Idle
  <2>3. Moves(c, s) /\ UNCHANGED msgs
    BY <1>1, <2>1 DEF Begins, realmVars
  <2> QED
    BY <2>2, <2>3, WalksMove
<1>2. ASSUME NEW p \in Posts, BeginPost(c, p)
      PROVE  WalksInStep'
  <2>1. PICK r : r = [Idle EXCEPT !.op = "post", !.at = "limit", !.mention = p.mention,
                                  !.threaded = p.threaded, !.long = p.long]
    OBVIOUS
  <2>2. DOMAIN r = DOMAIN Idle /\ r.op = "post"
    BY <2>1 DEF Idle
  <2> QED
    BY <1>1, <1>2, <2>1, <2>2 DEF BeginPost
<1>3. ASSUME NEW p \in Posts, BeginEdit(c, p)
      PROVE  WalksInStep'
  <2>1. PICK r : r = [Idle EXCEPT !.op = "edit", !.at = "limit", !.mention = p.mention,
                                  !.long = p.long]
    OBVIOUS
  <2>2. DOMAIN r = DOMAIN Idle /\ r.op = "edit"
    BY <2>1 DEF Idle
  <2> QED
    BY <1>1, <1>3, <2>1, <2>2 DEF BeginEdit
<1>4. ASSUME NEW text \in Texts, BeginDescribe(c, text)
      PROVE  WalksInStep'
  <2>1. PICK r : r = [Idle EXCEPT !.op = "describe", !.at = "channel", !.text = text]
    OBVIOUS
  <2>2. DOMAIN r = DOMAIN Idle /\ r.op = "describe"
    BY <2>1 DEF Idle
  <2> QED
    BY <1>1, <1>4, <2>1, <2>2 DEF BeginDescribe
<1>5. ASSUME NEW resolved \in BOOLEAN, BeginResolve(c, resolved)
      PROVE  WalksInStep'
  <2>1. PICK r : r = [Idle EXCEPT !.op = "resolve", !.at = "source",
                                  !.form = IF resolved THEN "plain" ELSE "done",
                                  !.target = IF resolved THEN "done" ELSE "plain"]
    OBVIOUS
  <2>2. DOMAIN r = DOMAIN Idle /\ r.op = "resolve"
    BY <2>1 DEF Idle
  <2> QED
    BY <1>1, <1>5, <2>1, <2>2 DEF BeginResolve
<1>6. ASSUME NEW p \in Reads, BeginRead(c, p)
      PROVE  WalksInStep'
  <2>1. PICK q : q = [Idle EXCEPT !.op = "read", !.since = p.since, !.until = p.until, !.cap = p.cap]
    OBVIOUS
  <2>2. DOMAIN q = DOMAIN Idle /\ q.op = "read" /\ q.since \in Nat
    BY <2>1, PublishingAssumption DEF PublishingAssumption, Idle
  <2>3. PICK r : r = Walk(q, p.form)
    OBVIOUS
  <2>4. PICK s : s = [r EXCEPT !.dead = r.mention /\ member # "active",
                               !.lacked = r.op \in {"post", "describe"} /\ ~created,
                               !.upto = IF r.op = "read" THEN Len(msgs) ELSE 0]
    OBVIOUS
  <2>5. /\ DOMAIN r = DOMAIN Idle /\ r.op = "read" /\ r.at = "walk" /\ r.form = p.form
        /\ r.anchor = Len(msgs) + MaxCalls + 1 /\ r.seen = {} /\ r.got = <<>>
        /\ r.since \in Nat
        /\ r.left = IF Bounded(q) THEN MaxPages ELSE 1
    BY <2>2, <2>3 DEF Walk, Idle
  <2>6. /\ DOMAIN s = DOMAIN Idle /\ s.op = "read" /\ s.at = "walk" /\ s.form = p.form
        /\ s.anchor = Len(msgs) + MaxCalls + 1 /\ s.seen = {} /\ s.got = <<>>
        /\ s.since \in Nat /\ s.left = r.left /\ s.upto = Len(msgs)
    BY <2>4, <2>5 DEF Idle
  <2>7. s.left \in Nat \ {0} /\ s.upto \in 0 .. Len(msgs) /\ RealmInStep
    <3>1. RealmInStep /\ Len(msgs) \in Nat
      BY RowsAreMessages DEF AllInStep
    <3> QED
      BY <2>2, <2>5, <2>6, <3>1, WalkLeft
  <2>8. WalkInStep(s)
    BY <2>6, <2>7, WalkBegins
  <2>9. Moves(c, s) /\ UNCHANGED msgs
    BY <1>6, <2>1, <2>3, <2>4 DEF BeginRead, Begins, realmVars
  <2> QED
    BY <2>6, <2>8, <2>9, WalksMove
<1>7. ASSUME NEW e \in Events, BeginMap(c, e)
      PROVE  WalksInStep'
  <2>1. PICK r : r = [Idle EXCEPT !.op = "map", !.at = "directory", !.form = e.form, !.id = e.id,
                                  !.by = e.by, !.cached = e.cached,
                                  !.mention = IF e.id = 0 THEN TRUE ELSE msgs[e.id].mention]
    OBVIOUS
  <2>2. DOMAIN r = DOMAIN Idle /\ r.op = "map"
    BY <2>1 DEF Idle
  <2> QED
    BY <1>1, <1>7, <2>1, <2>2 DEF BeginMap
<1> QED
  BY <1>2, <1>3, <1>4, <1>5, <1>6, <1>7 DEF Begin

\* A rate limit keeps the walks: a read waits as it is, or ends without an answer.
LEMMA RateLimitedWalks ==
  ASSUME AllInStep, WalksInStep, NEW c \in Callers, NEW asked, RateLimited(c, asked)
  PROVE  WalksInStep'
<1>1. UNCHANGED msgs
  BY DEF RateLimited, realmVars
<1>2. CASE Ends(c, "failed")
  BY <1>1, <1>2, EndsKeepsWalks
<1>3. CASE call' = [call EXCEPT ![c].waited = @ + WaitOf(asked, @), ![c].tries = @ + 1]
  <2>1. DOMAIN call = Callers /\ \A d \in Callers : DOMAIN call[d] = DOMAIN Idle /\ WalkInStep(call[d])
    BY CallSound DEF AllInStep, CallsInStep, WalksInStep
  <2>2. ASSUME NEW d \in Callers
        PROVE  SameWalk(call[d], call'[d])
    <3>1. CASE d # c
      <4>1. call'[d] = call[d]
        BY <1>3, <2>1, <3>1
      <4> QED
        BY <4>1 DEF SameWalk
    <3>2. CASE d = c
      <4>1. PICK r : r = call[c]
        OBVIOUS
      <4>2. PICK s : s = call'[c]
        OBVIOUS
      <4>3. s = [r EXCEPT !.waited = @ + WaitOf(asked, @), !.tries = @ + 1] /\ DOMAIN r = DOMAIN Idle
        BY <1>3, <2>1, <4>1, <4>2
      <4>4. SameWalk(r, s)
        BY <4>3 DEF SameWalk, Idle
      <4> QED
        BY <3>2, <4>1, <4>2, <4>4
    <3> QED
      BY <3>1, <3>2
  <2>3. \A d \in Callers : \E r : WalkInStep(r) /\ SameWalk(r, call'[d])
    BY <2>1, <2>2
  <2>4. TimesAscend'
    BY <1>1 DEF WalksInStep, TimesAscend
  <2> QED
    BY <1>1, <2>3, <2>4, RealmGrows, WalksKept DEF AllInStep
<1> QED
  BY <1>2, <1>3 DEF RateLimited

\* So does the end of a call.
LEMMA EndWalks ==
  ASSUME AllInStep, WalksInStep, NEW c \in Callers, End(c)
  PROVE  WalksInStep'
<1>1. PICK s : s = Idle
  OBVIOUS
<1>2. Moves(c, s) /\ UNCHANGED msgs
  BY <1>1 DEF End, Moves, realmVars, Idle
<1>3. DOMAIN s = DOMAIN Idle /\ s.op # "read"
  BY <1>1 DEF Idle
<1> QED
  BY <1>2, <1>3, WalksMove

\* What no request of a read does.
LEMMA WritesKeepWalks ==
  ASSUME AllInStep, WalksInStep, NEW c \in Callers,
         \/ RefuseOverlongBody(c) \/ ValidateOutboundMentions(c)
         \/ DeadMentionsAfterFreshRead(c) \/ RenderedMentionIds(c) \/ Cover(c)
         \/ LookupChannel(c) \/ RefreshKnownStreams(c)
         \/ AddressPlain(c) \/ AddressResolved(c) \/ StoredRead(c) \/ Rewrite(c)
         \/ FetchChannelDescription(c) \/ FindSource(c) \/ FindTarget(c)
  PROVE  WalksInStep'
<1>1. PICK r : r = call[c]
  OBVIOUS
<1>2. OpInStep(r) /\ DOMAIN r = DOMAIN Idle
  BY <1>1, CallSound DEF AllInStep
<1>3. ASSUME r.op # "read", UNCHANGED msgs,
             \/ \E at : Goes(c, at)
             \/ \E result : Ends(c, result)
             \/ \E dir, at : Moves(c, [r EXCEPT !.dir = dir, !.at = at])
             \/ \E form : Moves(c, [r EXCEPT !.at = "send", !.form = form])
             \/ \E id : Moves(c, [r EXCEPT !.at = "patch", !.id = id])
      PROVE  WalksInStep'
  <2>1. ASSUME NEW at, Goes(c, at)
        PROVE  WalksInStep'
    BY <1>1, <1>3, <2>1, GoesKeepsWalks
  <2>2. ASSUME NEW result, Ends(c, result)
        PROVE  WalksInStep'
    BY <1>1, <1>3, <2>2, EndsKeepsWalks
  <2>3. ASSUME NEW s, DOMAIN s = DOMAIN Idle, s.op = r.op, Moves(c, s)
        PROVE  WalksInStep'
    BY <1>3, <2>3, WalksMove
  <2>4. ASSUME NEW dir, NEW at, Moves(c, [r EXCEPT !.dir = dir, !.at = at])
        PROVE  WalksInStep'
    <3>1. PICK s : s = [r EXCEPT !.dir = dir, !.at = at]
      OBVIOUS
    <3>2. DOMAIN s = DOMAIN Idle /\ s.op = r.op
      BY <1>2, <3>1 DEF Idle
    <3> QED
      BY <2>3, <2>4, <3>1, <3>2
  <2>5. ASSUME NEW form, Moves(c, [r EXCEPT !.at = "send", !.form = form])
        PROVE  WalksInStep'
    <3>1. PICK s : s = [r EXCEPT !.at = "send", !.form = form]
      OBVIOUS
    <3>2. DOMAIN s = DOMAIN Idle /\ s.op = r.op
      BY <1>2, <3>1 DEF Idle
    <3> QED
      BY <2>3, <2>5, <3>1, <3>2
  <2>6. ASSUME NEW id, Moves(c, [r EXCEPT !.at = "patch", !.id = id])
        PROVE  WalksInStep'
    <3>1. PICK s : s = [r EXCEPT !.at = "patch", !.id = id]
      OBVIOUS
    <3>2. DOMAIN s = DOMAIN Idle /\ s.op = r.op
      BY <1>2, <3>1 DEF Idle
    <3> QED
      BY <2>3, <2>6, <3>1, <3>2
  <2> QED
    BY <1>3, <2>1, <2>2, <2>4, <2>5, <2>6
<1>4. UNCHANGED msgs
  BY DEF RefuseOverlongBody, ValidateOutboundMentions, DeadMentionsAfterFreshRead,
     RenderedMentionIds, Cover, LookupChannel, RefreshKnownStreams, AddressPlain,
     AddressResolved, StoredRead, Rewrite, FetchChannelDescription, FindSource, FindTarget,
     realmVars
<1>5. r.op # "read"
  <2>1. r.at \in Checking \cup {"channel", "refresh", "probe", "resolved?", "stored", "rewrite",
                               "description", "source", "target"}
    BY <1>1 DEF RefuseOverlongBody, ValidateOutboundMentions, DeadMentionsAfterFreshRead,
       RenderedMentionIds, Cover, LookupChannel, RefreshKnownStreams, AddressPlain,
       AddressResolved, StoredRead, Rewrite, FetchChannelDescription, FindSource, FindTarget,
       At, Checking
  <2> QED
    BY <1>2, <2>1 DEF OpInStep
<1>6. CASE \/ RefuseOverlongBody(c) \/ ValidateOutboundMentions(c) \/ RenderedMentionIds(c)
           \/ Cover(c) \/ LookupChannel(c) \/ RefreshKnownStreams(c) \/ StoredRead(c)
           \/ Rewrite(c) \/ FetchChannelDescription(c) \/ FindTarget(c)
  <2>1. (\E at : Goes(c, at)) \/ \E result : Ends(c, result)
    BY <1>6 DEF RefuseOverlongBody, ValidateOutboundMentions, RenderedMentionIds, Cover,
       LookupChannel, RefreshKnownStreams, StoredRead, Rewrite, FetchChannelDescription,
       FindTarget
  <2> QED
    BY <1>3, <1>4, <1>5, <2>1
<1>7. CASE DeadMentionsAfterFreshRead(c)
  <2>1. \E dir, at : Moves(c, [r EXCEPT !.dir = dir, !.at = at])
    BY <1>1, <1>7 DEF DeadMentionsAfterFreshRead
  <2> QED
    BY <1>3, <1>4, <1>5, <2>1
<1>8. CASE AddressPlain(c) \/ AddressResolved(c)
  <2>1. (\E at : Goes(c, at)) \/ \E form : Moves(c, [r EXCEPT !.at = "send", !.form = form])
    BY <1>1, <1>8 DEF AddressPlain, AddressResolved, Sends
  <2> QED
    BY <1>3, <1>4, <1>5, <2>1
<1>9. CASE FindSource(c)
  <2>1. (\E at : Goes(c, at)) \/ \E id : Moves(c, [r EXCEPT !.at = "patch", !.id = id])
    BY <1>1, <1>9 DEF FindSource
  <2> QED
    BY <1>3, <1>4, <1>5, <2>1
<1> QED
  BY <1>6, <1>7, <1>8, <1>9

\* An event being mapped is no walk.
LEMMA MappingWalks ==
  ASSUME AllInStep, WalksInStep, NEW c \in Callers,
         \/ ResolveDirectory(c) \/ FetchMessageRef(c) \/ CoverAuthor(c)
         \/ ShowMessage(c) \/ CoverMentioned(c)
  PROVE  WalksInStep'
<1>1. PICK r : r = call[c]
  OBVIOUS
<1>2. r.op = "map" /\ DOMAIN r = DOMAIN Idle
  <2>1. r.at \in Mapping
    BY <1>1 DEF ResolveDirectory, FetchMessageRef, CoverAuthor, ShowMessage, CoverMentioned,
       At, Mapping
  <2> QED
    BY <1>1, <2>1, CallSound DEF AllInStep, OpInStep
<1>3. UNCHANGED msgs
  BY DEF ResolveDirectory, FetchMessageRef, CoverAuthor, ShowMessage, CoverMentioned, realmVars
<1>4. ASSUME NEW s, DOMAIN s = DOMAIN Idle, s.op = "map", Moves(c, s)
      PROVE  WalksInStep'
  BY <1>3, <1>4, WalksMove
<1>5. ASSUME NEW q, DOMAIN q = DOMAIN Idle, q.op = "map", NEW rows, NEW told, Maps(c, q, rows, told)
      PROVE  WalksInStep'
  <2>1. PICK s : s = [q EXCEPT !.at = "end", !.result = "ok", !.got = rows, !.told = told]
    OBVIOUS
  <2>2. DOMAIN s = DOMAIN Idle /\ s.op = "map" /\ Moves(c, s)
    BY <1>5, <2>1 DEF Maps, Idle
  <2> QED
    BY <1>4, <2>2
<1>6. ASSUME NEW q, DOMAIN q = DOMAIN Idle, q.op = "map", NEW at, Moves(c, [q EXCEPT !.at = at])
      PROVE  WalksInStep'
  <2>1. PICK s : s = [q EXCEPT !.at = at]
    OBVIOUS
  <2>2. DOMAIN s = DOMAIN Idle /\ s.op = "map" /\ Moves(c, s)
    BY <1>6, <2>1 DEF Idle
  <2> QED
    BY <1>4, <2>2
<1>7. ASSUME NEW q, DOMAIN q = DOMAIN Idle, q.op = "map", MapsOn(c, q)
      PROVE  WalksInStep'
  BY <1>5, <1>6, <1>7 DEF MapsOn
<1>8. CASE ResolveDirectory(c)
  <2>1. PICK q : q = [r EXCEPT !.dir = listed]
    OBVIOUS
  <2>2. DOMAIN q = DOMAIN Idle /\ q.op = "map" /\ MapsOn(c, q)
    BY <1>1, <1>2, <1>8, <2>1 DEF ResolveDirectory, Idle
  <2> QED
    BY <1>7, <2>2
<1>9. CASE FetchMessageRef(c)
  <2>1. PICK q : q = [r EXCEPT !.cached = TRUE]
    OBVIOUS
  <2>2. /\ DOMAIN q = DOMAIN Idle /\ q.op = "map"
        /\ MapsOn(c, q) \/ Maps(c, r, <<>>, {})
    BY <1>1, <1>2, <1>9, <2>1 DEF FetchMessageRef, Idle
  <2> QED
    BY <1>2, <1>5, <1>7, <2>2
<1>10. CASE CoverAuthor(c)
  <2>1. PICK q : q = [r EXCEPT !.dir = member]
    OBVIOUS
  <2>2. DOMAIN q = DOMAIN Idle /\ q.op = "map" /\ MapsOn(c, q)
    BY <1>1, <1>2, <1>10, <2>1 DEF CoverAuthor, Idle
  <2> QED
    BY <1>7, <2>2
<1>11. CASE ShowMessage(c)
  BY <1>1, <1>2, <1>5, <1>6, <1>11 DEF ShowMessage
<1>12. CASE CoverMentioned(c)
  <2>1. \E told : Maps(c, r, Rows(r), told)
    BY <1>1, <1>12 DEF CoverMentioned
  <2> QED
    BY <1>2, <1>5, <2>1
<1> QED
  BY <1>8, <1>9, <1>10, <1>11, <1>12

\* What was posted before a read is as it was when another post has been stored.
LEMMA SendWalks ==
  ASSUME AllInStep, WalksInStep, NEW c \in Callers, Send(c)
  PROVE  WalksInStep'
<1>1. PICK q : q = call[c]
  OBVIOUS
<1> DEFINE topic == IF q.threaded THEN q.form ELSE "none"
           sent == [q EXCEPT !.stored = @ + 1]
           after == IF q.threaded THEN [sent EXCEPT !.at = "stored"] ELSE Over(sent, "ok")
<1>2. /\ q.at = "send" /\ msgs' = Append(msgs, Message(topic, q.mention))
  BY <1>1 DEF Send, At
<1>3. PICK mine \in {after, [sent EXCEPT !.at = "lost"]} :
        call' = [d \in Callers |->
                   IF d = c THEN [mine EXCEPT !.waited = 0, !.tries = 0]
                   ELSE [call[d] EXCEPT !.disturbed = @ \/ call[d].op \in {"resolve", "read"}]]
  BY <1>1 DEF Send
<1>4. q.op = "post" /\ DOMAIN q = DOMAIN Idle
  BY <1>1, <1>2, CallSound DEF AllInStep, OpInStep
<1>5. call'[c].op = "post"
  <2>1. mine.op = "post" /\ DOMAIN mine = DOMAIN Idle
    <3>1. PICK r : r = sent
      OBVIOUS
    <3>2. r.op = "post" /\ DOMAIN r = DOMAIN Idle
      BY <1>4, <3>1 DEF Idle
    <3>3. \/ mine = [r EXCEPT !.at = "stored"]
          \/ mine = [r EXCEPT !.at = "lost"]
          \/ mine = Over(r, "ok")
      BY <1>3, <3>1
    <3>4. Over(r, "ok").op = "post" /\ DOMAIN Over(r, "ok") = DOMAIN Idle
      BY <3>2 DEF Over, Idle
    <3> QED
      BY <3>2, <3>3, <3>4 DEF Idle
  <2>2. call'[c] = [mine EXCEPT !.waited = 0, !.tries = 0]
    BY <1>3
  <2> QED
    BY <2>1, <2>2 DEF Idle
<1>6. ASSUME NEW d \in Callers, d # c
      PROVE  WalkInStep(call[d]) /\ SameWalk(call[d], call'[d])
  <2>1. PICK r : r = call[d]
    OBVIOUS
  <2>2. WalkInStep(r) /\ DOMAIN r = DOMAIN Idle
    BY <2>1, CallSound DEF AllInStep, WalksInStep
  <2>3. PICK s : s = call'[d]
    OBVIOUS
  <2>4. s = [r EXCEPT !.disturbed = @ \/ r.op \in {"resolve", "read"}]
    BY <1>3, <1>6, <2>1, <2>3
  <2>5. SameWalk(r, s)
    BY <2>2, <2>4 DEF SameWalk, Idle
  <2> QED
    BY <2>1, <2>2, <2>3, <2>5
<1>7. PICK m \in Messages : msgs' = Append(msgs, m) /\ m.ts = Now
  <2>1. Message(topic, q.mention) \in Messages
    BY <1>1, <1>2, <1>4, CallSound, MessageIsTyped
    DEF AllInStep, Sound, ReachInStep, ThreadInStep
  <2> QED
    BY <1>2, <2>1 DEF Message
<1>8. /\ Len(msgs) \in Nat /\ DOMAIN msgs = 1 .. Len(msgs) /\ Len(msgs') = Len(msgs) + 1
      /\ DOMAIN msgs' = 1 .. Len(msgs')
      /\ \A i \in 1 .. Len(msgs) : msgs'[i] = msgs[i]
      /\ msgs'[Len(msgs) + 1] = m
  BY <1>7, LenProperties, AppendProperties DEF AllInStep, RealmInStep
<1>9. Grows
  BY <1>8 DEF Grows
<1>10. \A i \in DOMAIN msgs : msgs[i].ts <= m.ts
  <2> TAKE i \in DOMAIN msgs
  <2>1. msgs # <<>> /\ Len(msgs) \in DOMAIN msgs /\ i <= Len(msgs)
    BY <1>8
  <2> QED
    BY <1>7, <2>1 DEF WalksInStep, TimesAscend, Now
<1>11. TimesAscend'
  <2> SUFFICES ASSUME NEW i \in DOMAIN msgs', NEW j \in DOMAIN msgs', i <= j
               PROVE  msgs'[i].ts <= msgs'[j].ts
    BY DEF TimesAscend
  <2>1. CASE j \in DOMAIN msgs
    <3>1. i \in DOMAIN msgs /\ msgs'[i] = msgs[i] /\ msgs'[j] = msgs[j]
      BY <1>8, <2>1
    <3> QED
      BY <2>1, <3>1 DEF WalksInStep, TimesAscend
  <2>2. CASE j = Len(msgs) + 1 /\ i \in DOMAIN msgs
    BY <1>8, <1>10, <2>2
  <2>3. CASE j = Len(msgs) + 1 /\ i = Len(msgs) + 1
    <3>1. m.ts \in Nat
      BY DEF Messages
    <3> QED
      BY <1>8, <2>3, <3>1
  <2> QED
    BY <1>8, <2>1, <2>2, <2>3
<1>12. \A d \in Callers : \/ call'[d].op # "read"
                          \/ call'[d].patched
                          \/ \E r : WalkInStep(r) /\ SameWalk(r, call'[d])
  <2> TAKE d \in Callers
  <2>1. CASE d = c
    BY <1>5, <2>1
  <2>2. CASE d # c
    BY <1>6, <2>2
  <2> QED
    BY <2>1, <2>2
<1> QED
  BY <1>9, <1>11, <1>12, WalksKept

\* A rename is noted by every read, and keeps the times in order.
LEMMA PatchWalks ==
  ASSUME AllInStep, WalksInStep, NEW c \in Callers, Patch(c)
  PROVE  WalksInStep'
<1>1. PICK q : q = call[c]
  OBVIOUS
<1>2. q.at = "patch" /\ msgs' = Renamed(q.id, q.target)
  BY <1>1 DEF Patch, At
<1>3. PICK result \in {"ok", "failed"} :
        call' = [d \in Callers |->
                   IF d = c THEN Over(q, result)
                   ELSE [call[d] EXCEPT !.patched = @ \/ call[d].op \in {"post", "read"},
                                        !.disturbed = @ \/ call[d].op \in {"resolve", "read"}]]
  BY <1>1 DEF Patch
<1>4. q.op = "resolve" /\ q.target \in {"plain", "done"} /\ RealmInStep
  BY <1>1, <1>2, CallSound DEF AllInStep, OpInStep, ThreadInStep
<1>5. ASSUME NEW d \in Callers
      PROVE  WalkInStep(call[d])'
  <2>1. PICK s : s = call'[d]
    OBVIOUS
  <2>2. s.op = "read" => s.patched
    <3>1. CASE d = c
      <4>1. s = Over(q, result)
        BY <1>3, <2>1, <3>1
      <4> QED
        BY <1>4, <4>1 DEF Over, Idle
    <3>2. CASE d # c
      <4>1. PICK r : r = call[d]
        OBVIOUS
      <4>2. DOMAIN r = DOMAIN Idle
        BY <4>1, CallSound DEF AllInStep
      <4>3. s = [r EXCEPT !.patched = @ \/ r.op \in {"post", "read"},
                          !.disturbed = @ \/ r.op \in {"resolve", "read"}]
        BY <1>3, <2>1, <3>2, <4>1
      <4> QED
        BY <4>2, <4>3 DEF Idle
    <3> QED
      BY <3>1, <3>2
  <2>3. WalkInStep(s)'
    BY <2>2 DEF WalkInStep
  <2> QED
    BY <2>1, <2>3
<1>6. TimesAscend'
  <2> DEFINE old == msgs[q.id].topic
             all == [i \in DOMAIN msgs |->
                       IF msgs[i].topic = old THEN [msgs[i] EXCEPT !.topic = q.target] ELSE msgs[i]]
             m == Message(q.target, FALSE)
  <2>1. Len(msgs) \in Nat /\ DOMAIN msgs = 1 .. Len(msgs)
        /\ \A i \in DOMAIN msgs : msgs[i] \in Messages
    BY <1>4, RowsAreMessages, MessageTyped
  <2>2. \A i \in 1 .. Len(msgs) : all[i] \in Messages /\ all[i].ts = msgs[i].ts
    BY <1>4, <2>1 DEF Messages
  <2>3. all \in Seq(Messages) /\ Len(all) = Len(msgs) /\ DOMAIN all = 1 .. Len(msgs)
    BY <2>1, <2>2
  <2>4. m \in Messages /\ m.ts = Now
    BY <1>4, MessageIsTyped DEF Message
  <2>5. msgs' = all \/ msgs' = Append(all, m)
    BY <1>2 DEF Renamed
  <2>6. PICK a : a = all
    OBVIOUS
  <2>7. PICK n : n = m
    OBVIOUS
  <2> HIDE DEF all, m
  <2>8. \A i \in 1 .. Len(msgs) : msgs[i].ts <= n.ts
    <3> TAKE i \in 1 .. Len(msgs)
    <3>1. msgs # <<>> /\ Len(msgs) \in DOMAIN msgs /\ i \in DOMAIN msgs /\ i <= Len(msgs)
      BY <2>1
    <3> QED
      BY <2>4, <2>7, <3>1 DEF WalksInStep, TimesAscend, Now
  <2>9. \A i, j \in 1 .. Len(msgs) : i <= j => a[i].ts <= a[j].ts
    BY <2>1, <2>2, <2>6 DEF WalksInStep, TimesAscend
  <2>10. CASE msgs' = a
    BY <2>3, <2>6, <2>9, <2>10 DEF TimesAscend
  <2>11. CASE msgs' = Append(a, n)
    <3>1. /\ Len(msgs') = Len(msgs) + 1 /\ DOMAIN msgs' = 1 .. Len(msgs) + 1
          /\ \A i \in 1 .. Len(msgs) : msgs'[i] = a[i]
          /\ msgs'[Len(msgs) + 1] = n
      BY <2>3, <2>4, <2>6, <2>7, <2>11, LenProperties, AppendProperties
    <3> SUFFICES ASSUME NEW i \in DOMAIN msgs', NEW j \in DOMAIN msgs', i <= j
                 PROVE  msgs'[i].ts <= msgs'[j].ts
      BY DEF TimesAscend
    <3>2. CASE j \in 1 .. Len(msgs)
      <4>1. i \in 1 .. Len(msgs)
        BY <2>1, <3>1, <3>2
      <4> QED
        BY <2>9, <3>1, <3>2, <4>1
    <3>3. CASE j = Len(msgs) + 1 /\ i \in 1 .. Len(msgs)
      BY <2>2, <2>6, <2>8, <3>1, <3>3
    <3>4. CASE j = Len(msgs) + 1 /\ i = Len(msgs) + 1
      <4>1. n.ts \in Nat
        BY <2>4, <2>7 DEF Messages
      <4> QED
        BY <3>1, <3>4, <4>1
    <3> QED
      BY <2>1, <3>1, <3>2, <3>3, <3>4
  <2> QED
    BY <2>5, <2>6, <2>7, <2>10, <2>11
<1> QED
  BY <1>5, <1>6 DEF WalksInStep

\* What is noted of a call that is not about its walk.
LEMMA NotesKeepWalks ==
  ASSUME AllInStep, WalksInStep, UNCHANGED msgs,
         \A d \in Callers : call'[d].op # "read" \/ SameWalk(call[d], call'[d])
  PROVE  WalksInStep'
<1>1. \A d \in Callers : WalkInStep(call[d])
  BY DEF WalksInStep
<1>2. \A d \in Callers : call'[d].op # "read" \/ \E r : WalkInStep(r) /\ SameWalk(r, call'[d])
  BY <1>1
<1>3. TimesAscend'
  BY DEF WalksInStep, TimesAscend
<1> QED
  BY <1>2, <1>3, RealmGrows, WalksKept DEF AllInStep

\* A description that is set notes itself on other descriptions alone.
LEMMA SetChannelDescriptionWalks ==
  ASSUME AllInStep, WalksInStep, NEW c \in Callers, SetChannelDescription(c)
  PROVE  WalksInStep'
<1>1. PICK result \in {"ok", "failed"} :
        call' = [d \in Callers |->
                   IF d = c THEN Over(call[d], result)
                   ELSE [call[d] EXCEPT !.disturbed = @ \/ call[d].op = "describe"]]
  BY DEF SetChannelDescription
<1>2. UNCHANGED msgs /\ call[c].op = "describe"
  BY CallSound DEF SetChannelDescription, At, AllInStep, OpInStep
<1>3. ASSUME NEW d \in Callers
      PROVE  call'[d].op # "read" \/ SameWalk(call[d], call'[d])
  <2>1. PICK r : r = call[d]
    OBVIOUS
  <2>2. PICK s : s = call'[d]
    OBVIOUS
  <2>3. CASE d = c
    <3>1. s = Over(r, result) /\ r.op = "describe"
      BY <1>1, <1>2, <2>1, <2>2, <2>3
    <3>2. s.op = "describe"
      BY <3>1 DEF Over, Idle
    <3> QED
      BY <2>2, <3>2
  <2>4. CASE d # c
    <3>1. DOMAIN r = DOMAIN Idle
      BY <2>1, CallSound DEF AllInStep
    <3>2. s = [r EXCEPT !.disturbed = @ \/ r.op = "describe"]
      BY <1>1, <2>1, <2>2, <2>4
    <3>3. SameWalk(r, s)
      BY <3>1, <3>2 DEF SameWalk, Idle
    <3> QED
      BY <2>1, <2>2, <3>3
  <2> QED
    BY <2>3, <2>4
<1> QED
  BY <1>2, <1>3, NotesKeepWalks

\* A member that comes or goes is noted on posts alone.
LEMMA MemberChangesWalks ==
  ASSUME AllInStep, WalksInStep, NEW status, MemberChanges(status)
  PROVE  WalksInStep'
<1>1. /\ UNCHANGED msgs
      /\ call' = [c \in Callers |->
                    [call[c] EXCEPT !.dead = @ \/ (call[c].mention /\ status # "active")]]
  BY DEF MemberChanges
<1>2. ASSUME NEW d \in Callers
      PROVE  SameWalk(call[d], call'[d])
  <2>1. PICK r : r = call[d]
    OBVIOUS
  <2>2. PICK s : s = call'[d]
    OBVIOUS
  <2>3. DOMAIN r = DOMAIN Idle
    BY <2>1, CallSound DEF AllInStep
  <2>4. s = [r EXCEPT !.dead = @ \/ (r.mention /\ status # "active")]
    BY <1>1, <2>1, <2>2
  <2>5. SameWalk(r, s)
    BY <2>3, <2>4 DEF SameWalk, Idle
  <2> QED
    BY <2>1, <2>2, <2>5
<1> QED
  BY <1>1, <1>2, NotesKeepWalks

\* Steps of the realm that touch neither messages nor calls keep the walks.
LEMMA QuietWalks ==
  ASSUME AllInStep, WalksInStep, UNCHANGED <<msgs, call>>
  PROVE  WalksInStep'
<1>1. \A d \in Callers : SameWalk(call[d], call'[d])
  BY DEF SameWalk
<1> QED
  BY <1>1, NotesKeepWalks

\* Every walk is in step at the start,
LEMMA InitWalks == Init => WalksInStep
<1> SUFFICES ASSUME Init
             PROVE  WalksInStep
  OBVIOUS
<1>1. TimesAscend
  BY PublishingAssumption DEF PublishingAssumption, Init, TimesAscend
<1>2. ASSUME NEW c \in Callers
      PROVE  WalkInStep(call[c])
  <2>1. call[c].op # "read"
    BY DEF Init, Idle
  <2> QED
    BY <2>1 DEF WalkInStep
<1> QED
  BY <1>1, <1>2 DEF WalksInStep

\* and stays in step, one case for each action.
LEMMA NextWalks == AllInStep /\ WalksInStep /\ [Next]_vars => WalksInStep'
<1> SUFFICES ASSUME AllInStep, WalksInStep, [Next]_vars
             PROVE  WalksInStep'
  OBVIOUS
<1>1. ASSUME NEW status \in Statuses, MemberChanges(status)
      PROVE  WalksInStep'
  BY <1>1, MemberChangesWalks
<1>2. CASE CreateChannel \/ Expire \/ ListKnownChannels \/ UNCHANGED vars
  <2>1. UNCHANGED <<msgs, call>>
    BY <1>2 DEF CreateChannel, Expire, ListKnownChannels, vars, realmVars
  <2> QED
    BY <2>1, QuietWalks
<1>3. ASSUME NEW c \in Callers, Begin(c)
      PROVE  WalksInStep'
  BY <1>3, BeginWalks
<1>4. ASSUME NEW c \in Callers, Fails(c) \/ SendLost(c)
      PROVE  WalksInStep'
  BY <1>4, EndsKeepsWalks DEF Fails, SendLost, NoAnswer, realmVars
<1>5. ASSUME NEW c \in Callers, NEW asked \in Asked, RateLimited(c, asked)
      PROVE  WalksInStep'
  BY <1>5, RateLimitedWalks
<1>6. ASSUME NEW c \in Callers, Answered(c)
      PROVE  WalksInStep'
  <2>1. CASE \/ RefuseOverlongBody(c) \/ ValidateOutboundMentions(c)
             \/ DeadMentionsAfterFreshRead(c) \/ RenderedMentionIds(c) \/ Cover(c)
             \/ LookupChannel(c) \/ RefreshKnownStreams(c)
             \/ AddressPlain(c) \/ AddressResolved(c) \/ StoredRead(c) \/ Rewrite(c)
             \/ FetchChannelDescription(c) \/ FindSource(c) \/ FindTarget(c)
    BY <2>1, WritesKeepWalks
  <2>2. CASE Send(c) \/ SendLost(c) \/ SetChannelDescription(c) \/ Patch(c)
    BY <1>4, <2>2, SendWalks, SetChannelDescriptionWalks, PatchWalks
  <2>3. CASE WalkPage(c) \/ RenderPage(c) \/ End(c)
    BY <2>3, WalkPageWalks, RenderPageWalks, EndWalks
  <2>4. CASE \/ ResolveDirectory(c) \/ FetchMessageRef(c) \/ CoverAuthor(c)
             \/ ShowMessage(c) \/ CoverMentioned(c)
    BY <2>4, MappingWalks
  <2> QED
    BY <1>6, <2>1, <2>2, <2>3, <2>4 DEF Answered
<1> QED
  BY <1>1, <1>2, <1>3, <1>4, <1>5, <1>6 DEF Next, Realm, Step

-----------------------------------------------------------------------------
(* Theorems *)

\* A thread is split over its plain and its resolved topic only when a rename
\* landed between a post's probes and its send: probing the plain topic, then
\* the resolved one, is enough otherwise (addressThread).
THEOREM ForksAreRaces == Spec => []ForkNeedsRace
<1>1. AllInStep => ForkNeedsRace
  BY DEF AllInStep
<1> QED
  BY <1>1, CallsStayInStep, PTL

\* No post is stored twice, whatever is lost or asked to wait, and one that is
\* reported as made is stored (sendWithRetry).
THEOREM PostsAreStoredOnce == Spec => []StoredOnce
<1>1. AllInStep => StoredOnce
  BY DEF AllInStep, CallsInStep, InStep, Sound, SendInStep, StoredOnce, Done, At
<1> QED
  BY <1>1, CallsStayInStep, PTL

\* A write is refused for a mention, or for its channel, only if the member was
\* out of reach, or the channel missing, at some moment of the call, whatever
\* the caches held (validateOutboundMentions, lookupChannel).
THEOREM RefusalsAreFresh == Spec => []RefusalIsFresh
<1>1. AllInStep => RefusalIsFresh
  BY DEF AllInStep, CallsInStep, InStep, Sound, ReachInStep, RefusalIsFresh, At
<1> QED
  BY <1>1, CallsStayInStep, PTL

\* A resolution that succeeds, and that no other call's write overtakes, leaves
\* the whole thread in the wanted form, forked as it may have been (moveThread).
THEOREM ResolutionsMend == Spec => []ResolveMendsTheThread
<1>1. AllInStep => ResolveMendsTheThread
  BY DEF AllInStep, CallsInStep, InStep, Sound, ThreadInStep, ResolveMendsTheThread, Done, At
<1> QED
  BY <1>1, CallsStayInStep, PTL

\* A read that no rename overtook is in order, holds each message once, and
\* leaves out no message of its window that was there when it began but those
\* older than its cap or its page budget let it reach, over any number of pages
\* and whatever is posted between two of them (readWindow).
THEOREM WalksLeaveNoHole == Spec => []WalkLeavesNoHole
<1>1. ASSUME AllInStep, WalksInStep
      PROVE  WalkLeavesNoHole
  <2> SUFFICES ASSUME NEW c \in Callers, NEW r, r = call[c], Done(c, "read", "ok"), ~r.patched
               PROVE  /\ r.got = Ascending(Range(r.got))
                      /\ \A i \in Range(r.got) : i \in Ids(r.form) /\ InWindow(r, i)
                      /\ \A i \in Ids(r.form) \ Range(r.got) : LeftOut(r, i)
    BY DEF WalkLeavesNoHole, LeftOut
  <2>1. WalkInStep(r) /\ ReadInStep(r) /\ r.op = "read" /\ r.at = "end" /\ r.result = "ok"
    BY <1>1, CallSound DEF WalksInStep, AllInStep, Sound, Done, At
  <2>2. r.got \in Seq(Nat) /\ Increasing(r.got)
    <3>1. DOMAIN msgs \subseteq Nat
      BY <1>1, RowsAreMessages DEF AllInStep
    <3> QED
      BY <2>1, <3>1 DEF ReadInStep, WalkInStep
  <2>3. r.got = Ascending(Range(r.got))
    BY <2>2, IncreasingIsAscending
  <2> QED
    BY <2>1, <2>3 DEF WalkInStep
<1>2. AllInStep /\ WalksInStep /\ [Next]_vars => AllInStep' /\ WalksInStep'
  BY NextInStep, NextWalks
<1>3. Init => AllInStep /\ WalksInStep
  BY InitInStep, InitWalks
<1> QED
  BY <1>1, <1>2, <1>3, PTL DEF Spec

\* A read that no write overtakes names the mentions of every message it
\* returns, over any number of pages, and a mapped event those of its message,
\* whatever the cached list has lost (renderedContentForBatch, mentionsOfMessage,
\* cover).
THEOREM MentionsReachTheReader == Spec => []MentionsAreTold
<1>1. AllInStep => MentionsAreTold
  <2> SUFFICES ASSUME AllInStep, NEW c \in Callers, NEW r, r = call[c],
                      \/ r.at = "end" /\ r.op = "read" /\ r.result = "ok" /\ ~r.disturbed
                      \/ r.at = "end" /\ r.op = "map" /\ r.result = "ok" /\ r.form = "message",
                      NEW i \in Range(r.got)
               PROVE  msgs[i].mention <=> i \in r.told
    BY DEF MentionsAreTold, Done, At
  <2>1. ReadInStep(r) /\ MapInStep(r)
    BY DEF AllInStep, CallsInStep, InStep, Sound
  <2> QED
    BY <2>1 DEF ReadInStep, MapInStep
<1> QED
  BY <1>1, CallsStayInStep, PTL

\* A request that is asked to wait waits within its budget, and is sent again
\* only as often as the budget holds the least wait (rateLimitSchedule).
THEOREM RetriesEnd == Spec => []RetriesAreBounded
<1>1. AllInStep => RetriesAreBounded
  <2> SUFFICES ASSUME AllInStep, NEW c \in Callers
               PROVE  /\ call[c].waited <= Budget
                      /\ call[c].tries * MinWait < Budget + MinWait
    BY DEF RetriesAreBounded
  <2>1. WaitInStep(call[c])
    BY DEF AllInStep, CallsInStep, InStep
  <2>2. Budget \in Nat /\ MinWait \in Nat \ {0}
    BY PublishingAssumption DEF PublishingAssumption
  <2> DEFINE least == call[c].tries * MinWait
             waited == call[c].waited
  <2>3. least \in Nat /\ waited \in 0 .. Budget
        /\ (least <= waited \/ least < Budget + MinWait)
    BY <2>1, <2>2 DEF WaitInStep
  <2> HIDE DEF least, waited
  <2>4. waited <= Budget /\ least < Budget + MinWait
    BY <2>2, <2>3
  <2> QED
    BY <2>4 DEF least, waited
<1> QED
  BY <1>1, CallsStayInStep, PTL
=============================================================================
