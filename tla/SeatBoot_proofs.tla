--------------------------- MODULE SeatBoot_proofs ---------------------------
(***************************************************************************)
(* Proofs about SeatBoot, for any set of tool calls, with and without      *)
(* COMMY_SUBSCRIBE, and for any queue state left behind: the backlog is    *)
(* told once, and whoever waits while a seat starts waits for something    *)
(* that is under way.                                                      *)
(***************************************************************************)
EXTENDS SeatBoot, TLAPS

Places == Binding \cup {"asking", "subscribing", "persist"}

\* Where the rebuild's own caller is while the rebuild runs.
OnItsWay == {"bind", "await", "acquire", "seeding", "verdict", "reading", "asking"}

\* One caller acquires while the session's EnsureBound is pending, and the
\* others that want to be bound wait for that one.
OneAcquires ==
  /\ (\E c \in Callers : at[c] = "acquire") <=> ensure = "pending"
  /\ \A c, d \in Callers : at[c] = "acquire" /\ at[d] = "acquire" => c = d
  /\ \A c \in Callers : at[c] = "await" => ensure = "pending"

\* The rebuild is as far as its caller, and the boot fiber as far as its bind.
RebuildInStep ==
  /\ rebuild = "running" <=> at["rebuild"] \in OnItsWay
  /\ rebuild = "parked" => at["rebuild"] = "free"
  /\ boot = "reporting" => at["boot"] = "free"
  /\ \A c \in Callers : at[c] # "free" => session = "known"

\* Without a verdict the timer of a resuming stream is running, or the stream
\* has yet to start; the boot fiber binds without one only where a stream will
\* have something to resume.
VerdictIsComing ==
  /\ at["boot"] # "free" /\ stored = "none" => verdict # "pending"
  /\ stream # "off" => boot = "serving"
  /\ verdict = "pending" => stream \in {"off", "resuming"}

Started ==
  /\ TypeOK /\ at \in [Callers -> Places]
  /\ BacklogOnce /\ OneAcquires /\ RebuildInStep /\ VerdictIsComing

LEMMA CallersKnown ==
  /\ "boot" \in Callers /\ "rebuild" \in Callers /\ Calls \subseteq Callers
  /\ \A c \in Calls : c # "boot" /\ c # "rebuild"
  /\ \A c \in Callers : c \in Calls \/ c = "boot" \/ c = "rebuild"
  BY SeatBootAssumption DEF Callers

LEMMA StartedInit == Init => Started
  BY CallersKnown, SeatBootAssumption
     DEF Init, Started, TypeOK, Binding, Places, OnItsWay, BacklogOnce, OneAcquires,
         RebuildInStep, VerdictIsComing

-----------------------------------------------------------------------------
(* Steps of the boot fiber and of the producer *)

LEMMA Unmoved ==
  ASSUME Started, UNCHANGED <<at, ensure, rebuild, session>>,
         boot' = boot \/ boot' # "reporting", TypeOK', BacklogOnce', VerdictIsComing'
  PROVE  Started'
  BY DEF Started, OneAcquires, RebuildInStep

\* A register that is persisted leaves a state behind, and never removes one.
LEMMA Registering ==
  ASSUME Started, Registers \/ UNCHANGED <<queue, stored>>
  PROVE  /\ queue' \in {"none", "live"} /\ stored' \in {"none", "alive", "dead", "own"}
         /\ stored' = "none" => stored = "none"
  BY DEF Registers, Started, TypeOK

LEMMA BootStarted ==
  ASSUME Started, Boot
  PROVE  Started'
<1>1. CASE BootReports
  BY <1>1, CallersKnown
     DEF BootReports, Settle, seat, Started, TypeOK, Binding, Places, OnItsWay, BacklogOnce,
         OneAcquires, RebuildInStep, VerdictIsComing
<1>2. CASE BootGoesOn
  BY <1>2, Unmoved DEF BootGoesOn, seat, Started, TypeOK, BacklogOnce, VerdictIsComing
<1>3. CASE Connect
  BY <1>3, Unmoved DEF Connect, seat, Started, TypeOK, BacklogOnce, VerdictIsComing
<1>4. CASE Serve
  BY <1>4, Unmoved DEF Serve, seat, Started, TypeOK, BacklogOnce, VerdictIsComing
<1> QED
  BY <1>1, <1>2, <1>3, <1>4 DEF Boot

LEMMA StreamStarted ==
  ASSUME Started, StreamStarts \/ Poll \/ VerdictFallback \/ QueueDies
  PROVE  Started'
<1>1. CASE StreamStarts
  BY <1>1, Unmoved DEF StreamStarts, Settle, seat, Started, TypeOK, BacklogOnce, VerdictIsComing
<1>2. CASE PollAnswered
  <2>1. verdict' = "missed" \/ caughtUp' = "no"
    BY <1>2 DEF PollAnswered, Settle, Started, BacklogOnce, TypeOK
  <2> QED
    BY <1>2, <2>1, Unmoved
       DEF PollAnswered, Settle, Started, TypeOK, BacklogOnce, VerdictIsComing
<1>3. CASE PollRefused
  BY <1>3, Unmoved DEF PollRefused, Settle, seat, Started, TypeOK, BacklogOnce, VerdictIsComing
<1>4. CASE StreamRegisters
  BY <1>4, Unmoved, Registering DEF StreamRegisters, Started, TypeOK, BacklogOnce, VerdictIsComing
<1>5. CASE VerdictFallback
  BY <1>5, Unmoved DEF VerdictFallback, seat, Started, TypeOK, BacklogOnce, VerdictIsComing
<1>6. CASE QueueDies
  BY <1>6, Unmoved
     DEF QueueDies, seat, Started, TypeOK, BacklogOnce, VerdictIsComing, RebuildInStep
<1> QED
  BY <1>1, <1>2, <1>3, <1>4, <1>5, <1>6 DEF Poll

-----------------------------------------------------------------------------
(* Steps of a caller, and of the rebuild *)

LEMMA StartCallStarted ==
  ASSUME Started, NEW c \in Calls, StartCall(c)
  PROVE  Started'
  BY CallersKnown
     DEF StartCall, At, Goes, seat, Started, TypeOK, Binding, Places, OnItsWay, BacklogOnce,
         OneAcquires, RebuildInStep, VerdictIsComing

\* Where a caller goes when it is through the seam is a place of its own, and
\* none where anybody acquires or waits.
LEMMA ContinuationType ==
  ASSUME NEW c \in Callers, NEW n \in Continuation(c)
  PROVE  /\ n \in Places \ {"free", "bind", "await", "acquire"}
         /\ c = "boot" => n = "over"
         /\ c = "rebuild" => n = "asking"
         /\ c \in Calls => n \in {"over", "subscribing"}
  BY CallersKnown DEF Continuation, Places, Binding

\* One caller goes on, and neither acquires nor waits before or after.
PassesOn(c, from, to) ==
  /\ at[c] = from /\ at' = [at EXCEPT ![c] = to]
  /\ from \notin {"free", "acquire", "await", "over"}
  /\ to \in Places \ {"free", "acquire", "await"}

LEMMA PassingOn ==
  ASSUME Started, NEW c \in Callers, NEW from, NEW to, PassesOn(c, from, to),
         UNCHANGED <<ensure, rebuild, session, boot, stream, verdict>>,
         c = "boot" => to \in Binding,
         c = "rebuild" => to \in OnItsWay,
         c \in Calls => to \in Binding \cup {"subscribing", "persist"},
         queue' \in {"none", "live"}, narrows' = narrows,
         stored' \in {"none", "alive", "dead", "own"}, stored' = "none" => stored = "none",
         record' = record, caughtUp' \in {"no", "bare", "restored"},
         caughtUp' # caughtUp => verdict = "missed"
  PROVE  Started'
<1>1. at' \in [Callers -> Places] /\ \A d \in Callers : at'[d] = IF d = c THEN to ELSE at[d]
  BY DEF PassesOn, Started
<1>2. TypeOK'
  BY <1>1, CallersKnown DEF Started, TypeOK, OnItsWay, Binding
<1>3. BacklogOnce' /\ VerdictIsComing'
  BY <1>1, CallersKnown DEF Started, BacklogOnce, VerdictIsComing, PassesOn
<1>4. OneAcquires'
  BY <1>1 DEF Started, OneAcquires, PassesOn
<1>5. RebuildInStep'
  BY <1>1, CallersKnown DEF Started, RebuildInStep, PassesOn, OnItsWay, TypeOK, Binding
<1> QED
  BY <1>1, <1>2, <1>3, <1>4, <1>5 DEF Started

LEMMA BindStarted ==
  ASSUME Started, NEW c \in Callers, Bind(c)
  PROVE  Started'
<1>1. CASE ensure = "acquired"
  <2>1. PICK n \in Continuation(c) : at' = [at EXCEPT ![c] = n]
    BY <1>1 DEF Bind, Goes
  <2>2. PassesOn(c, "bind", n)
    BY <2>1, ContinuationType DEF PassesOn, Bind, At
  <2> QED
    BY <1>1, <2>1, <2>2, PassingOn, ContinuationType
       DEF Bind, Started, TypeOK, OnItsWay, Binding
<1>2. CASE ensure = "pending"
  <2>1. at' = [at EXCEPT ![c] = "await"] /\ ensure' = ensure
    BY <1>2 DEF Bind, Goes
  <2> QED
    BY <1>2, <2>1, CallersKnown
       DEF Bind, At, Started, TypeOK, Binding, Places, OnItsWay, BacklogOnce,
           OneAcquires, RebuildInStep, VerdictIsComing
<1>3. CASE ensure = "idle"
  <2>1. at' = [at EXCEPT ![c] = "acquire"] /\ ensure' = "pending"
    BY <1>3 DEF Bind, Goes
  <2> QED
    BY <1>3, <2>1, CallersKnown
       DEF Bind, At, Started, TypeOK, Binding, Places, OnItsWay, BacklogOnce,
           OneAcquires, RebuildInStep, VerdictIsComing
<1> QED
  BY <1>1, <1>2, <1>3 DEF Started, TypeOK

LEMMA AcquireStarted ==
  ASSUME Started, NEW c \in Callers, AcquireSucceeds(c) \/ AcquireFails(c)
  PROVE  Started'
<1>1. /\ at[c] = "acquire" /\ \A d \in Callers : at[d] = "acquire" => d = c
      /\ UNCHANGED <<boot, session, stored, record, verdict, stream, queue, narrows, caughtUp>>
  BY DEF AcquireSucceeds, AcquireFails, At, Started, OneAcquires
<1>2. CASE AcquireSucceeds(c)
  <2>1. /\ \A d \in Callers : at'[d] = IF d = c THEN "seeding"
                                       ELSE IF at[d] = "await" THEN "bind" ELSE at[d]
        /\ DOMAIN at' = Callers /\ ensure' = "acquired" /\ rebuild' = rebuild
        /\ at' \in [Callers -> Places]
    BY <1>2 DEF AcquireSucceeds, At, Places, Binding, Started
  <2> QED
    BY <1>1, <2>1, CallersKnown
       DEF Started, TypeOK, Binding, Places, OnItsWay, BacklogOnce, OneAcquires,
           RebuildInStep, VerdictIsComing
<1>3. CASE AcquireFails(c)
  <2>1. /\ \A d \in Callers : at'[d] = IF d = c \/ at[d] = "await" THEN "over" ELSE at[d]
        /\ DOMAIN at' = Callers /\ ensure' = "idle" /\ at' \in [Callers -> Places]
        /\ rebuild' = IF c = "rebuild" \/ at["rebuild"] = "await" THEN "done" ELSE rebuild
    BY <1>3, CallersKnown DEF AcquireFails, At, Places, Binding, Started
  <2> QED
    BY <1>1, <2>1, CallersKnown
       DEF Started, TypeOK, Binding, Places, OnItsWay, BacklogOnce, OneAcquires,
           RebuildInStep, VerdictIsComing
<1> QED
  BY <1>2, <1>3

LEMMA HookStarted ==
  ASSUME Started, NEW c \in Callers, Seed(c) \/ AwaitVerdict(c) \/ CatchUpEnds(c)
  PROVE  Started'
<1> USE ContinuationType
<1>1. CASE Seed(c)
  <2>1. PassesOn(c, "seeding", "verdict")
    BY <1>1 DEF Seed, At, Goes, PassesOn, Places, Binding
  <2> QED
    BY <1>1, <2>1, PassingOn, Registering DEF Seed, Binding, OnItsWay, Started, TypeOK
<1>2. CASE AwaitVerdict(c) /\ verdict = "replayed"
  <2>1. PICK n \in Continuation(c) : at' = [at EXCEPT ![c] = n]
    BY <1>2 DEF AwaitVerdict, Goes
  <2>2. PassesOn(c, "verdict", n)
    BY <1>2, <2>1 DEF PassesOn, AwaitVerdict, At
  <2> QED
    BY <1>2, <2>1, <2>2, PassingOn DEF AwaitVerdict, seat, Started, TypeOK, OnItsWay, Binding
<1>3. CASE AwaitVerdict(c) /\ verdict # "replayed"
  <2>1. PassesOn(c, "verdict", "reading") /\ caughtUp' = narrows /\ verdict = "missed"
    BY <1>3 DEF AwaitVerdict, At, Goes, PassesOn, Places, Binding, Started, TypeOK
  <2> QED
    BY <1>3, <2>1, PassingOn DEF AwaitVerdict, seat, Started, TypeOK, OnItsWay, Binding
<1>4. CASE CatchUpEnds(c)
  <2>1. PICK n \in Continuation(c) : at' = [at EXCEPT ![c] = n]
    BY <1>4 DEF CatchUpEnds, Goes
  <2>2. PassesOn(c, "reading", n)
    BY <1>4, <2>1 DEF PassesOn, CatchUpEnds, At
  <2> QED
    BY <1>4, <2>1, <2>2, PassingOn DEF CatchUpEnds, seat, Started, TypeOK, OnItsWay, Binding
<1> QED
  BY <1>1, <1>2, <1>3, <1>4

\* Only a tool call comes to subscribe.
LEMMA SubscribeStarted ==
  ASSUME Started, NEW c \in Callers, Subscribe(c) \/ Persist(c)
  PROVE  Started'
<1>1. c \in Calls
  BY CallersKnown DEF Subscribe, Persist, At, Started, TypeOK, Binding
<1>2. CASE Subscribe(c)
  <2>1. PICK to \in {"persist", "over"} : at' = [at EXCEPT ![c] = to]
    BY <1>2 DEF Subscribe, Goes
  <2>2. PassesOn(c, "subscribing", to)
    BY <1>2, <2>1 DEF PassesOn, Subscribe, At, Places, Binding
  <2> QED
    BY <1>1, <1>2, <2>1, <2>2, CallersKnown, PassingOn, Registering
       DEF Subscribe, Started, TypeOK, OnItsWay, Binding
<1>3. CASE Persist(c)
  <2>1. PassesOn(c, "persist", "over")
    BY <1>3 DEF PassesOn, Persist, At, Goes, Places, Binding
  <2> QED
    BY <1>1, <1>3, <2>1, CallersKnown, PassingOn
       DEF Persist, seat, Started, TypeOK, OnItsWay, Binding
<1> QED
  BY <1>2, <1>3

LEMMA RebuildStarted ==
  ASSUME Started, Rebuild
  PROVE  Started'
<1>1. CASE RebuildWakes /\ rebuild' = "done"
  BY <1>1, CallersKnown
     DEF RebuildWakes, Goes, seat, Started, TypeOK, Binding, Places, OnItsWay, BacklogOnce,
         OneAcquires, RebuildInStep, VerdictIsComing
<1>2. CASE RebuildWakes /\ rebuild' # "done"
  <2>1. at["rebuild"] = "free" /\ at' = [at EXCEPT !["rebuild"] = "bind"] /\ rebuild' = "running"
    BY <1>2 DEF RebuildWakes, Goes, Started, RebuildInStep
  <2> QED
    BY <1>2, <2>1, CallersKnown
       DEF RebuildWakes, seat, Started, TypeOK, Binding, Places, OnItsWay, BacklogOnce,
           OneAcquires, RebuildInStep, VerdictIsComing
<1>3. CASE RebuildEnds
  BY <1>3, CallersKnown, Registering
     DEF RebuildEnds, At, Goes, Started, TypeOK, Binding, Places, OnItsWay, BacklogOnce,
         OneAcquires, RebuildInStep, VerdictIsComing
<1> QED
  BY <1>1, <1>2, <1>3 DEF Rebuild

LEMMA StartedNext ==
  ASSUME Started, [Next]_vars
  PROVE  Started'
<1>1. CASE \E c \in Callers : Advance(c)
  BY <1>1, BindStarted, AcquireStarted, HookStarted, SubscribeStarted DEF Advance
<1>2. CASE UNCHANGED vars
  BY <1>2
     DEF vars, seat, Started, TypeOK, BacklogOnce, OneAcquires, RebuildInStep, VerdictIsComing
<1> QED
  BY <1>1, <1>2, BootStarted, StreamStarted, StartCallStarted, RebuildStarted DEF Next

-----------------------------------------------------------------------------
(* The theorems *)

LEMMA AlwaysStarted == Spec => []Started
  BY StartedInit, StartedNext, PTL DEF Spec

\* Each caller is only ever where its own code can be, whoever of the boot
\* fiber, the rebuild and the tool calls binds first (server.ts).
THEOREM SeatBootTypeCorrect == Spec => []TypeOK
  BY AlwaysStarted, PTL DEF Started

\* The hook of a seat reads history only after the producer, or its timer, has
\* said "missed", and no later answer of the realm turns that round: what was
\* missed is not told natively and from history both (awaitResumeVerdict and
\* the Deferred of server.ts).
THEOREM BacklogIsToldOnce == Spec => []BacklogOnce
  BY AlwaysStarted, PTL DEF Started

\* Whom a caller waits for in a starting seat is there: behind a waiting bind
\* another caller's acquire is under way; behind a hook without a verdict the
\* stream has yet to start or its timer runs; behind a subscribe that cannot
\* persist yet the rebuild is on its way or free to wake.
WaitIsForSomething ==
  \A c \in Callers :
    /\ at[c] = "await" => \E d \in Callers \ {c} : at[d] = "acquire"
    /\ at[c] = "verdict" /\ verdict = "pending" =>
         \/ stream = "resuming"
         \/ stream = "off" /\ (c = "boot" => stored # "none")
    /\ at[c] = "persist" /\ rebuild # "done" =>
         \/ at["rebuild"] \in OnItsWay
         \/ rebuild = "parked" /\ session = "known"

\* The boot fiber, the producer, the rebuild and the tool calls do not wait for
\* one another in a circle (server.ts: ensureBound, the post-acquire hook, the
\* gate before persist), but for the boot fiber that binds with a queue to
\* resume, whose stream only starts when boot is over.
THEOREM NobodyWaitsForNothing == Spec => []WaitIsForSomething
<1>1. Started => WaitIsForSomething
  BY CallersKnown
     DEF Started, WaitIsForSomething, TypeOK, OneAcquires, RebuildInStep, VerdictIsComing
<1> QED
  BY <1>1, AlwaysStarted, PTL
=============================================================================
