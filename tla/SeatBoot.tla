------------------------------- MODULE SeatBoot -------------------------------
(***************************************************************************)
(* How an ephemeral seat starts (mcp/server.ts), and who waits for whom    *)
(* while it does: the boot fiber, the events producer, the rebuild of the  *)
(* narrow set and the first tool calls.                                    *)
(*                                                                         *)
(* Whoever binds first runs the post-acquire hook, and the hook waits for  *)
(* the resume verdict, which the producer gives.  The producer is started  *)
(* by the end of boot and idles until the seat is bound; a subscribe waits *)
(* for the rebuild before it persists, and the rebuild binds.              *)
(*                                                                         *)
(* The binding itself is IdentityBinding, the producer EventProducer, the  *)
(* rebuild Subscriptions: here they are one conversation's, seen from      *)
(* outside.                                                                *)
(***************************************************************************)
EXTENDS Integers

CONSTANTS
  Calls,          \* tool calls of this conversation, each made once
  BootSubscribe,  \* COMMY_SUBSCRIBE is set
  Stored          \* queue states the previous process may have left: a subset
                  \* of {"none", "alive", "dead"}

ASSUME SeatBootAssumption ==
  /\ BootSubscribe \in BOOLEAN
  /\ Stored \subseteq {"none", "alive", "dead"}
  /\ "boot" \notin Calls /\ "rebuild" \notin Calls

Callers == Calls \cup {"boot", "rebuild"}

VARIABLES
  boot,      \* "reporting", "binding", "connecting", "announced", "serving"
  session,   \* the shared session id: "awaited" or "known"
  stored,    \* the persisted queue state: "none", one of the previous process
             \* whose queue is "alive" or "dead", or the "own" queue's
  record,    \* the session had a topic record when boot began: "none", "some"
  verdict,   \* the ResumeOutcome
  stream,    \* the producer: "off", "fresh", "resuming", "expired", "live"
  queue,     \* the seat has a live queue: "none" or "live"
  ensure,    \* the session's EnsureBound: "idle", "pending", "acquired"
  rebuild,   \* "parked", "running", "done"
  narrows,   \* the narrow set: "bare", or "restored" from realm and record
  at,        \* where each caller stands
  caughtUp   \* history: "no", or what channels the catch-up skimmed

seat == <<ensure, queue>>
vars == <<boot, session, stored, record, verdict, stream, queue, ensure,
          rebuild, narrows, at, caughtUp>>

Init ==
  /\ boot = "reporting"
  /\ session \in {"awaited", "known"}
  /\ stored \in Stored
  /\ record \in {"none", "some"}
  /\ verdict = "pending" /\ stream = "off" /\ queue = "none"
  /\ ensure = "idle" /\ rebuild = "parked" /\ narrows = "bare"
  /\ at = [c \in Callers |-> "free"]
  /\ caughtUp = "no"

\* The first completion of the Deferred counts.
Settle(v) == IF verdict = "pending" THEN v ELSE verdict

\* The seat has a live queue from here on.  A register is persisted, unless a
\* state nobody has tried to resume yet would be lost by it.
Registers ==
  /\ queue' = "live"
  /\ stored' = IF queue = "live" \/ session = "awaited" \/ (verdict = "pending" /\ stored # "none")
                 THEN stored ELSE "own"

-----------------------------------------------------------------------------
(* The boot fiber *)

\* Mistaken variant: only the producer reports.
BootReports_Nothing ==
  /\ boot = "reporting"
  /\ IF BootSubscribe /\ session = "known"
       THEN boot' = "binding" /\ at' = [at EXCEPT !["boot"] = "bind"]
       ELSE boot' = "connecting" /\ UNCHANGED at
  /\ UNCHANGED <<session, stored, record, verdict, stream, seat, rebuild, narrows, caughtUp>>

\* reportNothingToResume, then the bind COMMY_SUBSCRIBE calls for; without a
\* session id it is refused at once.
BootReports ==
  /\ boot = "reporting"
  /\ verdict' = IF session = "known" /\ stored = "none" THEN Settle("missed") ELSE verdict
  /\ IF BootSubscribe /\ session = "known"
       THEN boot' = "binding" /\ at' = [at EXCEPT !["boot"] = "bind"]
       ELSE boot' = "connecting" /\ UNCHANGED at
  /\ UNCHANGED <<session, stored, record, stream, seat, rebuild, narrows, caughtUp>>

\* The boot fiber goes on when its bind is over, hook and all.
BootGoesOn ==
  /\ boot = "binding" /\ at["boot"] = "over"
  /\ boot' = "connecting"
  /\ UNCHANGED <<session, stored, record, verdict, stream, seat, rebuild, narrows, at, caughtUp>>

\* mcp.connect announces the tools; then serve starts the pump and the rebuild.
Connect ==
  /\ boot = "connecting" /\ boot' = "announced"
  /\ UNCHANGED <<session, stored, record, verdict, stream, seat, rebuild, narrows, at, caughtUp>>

Serve ==
  /\ boot = "announced" /\ boot' = "serving"
  /\ UNCHANGED <<session, stored, record, verdict, stream, seat, rebuild, narrows, at, caughtUp>>

-----------------------------------------------------------------------------
(* The producer *)

\* events(): resumeQueue is asked once; nothing to resume is reported now.
StreamStarts ==
  /\ boot = "serving" /\ stream = "off"
  /\ stream' = IF session = "known" /\ stored # "none" THEN "resuming" ELSE "fresh"
  /\ verdict' = IF stream' = "fresh" THEN Settle("missed") ELSE verdict
  /\ UNCHANGED <<boot, session, stored, record, seat, rebuild, narrows, at, caughtUp>>

\* An unbound seat has no credential to poll with.
PollAnswered ==
  /\ stream = "resuming" /\ ensure = "acquired" /\ stored \in {"alive", "own"}
  /\ stream' = "live" /\ queue' = "live"
  /\ verdict' = Settle("replayed")
  /\ UNCHANGED <<boot, session, stored, record, ensure, rebuild, narrows, at, caughtUp>>

PollRefused ==
  /\ stream = "resuming" /\ ensure = "acquired" /\ stored = "dead"
  /\ stream' = "expired"
  /\ verdict' = Settle("missed")
  /\ UNCHANGED <<boot, session, stored, record, seat, rebuild, narrows, at, caughtUp>>

\* The producer registers a queue, or adopts the one the seat has registered.
StreamRegisters ==
  /\ stream \in {"fresh", "expired"} /\ ensure = "acquired"
  /\ stream' = "live" /\ Registers
  /\ UNCHANGED <<boot, session, record, verdict, ensure, rebuild, narrows, at, caughtUp>>

\* Mistaken variant: the timer runs only while the seat is bound and its queue
\* is there to answer.
VerdictFallback_WhenHealthy ==
  /\ stream = "resuming" /\ verdict = "pending" /\ stored = "alive" /\ ensure = "acquired"
  /\ verdict' = "missed"
  /\ UNCHANGED <<boot, session, stored, record, stream, seat, rebuild, narrows, at, caughtUp>>

\* The timer of a resuming stream: a poll that is starved settles nothing.
VerdictFallback ==
  /\ stream = "resuming" /\ verdict = "pending"
  /\ verdict' = "missed"
  /\ UNCHANGED <<boot, session, stored, record, stream, seat, rebuild, narrows, at, caughtUp>>

\* The realm drops the queue of the previous process.
QueueDies ==
  /\ stored = "alive" /\ stream \in {"off", "resuming"}
  /\ stored' = "dead"
  /\ UNCHANGED <<boot, session, record, verdict, stream, seat, rebuild, narrows, at, caughtUp>>

-----------------------------------------------------------------------------
(* Tool calls, and the bind seam all callers pass *)

At(c, where) == at[c] = where
Goes(c, where) == at' = [at EXCEPT ![c] = where]

\* A call carries the session id and feeds it.
StartCall(c) ==
  /\ c \in Calls /\ At(c, "free") /\ boot \in {"announced", "serving"}
  /\ session' = "known"
  /\ Goes(c, "bind")
  /\ UNCHANGED <<boot, stored, record, verdict, stream, seat, rebuild, narrows, caughtUp>>

\* What a caller does once it is bound: a call may be a write or a subscribe,
\* boot is done, the rebuild asks the realm.
Continuation(c) ==
  IF c \in Calls THEN {"over", "subscribing"}
  ELSE IF c = "boot" THEN {"over"} ELSE {"asking"}

Bind(c) ==
  /\ At(c, "bind")
  /\ CASE ensure = "acquired" -> (\E n \in Continuation(c) : Goes(c, n)) /\ UNCHANGED ensure
       [] ensure = "pending"  -> Goes(c, "await") /\ UNCHANGED ensure
       [] ensure = "idle"     -> Goes(c, "acquire") /\ ensure' = "pending"
  /\ UNCHANGED <<boot, session, stored, record, verdict, stream, queue, rebuild, narrows, caughtUp>>

\* The awaiting callers go on; the one that acquired runs the hook first.
AcquireSucceeds(c) ==
  /\ At(c, "acquire")
  /\ ensure' = "acquired"
  /\ at' = [d \in Callers |->
       IF d = c THEN "seeding" ELSE IF At(d, "await") THEN "bind" ELSE at[d]]
  /\ UNCHANGED <<boot, session, stored, record, verdict, stream, queue, rebuild, narrows, caughtUp>>

\* The waiting callers fail with the one that tried.  A rebuild that fails is
\* over; boot logs the failure and goes on.
AcquireFails(c) ==
  LET failed == {d \in Callers : d = c \/ At(d, "await")} IN
  /\ At(c, "acquire")
  /\ ensure' = "idle"
  /\ at' = [d \in Callers |-> IF d \in failed THEN "over" ELSE at[d]]
  /\ rebuild' = IF "rebuild" \in failed THEN "done" ELSE rebuild
  /\ UNCHANGED <<boot, session, stored, record, verdict, stream, queue, narrows, caughtUp>>

\* The hook: COMMY_SUBSCRIBE for a bot just minted, defaults for a session
\* without a record; either registers a queue, if it succeeds.
Seed(c) ==
  /\ At(c, "seeding")
  /\ \/ (BootSubscribe \/ record = "none") /\ Registers
     \/ UNCHANGED <<queue, stored>>
  /\ Goes(c, "verdict")
  /\ UNCHANGED <<boot, session, record, verdict, stream, ensure, rebuild, narrows, caughtUp>>

\* Mistaken variant: the hook does not wait.
AwaitVerdict_AtOnce(c) ==
  /\ At(c, "verdict")
  /\ IF verdict = "replayed"
       THEN (\E n \in Continuation(c) : Goes(c, n)) /\ UNCHANGED caughtUp
       ELSE Goes(c, "reading") /\ caughtUp' = narrows
  /\ UNCHANGED <<boot, session, stored, record, verdict, stream, seat, rebuild, narrows>>

\* The hook waits for the verdict; without a native replay it takes the
\* channels to skim from the narrow set and reads the history.
AwaitVerdict(c) ==
  /\ At(c, "verdict") /\ verdict # "pending"
  /\ IF verdict = "replayed"
       THEN (\E n \in Continuation(c) : Goes(c, n)) /\ UNCHANGED caughtUp
       ELSE Goes(c, "reading") /\ caughtUp' = narrows
  /\ UNCHANGED <<boot, session, stored, record, verdict, stream, seat, rebuild, narrows>>

\* The catch-up ends, or fails, which is logged.
CatchUpEnds(c) ==
  /\ At(c, "reading")
  /\ \E n \in Continuation(c) : Goes(c, n)
  /\ UNCHANGED <<boot, session, stored, record, verdict, stream, seat, rebuild, narrows, caughtUp>>

\* inbox.subscribe; a refusal ends the call.
Subscribe(c) ==
  /\ At(c, "subscribing")
  /\ \/ Registers /\ Goes(c, "persist")
     \/ UNCHANGED <<queue, stored>> /\ Goes(c, "over")
  /\ UNCHANGED <<boot, session, record, verdict, stream, ensure, rebuild, narrows, caughtUp>>

\* The record is not written before the rebuild is over.
Persist(c) ==
  /\ At(c, "persist") /\ rebuild = "done"
  /\ Goes(c, "over")
  /\ UNCHANGED <<boot, session, stored, record, verdict, stream, seat, rebuild, narrows, caughtUp>>

-----------------------------------------------------------------------------
(* The rebuild of the narrow set, forked by serve, parked on the session id *)

RebuildWakes ==
  /\ boot = "serving" /\ rebuild = "parked" /\ session = "known"
  /\ IF record = "none" /\ ensure # "acquired"
       THEN rebuild' = "done" /\ UNCHANGED at
       ELSE rebuild' = "running" /\ Goes("rebuild", "bind")
  /\ UNCHANGED <<boot, session, stored, record, verdict, stream, seat, narrows, caughtUp>>

\* The realm answers, the set is loaded and declared; or the realm fails, and
\* the rebuild ends with what there is.
RebuildEnds ==
  /\ At("rebuild", "asking")
  /\ rebuild' = "done"
  /\ Goes("rebuild", "over")
  /\ \/ narrows' = "restored" /\ Registers
     \/ narrows' \in {narrows, "restored"} /\ UNCHANGED <<queue, stored>>
  /\ UNCHANGED <<boot, session, record, verdict, stream, ensure, caughtUp>>

-----------------------------------------------------------------------------
Boot == BootReports \/ BootGoesOn \/ Connect \/ Serve
Advance(c) ==
  \/ Bind(c) \/ AcquireSucceeds(c) \/ AcquireFails(c)
  \/ Seed(c) \/ AwaitVerdict(c) \/ CatchUpEnds(c)
  \/ Subscribe(c) \/ Persist(c)
Rebuild == RebuildWakes \/ RebuildEnds
Poll == PollAnswered \/ PollRefused \/ StreamRegisters

Next ==
  \/ Boot \/ StreamStarts \/ Poll \/ VerdictFallback \/ QueueDies \/ Rebuild
  \/ \E c \in Calls : StartCall(c)
  \/ \E c \in Callers : Advance(c)

Spec == Init /\ [][Next]_vars

\* Fibers that can run do; an acquire ends within its timeout, and the other
\* requests end one way or the other.  A poll need not: that is what the timer
\* is for.  Nobody has to call.
FairSpec ==
  /\ Spec
  /\ WF_vars(Boot) /\ WF_vars(StreamStarts) /\ WF_vars(VerdictFallback) /\ WF_vars(Rebuild)
  /\ \A c \in Callers : WF_vars(Advance(c))

-----------------------------------------------------------------------------
(* Properties *)

Binding == {"free", "bind", "await", "acquire", "seeding", "verdict", "reading", "over"}

\* The domains; each caller is only ever where its own code can be.
TypeOK ==
  /\ boot \in {"reporting", "binding", "connecting", "announced", "serving"}
  /\ session \in {"awaited", "known"} /\ stored \in {"none", "alive", "dead", "own"}
  /\ record \in {"none", "some"} /\ verdict \in {"pending", "replayed", "missed"}
  /\ stream \in {"off", "fresh", "resuming", "expired", "live"} /\ queue \in {"none", "live"}
  /\ ensure \in {"idle", "pending", "acquired"} /\ rebuild \in {"parked", "running", "done"}
  /\ narrows \in {"bare", "restored"} /\ caughtUp \in {"no", "bare", "restored"}
  /\ DOMAIN at = Callers
  /\ at["boot"] \in Binding /\ at["rebuild"] \in Binding \cup {"asking"}
  /\ \A c \in Calls : at[c] \in Binding \cup {"subscribing", "persist"}

\* A hook that read history was told "missed", and the verdict stays so: a first
\* poll that answers after the timer has fired does not turn it round.  (The
\* verdict is what is claimed: that late poll still hands over what it holds.)
BacklogOnce == caughtUp # "no" => verdict = "missed"

\* The boot fiber comes to serve: the tools are announced and the pump runs.
BootEnds == boot = "reporting" ~> boot = "serving"

\* The same of a seat that has nothing to resume, which is told so before its
\* boot fiber binds: the hook it runs there must not wait for a producer that
\* starts after boot.
FreshBootEnds == boot = "reporting" /\ stored = "none" ~> boot = "serving"

\* A tool call that has begun ends, though it may have to run the hook, wait
\* for the verdict, and wait for a rebuild that itself waits to be bound.
CallsEnd == \A c \in Calls : At(c, "bind") ~> At(c, "over")

\* The catch-up of a session that ran before skims its restored subscriptions
\* (server.ts: "over the seat's restored runtime intents").
SkimsRestored ==
  (\E c \in Callers : At(c, "reading")) /\ record = "some" => caughtUp = "restored"
=============================================================================
