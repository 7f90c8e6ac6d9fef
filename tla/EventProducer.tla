---------------------------- MODULE EventProducer ----------------------------
(***************************************************************************)
(* The Zulip event-queue producer (packages/zulip/events.ts, inboxEvents), *)
(* the parts of the adapter it shares state with (adapter.ts: boundRef,    *)
(* inboxRef.registration, the watermark), and the queue-state hooks that   *)
(* persist its cursor for a later resume (mcp/queue-state-hooks.ts).       *)
(*                                                                         *)
(* The realm is the environment: it numbers the messages it accepts        *)
(* 1, 2, ..., issues event queues, and may drop any queue at any time.     *)
(* A queue carries the messages accepted after it was registered; the      *)
(* message m is event m - born[q] - 1 of queue q, so event ids start over  *)
(* in every queue and a fresh queue's last_event_id is -1.                 *)
(*                                                                         *)
(* One step of the producer is split where another fiber, the realm or a   *)
(* crash can come in between: every HTTP round trip, and the hand-over of  *)
(* the batch to the pump.  `pc` is where the step stands, `state` the      *)
(* unfold's carried state, `observed` the step's working copy of it.       *)
(***************************************************************************)
EXTENDS Integers, FiniteSets

CONSTANTS
  Identities,   \* the bots this seat may be bound to, one per conversation
  Nobody,       \* the seat holds no binding
  Ephemeral,    \* TRUE: session-keyed seat, queue state is persisted
                \* FALSE: COMMY_BOT_NAME is set, no resume hooks are wired
  ReplayReach,  \* how many of the newest messages a replay covers: in the code
                \* HISTORY_MAX_PAGES (20) pages of REPLAY_NUM_BEFORE (1000)
  MaxPosts,     \* bound: messages the realm accepts
  MaxQueues,    \* bound: queues the realm issues
  MaxLives      \* bound: process starts

ASSUME ConstantsAssumption ==
  /\ Nobody \notin Identities
  /\ Ephemeral \in BOOLEAN
  /\ ReplayReach \in Nat \ {0}
  /\ MaxPosts \in Nat /\ MaxQueues \in Nat /\ MaxLives \in Nat \ {0}

NoQueue == 0
Queues == 1 .. MaxQueues
Unset == -1

VARIABLES
  \* the realm
  posted, issued, born, owner, alive,
  \* the adapter
  bound, registration, watermark,
  \* the producer
  pc, state, observed, asker, upto, report,
  \* the resume verdict, the shared session id, the persisted queue state
  verdict, session, store,
  \* history, read by no guard: the life, the store it began with, where its
  \* stream opened, what it handed over, what no replay reached, the losses it
  \* logged, the queues it found dead
  lives, left, floor, delivered, beyond, excused, buried

realm == <<posted, issued, born, owner, alive>>
seat == <<bound, registration>>
hooks == <<verdict, session, store>>
ghosts == <<lives, left, floor, delivered, beyond, excused, buried>>
vars == <<posted, issued, born, owner, alive, bound, registration, watermark,
          pc, state, observed, asker, upto, report,
          verdict, session, store, lives, left, floor, delivered, beyond, excused, buried>>

-----------------------------------------------------------------------------
(* Queues and cursors *)

Cursor == [queue : 0 .. MaxQueues, last : -1 .. MaxPosts - 1]
ProducerState ==
  [queue : 0 .. MaxQueues, last : -1 .. MaxPosts - 1, seen : 0 .. MaxQueues]

NoCursor == [queue |-> NoQueue, last |-> -1]
NoState == [queue |-> NoQueue, last |-> -1, seen |-> NoQueue]
Fresh(q) == [queue |-> q, last |-> -1]

\* The number of the last message at or before a cursor.
Position(c) == born[c.queue] + c.last + 1
EventId(q, m) == m - born[q] - 1

\* POST /register under the credential of `who`: the realm issues a queue
\* whose baseline is the present.
NewQueue == issued + 1
IssueQueue(who) ==
  /\ issued < MaxQueues
  /\ issued' = NewQueue
  /\ born' = [born EXCEPT ![NewQueue] = posted]
  /\ owner' = [owner EXCEPT ![NewQueue] = who]
  /\ alive' = alive \cup {NewQueue}
  /\ UNCHANGED posted

-----------------------------------------------------------------------------
(* queue-state hooks *)

HooksWired == Ephemeral /\ session = "known"

\* Mistaken variant: every register replaces the record.
OnQueueRegister_Overwrites(q) == store' = IF HooksWired THEN Fresh(q) ELSE store

\* onQueueRegister: while the verdict is pending, a register never overwrites
\* a surviving candidate; afterwards it replaces the record wholesale.
OnQueueRegister(q) ==
  store' = IF HooksWired /\ (verdict # "pending" \/ store.queue = NoQueue)
             THEN Fresh(q) ELSE store

\* onQueueAdvance: move the stored cursor of whatever queue the record names.
OnQueueAdvance(last) ==
  store' = IF HooksWired /\ store.queue # NoQueue /\ last > store.last
             THEN [store EXCEPT !.last = last] ELSE store

\* onResumeOutcome completes a Deferred: the first write wins.
Settle(v) == IF verdict = "pending" THEN v ELSE verdict

\* reportResume: one report per stream, and only on a genuine resume.
ReportResume(v) ==
  /\ verdict' = IF report = "due" THEN Settle(v) ELSE verdict
  /\ report' = IF report = "due" THEN "done" ELSE report

\* server.ts reports "nothing to resume" before the seat can bind.
BootVerdict(id) ==
  IF Ephemeral /\ id = "known" /\ store.queue = NoQueue THEN "missed" ELSE "pending"

-----------------------------------------------------------------------------
Init ==
  /\ posted = 0 /\ issued = 0 /\ alive = {}
  /\ born = [q \in Queues |-> 0]
  /\ owner = [q \in Queues |-> Nobody]
  /\ bound = Nobody /\ registration = NoQueue /\ watermark = 0
  /\ pc = "boot"
  /\ state = NoState /\ observed = NoState
  /\ asker = Nobody /\ upto = 0
  /\ report = "none"
  /\ store = NoCursor
  /\ session \in {"awaited", "known"}
  /\ verdict = BootVerdict(session)
  /\ lives = 1 /\ left = NoCursor /\ floor = Unset
  /\ delivered = {} /\ beyond = {} /\ excused = {} /\ buried = {}

-----------------------------------------------------------------------------
(* The realm *)

Post ==
  /\ posted < MaxPosts
  /\ posted' = posted + 1
  /\ UNCHANGED <<issued, born, owner, alive, seat, watermark, pc, state, observed,
                 asker, upto, report, hooks, ghosts>>

\* The realm drops a queue: idle timeout, garbage collection, a restart.
Expire(q) ==
  /\ q \in alive
  /\ alive' = alive \ {q}
  /\ UNCHANGED <<posted, issued, born, owner, seat, watermark, pc, state, observed,
                 asker, upto, report, hooks, ghosts>>

-----------------------------------------------------------------------------
(* The rest of the seat *)

\* A hooked tool call (or the boot environment) delivers the session id.
FeedSession ==
  /\ session = "awaited"
  /\ session' = "known"
  /\ UNCHANGED <<realm, seat, watermark, pc, state, observed, asker, upto,
                 report, verdict, store, ghosts>>

\* identity.acquire.  An ephemeral bot's name derives from the session id.
Bind(i) ==
  /\ bound = Nobody
  /\ Ephemeral => session = "known"
  /\ bound' = i
  /\ UNCHANGED <<realm, registration, watermark, pc, state, observed, asker, upto,
                 report, hooks, ghosts>>

\* A new conversation on the same process releases the previous one's bot.
Release ==
  /\ Ephemeral
  /\ bound # Nobody
  /\ bound' = Nobody
  /\ UNCHANGED <<realm, registration, watermark, pc, state, observed, asker, upto,
                 report, hooks, ghosts>>

\* ensureQueueRegistered, at the end of inbox.subscribe: one registration for
\* the life of the process.
SeatRegisters ==
  /\ bound # Nobody
  /\ registration = NoQueue
  /\ IssueQueue(bound)
  /\ OnQueueRegister(NewQueue)
  /\ registration' = NewQueue
  /\ UNCHANGED <<bound, watermark, pc, state, observed, asker, upto, report, verdict, session, ghosts>>

-----------------------------------------------------------------------------
(* The producer *)

\* A step ends: the unfold carries `next` to the following one.
EndStep(next) ==
  /\ pc' = "top"
  /\ state' = next /\ observed' = next
  /\ asker' = Nobody /\ upto' = 0

\* events(): a persisted queue is preferred to the seat's registration, and
\* the registration in place now is remembered so that it is no change later.
StartStream ==
  /\ pc = "boot"
  /\ Ephemeral \/ bound # Nobody
  /\ LET resumed == IF HooksWired THEN store ELSE NoCursor
         initial == IF resumed.queue # NoQueue THEN resumed ELSE Fresh(registration)
     IN  /\ state' = [queue |-> initial.queue, last |-> initial.last, seen |-> registration]
         /\ report' = IF resumed.queue # NoQueue THEN "due" ELSE "none"
         /\ verdict' = IF Ephemeral /\ resumed.queue = NoQueue THEN Settle("missed") ELSE verdict
         /\ floor' = IF initial.queue # NoQueue THEN Position(initial) ELSE Unset
  /\ observed' = state'
  /\ pc' = "top"
  /\ UNCHANGED <<realm, seat, watermark, asker, upto, session, store,
                 lives, left, delivered, beyond, excused, buried>>

\* Top of a step: adopt a registration that changed since the last step, then
\* register a queue if there is none, else poll.  An unbound seat idles.  An
\* adoption gives up what the displaced queue still held.
Changed == registration # NoQueue /\ registration # state.seen
LeavesBehind == floor # Unset /\ Position(state) < born[registration]

\* Mistaken variant: the registration is adopted at its present end.
Adopted_AtItsEnd ==
  IF Changed
    THEN [queue |-> registration, last |-> EventId(registration, posted), seen |-> registration]
    ELSE state

Adopted ==
  IF Changed
    THEN [queue |-> registration, last |-> -1, seen |-> registration]
    ELSE state

BeginStep ==
  /\ pc = "top"
  /\ bound # Nobody
  /\ observed' = Adopted
  /\ pc' = IF observed'.queue = NoQueue THEN "register" ELSE "poll"
  /\ asker' = bound
  /\ excused' = IF Changed /\ LeavesBehind THEN excused \cup {"displaced"} ELSE excused
  /\ UNCHANGED <<realm, seat, watermark, state, upto, report, hooks,
                 lives, left, floor, delivered, beyond, buried>>

\* registerFreshQueue for a producer that has no queue at all.
RegisterFresh ==
  /\ pc = "register"
  /\ bound # Nobody
  /\ IssueQueue(bound)
  /\ OnQueueRegister(NewQueue)
  /\ observed' = [observed EXCEPT !.queue = NewQueue, !.last = -1]
  /\ asker' = bound
  /\ pc' = "poll"
  /\ UNCHANGED <<seat, watermark, state, upto, report, verdict, session, ghosts>>

QueueAnswers == observed.queue \in alive /\ owner[observed.queue] = asker

\* The long poll returns events: everything the queue holds past the cursor.
PollAnswered ==
  /\ pc = "poll"
  /\ QueueAnswers
  /\ posted > Position(observed)
  /\ ReportResume("replayed")
  /\ upto' = posted
  /\ pc' = "mapping"
  /\ UNCHANGED <<realm, seat, watermark, state, observed, asker, session, store, ghosts>>

\* The starting point of a stream that registered its queue lazily is fixed
\* when the step that polled it completes.
SettledFloor == IF floor = Unset THEN Position(observed) ELSE floor

\* The long poll returns no message (a heartbeat): the step completes.
PollEmpty ==
  /\ pc = "poll"
  /\ QueueAnswers
  /\ posted <= Position(observed)
  /\ ReportResume("replayed")
  /\ EndStep(observed)
  /\ floor' = SettledFloor
  /\ UNCHANGED <<realm, seat, watermark, session, store,
                 lives, left, delivered, beyond, excused, buried>>

\* BAD_EVENT_QUEUE_ID: the queue is gone, or belongs to another principal.
PollRefused ==
  /\ pc = "poll"
  /\ ~QueueAnswers
  /\ ReportResume("missed")
  /\ pc' = "expired"
  /\ UNCHANGED <<realm, seat, watermark, state, observed, asker, upto, session, store, ghosts>>

Larger(a, b) == IF a > b THEN a ELSE b

\* The batch is mapped; the watermark and the persisted cursor move before
\* the batch is handed over.
CommitBatch ==
  /\ pc = "mapping"
  /\ watermark' = Larger(watermark, upto)
  /\ OnQueueAdvance(EventId(observed.queue, upto))
  /\ pc' = "emitting"
  /\ UNCHANGED <<realm, seat, state, observed, asker, upto, report,
                 verdict, session, ghosts>>

\* Mistaken variant: the first event of the batch is taken for the baseline.
EmitBatch_SkipsFirst ==
  /\ pc = "emitting"
  /\ delivered' = delivered \cup (Position(observed) + 2 .. upto)
  /\ EndStep([observed EXCEPT !.last = EventId(observed.queue, upto)])
  /\ floor' = SettledFloor
  /\ UNCHANGED <<realm, seat, watermark, report, hooks,
                 lives, left, beyond, excused, buried>>

\* The unfold returns the chunk to the pump and carries the new cursor.
EmitBatch ==
  /\ pc = "emitting"
  /\ delivered' = delivered \cup (Position(observed) + 1 .. upto)
  /\ EndStep([observed EXCEPT !.last = EventId(observed.queue, upto)])
  /\ floor' = SettledFloor
  /\ UNCHANGED <<realm, seat, watermark, report, hooks,
                 lives, left, beyond, excused, buried>>

\* Mistaken variant: the gap is replayed though there is no watermark.
RecoverRegister_ReplaysAnyway ==
  /\ pc = "expired"
  /\ bound # Nobody
  /\ IssueQueue(bound)
  /\ OnQueueRegister(NewQueue)
  /\ state' = [state EXCEPT !.queue = NewQueue, !.last = -1]
  /\ observed' = state' /\ asker' = Nobody /\ upto' = 0
  /\ pc' = "replaying"
  /\ buried' = buried \cup {observed.queue}
  /\ UNCHANGED <<seat, watermark, report, verdict, session, lives, left,
                 floor, delivered, beyond, excused>>

\* handleBadQueue: register first, so that the replay's snapshot and the new
\* queue overlap.  The carried state keeps the registration it had seen.
RecoverRegister ==
  /\ pc = "expired"
  /\ bound # Nobody
  /\ IssueQueue(bound)
  /\ OnQueueRegister(NewQueue)
  /\ state' = [state EXCEPT !.queue = NewQueue, !.last = -1]
  /\ observed' = state' /\ asker' = Nobody /\ upto' = 0
  /\ pc' = IF watermark = 0 THEN "top" ELSE "replaying"
  /\ excused' = IF watermark = 0 /\ floor # Unset
                  THEN excused \cup {"no-watermark"} ELSE excused
  /\ buried' = buried \cup {observed.queue}
  /\ UNCHANGED <<seat, watermark, report, verdict, session, lives, left,
                 floor, delivered, beyond>>

\* replay(since): a walk back from the newest message to the watermark,
\* inclusive, that ends at its page budget.  What it did not reach is left out
\* of a replay that succeeds; nothing says so.
Reached == Larger(watermark, posted - ReplayReach + 1)

ReplayGap ==
  /\ pc = "replaying"
  /\ delivered' = delivered \cup (Reached .. posted)
  /\ beyond' = beyond \cup (watermark .. Reached - 1)
  /\ pc' = "top"
  /\ UNCHANGED <<realm, seat, watermark, state, observed, asker, upto, report, hooks,
                 lives, left, floor, excused, buried>>

\* A failed replay is logged and the gap is given up.
ReplayFails ==
  /\ pc = "replaying"
  /\ excused' = excused \cup {"replay-failed"}
  /\ pc' = "top"
  /\ UNCHANGED <<realm, seat, watermark, state, observed, asker, upto, report, hooks,
                 lives, left, floor, delivered, beyond, buried>>

\* Mistaken variant: the retry goes on from the cursor that was reached when
\* mapping failed.
StepAborts_KeepsCursor ==
  /\ pc \in {"register", "poll", "mapping", "expired"}
  /\ EndStep(IF pc = "mapping" THEN [observed EXCEPT !.last = EventId(observed.queue, upto)] ELSE state)
  /\ UNCHANGED <<realm, seat, watermark, report, hooks, ghosts>>

\* 429, a transient or decoding failure, or a binding lost on the way: the
\* step is retried from the carried state.
StepAborts ==
  /\ pc \in {"register", "poll", "mapping", "expired"}
  /\ EndStep(state)
  /\ UNCHANGED <<realm, seat, watermark, report, hooks, ghosts>>

\* Mistaken variant: the timer is armed by the first poll of a bound seat.
VerdictFallback_WhenBound ==
  /\ pc # "boot" /\ bound # Nobody
  /\ report = "due"
  /\ ReportResume("missed")
  /\ UNCHANGED <<realm, seat, watermark, pc, state, observed, asker, upto, session, store, ghosts>>

\* RESUME_VERDICT_FALLBACK: the timer armed at the start of a resuming stream.
VerdictFallback ==
  /\ pc # "boot"
  /\ report = "due"
  /\ ReportResume("missed")
  /\ UNCHANGED <<realm, seat, watermark, pc, state, observed, asker, upto, session, store, ghosts>>

\* The process dies and is started again for the same session; the realm and
\* the persisted queue state survive.
Restart ==
  /\ lives < MaxLives
  /\ lives' = lives + 1
  /\ left' = store
  /\ bound' = Nobody /\ registration' = NoQueue /\ watermark' = 0
  /\ pc' = "boot"
  /\ report' = "none"
  /\ session' \in {"awaited", "known"}
  /\ verdict' = BootVerdict(session')
  /\ state' = NoState /\ observed' = NoState /\ asker' = Nobody /\ upto' = 0
  /\ floor' = Unset /\ delivered' = {} /\ beyond' = {} /\ excused' = {} /\ buried' = {}
  /\ UNCHANGED <<realm, store>>

-----------------------------------------------------------------------------
Realm == Post \/ \E q \in Queues : Expire(q)
Seat == FeedSession \/ (\E i \in Identities : Bind(i)) \/ Release \/ SeatRegisters
Producer ==
  \/ StartStream \/ BeginStep \/ RegisterFresh
  \/ PollAnswered \/ PollEmpty \/ PollRefused
  \/ CommitBatch \/ EmitBatch
  \/ RecoverRegister \/ ReplayGap \/ ReplayFails
  \/ StepAborts \/ VerdictFallback

Next == Realm \/ Seat \/ Producer \/ Restart

Spec == Init /\ [][Next]_vars

\* The fallback timer is scoped to the stream and always fires.  A step is
\* retried without end, so a realm that heals often enough lets it complete;
\* nothing is assumed of a subscribe, of the realm's expiries or of failures.
Fairness ==
  /\ WF_vars(StartStream) /\ WF_vars(BeginStep) /\ WF_vars(VerdictFallback)
  /\ SF_vars(RegisterFresh) /\ SF_vars(PollAnswered) /\ SF_vars(PollEmpty)
  /\ SF_vars(PollRefused) /\ SF_vars(CommitBatch) /\ WF_vars(EmitBatch)
  /\ SF_vars(RecoverRegister) /\ WF_vars(ReplayGap \/ ReplayFails)

FairSpec == Spec /\ Fairness

-----------------------------------------------------------------------------
(* Properties *)

Excuses == {"displaced", "no-watermark", "replay-failed"}

RealmType ==
  /\ posted \in 0 .. MaxPosts /\ issued \in 0 .. MaxQueues
  /\ born \in [Queues -> 0 .. MaxPosts]
  /\ owner \in [Queues -> Identities \cup {Nobody}]
  /\ alive \subseteq Queues
SeatType ==
  /\ bound \in Identities \cup {Nobody}
  /\ registration \in 0 .. MaxQueues
  /\ watermark \in 0 .. MaxPosts
  /\ session \in {"awaited", "known"}
  /\ verdict \in {"pending", "replayed", "missed"}
StepType ==
  /\ pc \in {"boot", "top", "register", "poll", "mapping", "emitting", "expired", "replaying"}
  /\ state \in ProducerState /\ observed \in ProducerState
  /\ asker \in Identities \cup {Nobody}
  /\ upto \in 0 .. MaxPosts
  /\ report \in {"none", "due", "done"}
HistoryType ==
  /\ store \in Cursor /\ left \in Cursor
  /\ lives \in 1 .. MaxLives
  /\ floor \in -1 .. MaxPosts + MaxPosts
  /\ delivered \subseteq 1 .. MaxPosts /\ beyond \subseteq 1 .. MaxPosts
  /\ excused \subseteq Excuses
  /\ buried \subseteq 0 .. MaxQueues

\* Values stay in their domains; not obvious only for `store` and `floor`, a
\* persisted cursor being computed from one queue and applied to another.
TypeOK == RealmType /\ SeatType /\ StepType /\ HistoryType

\* Between two steps, everything from where the stream opened up to the cursor
\* the producer carries was handed to the pump, whatever the realm dropped and
\* however often a step failed half way, unless a loss was logged; but for
\* messages that had a whole replay's reach of newer ones when a gap was replayed
\* (history-paging.ts: the walk ends with its page budget).
OutOfReach == {m \in beyond : m + ReplayReach <= posted}
NoSilentLoss ==
  pc \notin {"boot", "replaying"} /\ floor # Unset /\ excused = {} =>
    floor + 1 .. Position(state) \subseteq delivered \cup OutOfReach

\* "A seat that was away for a week has to be told everything it missed, however
\* many pages that spans" (adapter.ts, at the replay): nothing the producer has
\* passed is missing unless a loss was logged.
HoweverManyPages ==
  pc \notin {"boot", "replaying"} /\ floor # Unset /\ excused = {} =>
    floor + 1 .. Position(state) \subseteq delivered

\* What the stream has accounted for, while no loss was logged: everything up
\* to the carried cursor (except that the gap of a dead queue is still to be
\* replayed), and everything up to the watermark the gap is replayed from
\* (except that a committed batch is still to be handed over).  The queue being
\* polled starts no later than the carried cursor.
Accounted == delivered \cup beyond
PassedIsDelivered ==
  pc # "replaying" => floor + 1 .. Position(state) \subseteq Accounted
PolledNotAhead ==
  pc \in {"poll", "mapping", "emitting"} => Position(observed) <= Position(state)
OnItsWay == IF pc = "emitting" THEN Position(observed) + 1 .. upto ELSE {}
WatermarkDelivered == floor + 1 .. watermark \subseteq Accounted \cup OnItsWay

\* Together they are what a step must preserve for NoSilentLoss to hold: the
\* watermark in particular never passes a message that could still fail to be
\* handed over, or a later gap replay would start too late.
Covered ==
  /\ pc = "register" => floor = Unset
  /\ floor = Unset => watermark = 0 \/ (pc = "emitting" /\ watermark <= upto)
  /\ floor # Unset /\ excused = {} =>
       PassedIsDelivered /\ PolledNotAhead /\ WatermarkDelivered

\* subscribe() resolves once its queue is registered, and from that moment on
\* the stream observes every post: what the producer has passed that is younger
\* than the registration was handed over, also when the producer was polling
\* another queue at the time, and unless it was out of a replay's reach.
SubscribeIsObserved ==
  pc \notin {"boot", "replaying"} /\ registration # NoQueue /\ floor # Unset
     /\ excused \subseteq {"displaced"} =>
    Larger(born[registration], floor) + 1 .. Position(state) \subseteq delivered \cup OutOfReach

\* Nothing the seat does before its stream starts (a boot-time subscribe
\* registers a queue and persists it) overwrites the queue the previous process
\* left to be resumed.
CandidateSurvivesBoot ==
  pc = "boot" /\ left.queue # NoQueue => store = left

\* The stream is an implementation of what its consumer relies on (core/ports.ts):
\* it passes over a message only where a catch-up could not reach it.
Stream == INSTANCE InboxStream WITH
  posted <- posted,
  from <- floor,
  heard <- {m \in delivered : floor # Unset /\ m > floor},
  skipped <- {m \in beyond : floor # Unset /\ m > floor},
  Reach <- ReplayReach,
  lossy <- excused # {}
ImplementsInboxStream == Stream!Spec

\* What this process leaves to its successor is safe to resume: the persisted
\* cursor has passed no message of its queue that was not handed over
\* (queue-state-store.ts: a restart can GET /events "from that cursor and
\* replay everything missed").  Looked at between two steps of the producer.
HandedOverUpTo(c) ==
  Larger(floor, born[c.queue]) + 1 .. Position(c) \subseteq delivered
Resumable == floor # Unset /\ store.queue # NoQueue

StoredCursorHidesNothing ==
  pc = "top" /\ Resumable => HandedOverUpTo(store)

\* The same for a process that dies inside a step, when the persisted queue is
\* the one the producer polls.
CrashHidesNothing ==
  pc # "boot" /\ Resumable /\ store.queue = observed.queue => HandedOverUpTo(store)

\* The verdict "replayed" says that the surviving queue hands over the whole
\* downtime backlog natively (server.ts), which stands the history catch-up
\* down: so the stream has not given up that queue for another.
ReplayedMeansReplayed ==
  verdict = "replayed" => "displaced" \notin excused

\* "Adopt only what the inbox has re-registered since we last looked"
\* (events.ts): a queue this producer found dead is never polled again.
NeverReadopts ==
  pc = "poll" => observed.queue \notin buried

\* A post or react that waits for the resume verdict is not left waiting: once
\* the stream of an ephemeral seat runs, the verdict settles even if no poll
\* ever completes.
VerdictSettles ==
  pc # "boot" /\ Ephemeral ~> verdict # "pending"

\* A message the stream should carry is handed over while the process lives and
\* the seat stays bound, through any number of failed steps and dead queues,
\* unless a loss is logged, or so much was posted since the watermark that no
\* replay reaches it (or the model's supply of queues is used up).
Interrupted == pc = "boot" \/ bound = Nobody \/ issued = MaxQueues
EventuallyHandedOver ==
  \A m \in 1 .. MaxPosts :
    floor # Unset /\ m \in floor + 1 .. posted ~>
      m \in delivered \cup OutOfReach \/ excused # {} \/ Interrupted
=============================================================================
