------------------------- MODULE EventProducer_proofs -------------------------
(***************************************************************************)
(* Proofs about EventProducer, for any number of bots, posts, queues and   *)
(* process lives: the type invariant, that nothing is lost without an      *)
(* admitted reason, that the producer implements InboxStream, that a       *)
(* subscribe is observed from then on, and that a queue left to be resumed *)
(* survives the boot.                                                      *)
(***************************************************************************)
EXTENDS EventProducer, TLAPS

\* What the values mean beyond their types: a queue in use was issued and is
\* not younger than the present, a batch in flight lies past the cursor it was
\* polled with, nothing is handed over that was not posted.
QueuesIssued ==
  /\ registration <= issued /\ store.queue <= issued
  /\ state.queue <= issued /\ observed.queue <= issued
  /\ \A q \in Queues : born[q] <= posted
InFlight ==
  /\ pc \in {"poll", "mapping", "emitting"} => observed.queue # NoQueue
  /\ pc \in {"mapping", "emitting"} => Position(observed) < upto /\ upto <= posted
  /\ pc = "replaying" => watermark # 0 /\ state.queue # NoQueue /\ state.last = -1
Handed ==
  /\ pc = "boot" => watermark = 0 /\ floor = Unset
  /\ floor # Unset => state.queue # NoQueue
  /\ watermark <= posted
  /\ delivered \subseteq 1 .. posted
WellFormed == TypeOK /\ QueuesIssued /\ InFlight /\ Handed

USE DEF Queues, NoQueue, Unset

-----------------------------------------------------------------------------
(* Cursors and queues *)

\* A cursor's position is a number of messages.
LEMMA PositionNat ==
  ASSUME RealmType, NEW c, c.queue \in Queues, c.last \in -1 .. MaxPosts - 1
  PROVE  Position(c) = born[c.queue] + c.last + 1 /\ Position(c) \in 0 .. MaxPosts + MaxPosts
  BY ConstantsAssumption DEF ConstantsAssumption, RealmType, Position

\* The operations on cursors stay within their types.
LEMMA CursorTypes ==
  /\ \A q \in 0 .. MaxQueues : Fresh(q) \in Cursor
  /\ NoCursor \in Cursor /\ NoState \in ProducerState
  /\ \A s \in ProducerState, q \in 0 .. MaxQueues :
       [s EXCEPT !.queue = q, !.last = -1] \in ProducerState
  /\ \A s \in ProducerState, n \in -1 .. MaxPosts - 1 :
       [s EXCEPT !.last = n] \in ProducerState
<1> USE ConstantsAssumption DEF ConstantsAssumption
<1>1. -1 \in -1 .. MaxPosts - 1 /\ 0 \in 0 .. MaxQueues
  OBVIOUS
<1>2. \A q \in 0 .. MaxQueues : Fresh(q) \in Cursor
  BY <1>1 DEF Fresh, Cursor
<1>3. NoCursor \in Cursor /\ NoState \in ProducerState
  BY <1>1 DEF NoCursor, NoState, Cursor, ProducerState
<1>4. \A s \in ProducerState, q \in 0 .. MaxQueues :
        [s EXCEPT !.queue = q, !.last = -1] \in ProducerState
  BY <1>1 DEF ProducerState
<1>5. \A s \in ProducerState, n \in -1 .. MaxPosts - 1 :
        [s EXCEPT !.last = n] \in ProducerState
  BY DEF ProducerState
<1> QED
  BY <1>2, <1>3, <1>4, <1>5

\* Issuing a queue leaves the older ones as they are.
LEMMA Issuing ==
  ASSUME WellFormed, NEW who \in Identities \cup {Nobody}, IssueQueue(who)
  PROVE  /\ RealmType'
         /\ NewQueue \in Queues /\ NewQueue = issued + 1 /\ issued' = NewQueue
         /\ posted' = posted /\ born'[NewQueue] = posted
         /\ \A q \in Queues : q <= issued => born'[q] = born[q]
         /\ \A q \in Queues : born'[q] <= posted'
  BY ConstantsAssumption
  DEF ConstantsAssumption, WellFormed, QueuesIssued, TypeOK, RealmType, IssueQueue, NewQueue

\* Persisting a registration keeps the stored cursor or starts it afresh.
LEMMA Persisting ==
  ASSUME store \in Cursor, NEW q \in Queues, OnQueueRegister(q)
  PROVE  store' \in Cursor /\ store'.queue \in {store.queue, q}
<1>1. Fresh(q) \in Cursor
  <2>1. q \in 0 .. MaxQueues
    BY ConstantsAssumption DEF ConstantsAssumption
  <2> QED
    BY <2>1, CursorTypes
<1>2. Fresh(q).queue = q
  BY DEF Fresh
<1> QED
  BY <1>1, <1>2 DEF OnQueueRegister

\* Advancing the stored cursor keeps its queue.
LEMMA Advancing ==
  ASSUME store \in Cursor, NEW n \in -1 .. MaxPosts - 1, OnQueueAdvance(n)
  PROVE  store' \in Cursor /\ store'.queue = store.queue
  BY DEF OnQueueAdvance, Cursor

-----------------------------------------------------------------------------
(* The type invariant *)

\* The model starts well formed.
LEMMA InitWellFormed == Init => WellFormed
<1> SUFFICES ASSUME Init PROVE WellFormed
  OBVIOUS
<1> USE ConstantsAssumption DEF ConstantsAssumption, Init
<1>1. RealmType /\ SeatType
  BY DEF RealmType, SeatType, BootVerdict
<1>0. NoState \in ProducerState /\ NoCursor \in Cursor
  BY CursorTypes
<1>2. StepType
  BY <1>0 DEF StepType
<1>3. HistoryType
  BY <1>0 DEF HistoryType
<1>4. QueuesIssued /\ InFlight /\ Handed
  BY DEF QueuesIssued, InFlight, Handed, NoState, NoCursor
<1> QED
  BY <1>1, <1>2, <1>3, <1>4, Zenon DEF WellFormed, TypeOK

\* Steps of the realm and the seat that leave the producer alone.
LEMMA PostWellFormed == ASSUME WellFormed, Post PROVE WellFormed'
<1> USE ConstantsAssumption
    DEF ConstantsAssumption, Post, seat, hooks, ghosts, WellFormed, TypeOK
<1>1. posted \in 0 .. MaxPosts /\ posted' = posted + 1 /\ posted' \in 0 .. MaxPosts
  BY DEF RealmType
<1>2. RealmType' /\ SeatType'
  BY <1>1 DEF RealmType, SeatType
<1>3. StepType' /\ HistoryType'
  BY DEF StepType, HistoryType
<1>4. QueuesIssued'
  <2>1. \A q \in Queues : born'[q] <= posted'
    BY <1>1 DEF RealmType, QueuesIssued
  <2> QED
    BY <2>1 DEF QueuesIssued
<1>5. InFlight'
  <2>1. Position(observed)' = Position(observed)
    BY DEF Position
  <2> QED
    BY <1>1, <2>1 DEF InFlight, StepType
<1>6. Handed'
  <2>1. 1 .. posted \subseteq 1 .. posted'
    BY <1>1
  <2> QED
    BY <1>1, <2>1 DEF Handed, SeatType
<1> QED
  BY <1>2, <1>3, <1>4, <1>5, <1>6, Zenon

LEMMA ExpireWellFormed == ASSUME WellFormed, NEW q \in Queues, Expire(q) PROVE WellFormed'
<1> USE DEF Expire, seat, hooks, ghosts, WellFormed, TypeOK
<1>1. RealmType'
  BY DEF RealmType
<1>2. Position(observed)' = Position(observed)
  BY DEF Position
<1>3. SeatType' /\ StepType' /\ HistoryType' /\ QueuesIssued' /\ InFlight' /\ Handed'
  BY <1>2 DEF SeatType, StepType, HistoryType, QueuesIssued, InFlight, Handed
<1> QED
  BY <1>1, <1>3, Zenon

LEMMA BindingWellFormed ==
  ASSUME WellFormed, FeedSession \/ (\E i \in Identities : Bind(i)) \/ Release
  PROVE  WellFormed'
<1>1. /\ UNCHANGED <<realm, registration, watermark, pc, state, observed, asker, upto, report>>
      /\ UNCHANGED <<verdict, store, ghosts>>
      /\ bound' \in Identities \cup {Nobody} /\ session' \in {"awaited", "known"}
  BY DEF FeedSession, Bind, Release, hooks, seat, WellFormed, TypeOK, SeatType
<1> USE <1>1 DEF realm, ghosts, WellFormed, TypeOK
<1>2. RealmType' /\ SeatType'
  BY DEF RealmType, SeatType
<1>3. Position(observed)' = Position(observed)
  BY DEF Position
<1>4. StepType' /\ HistoryType' /\ QueuesIssued' /\ InFlight' /\ Handed'
  BY <1>3 DEF StepType, HistoryType, QueuesIssued, InFlight, Handed
<1> QED
  BY <1>2, <1>4, Zenon

LEMMA SeatRegistersWellFormed == ASSUME WellFormed, SeatRegisters PROVE WellFormed'
<1>1. bound \in Identities \cup {Nobody} /\ store \in Cursor /\ IssueQueue(bound)
  BY DEF WellFormed, TypeOK, SeatType, HistoryType, SeatRegisters
<1>2. RealmType' /\ NewQueue \in Queues /\ NewQueue = issued + 1 /\ issued' = NewQueue
      /\ posted' = posted
  BY <1>1, Issuing
<1>3. (\A q \in Queues : q <= issued => born'[q] = born[q])
      /\ \A q \in Queues : born'[q] <= posted'
  BY <1>1, Issuing
<1>4. store' \in Cursor /\ store'.queue \in {store.queue, NewQueue}
  BY <1>1, <1>2, Persisting DEF SeatRegisters
<1> USE DEF WellFormed, TypeOK, SeatRegisters
<1>5. SeatType' /\ StepType'
  BY <1>2 DEF SeatType, StepType
<1>6. HistoryType'
  BY <1>4 DEF HistoryType, ghosts
<1>7. QueuesIssued'
  <2>1. store.queue \in 0 .. MaxQueues /\ state.queue \in 0 .. MaxQueues
        /\ observed.queue \in 0 .. MaxQueues /\ issued \in 0 .. MaxQueues
    BY DEF RealmType, StepType, ProducerState, HistoryType, Cursor
  <2> QED
    BY <2>1, <1>2, <1>3, <1>4, ConstantsAssumption DEF ConstantsAssumption, QueuesIssued
<1>8. InFlight'
  BY <1>2, <1>3 DEF InFlight, QueuesIssued, RealmType, StepType, ProducerState, Position
<1>9. Handed'
  BY <1>2 DEF Handed, ghosts
<1> QED
  BY <1>2, <1>5, <1>6, <1>7, <1>8, <1>9, Zenon

\* Ending a step keeps the carried state in its type.
LEMMA EndingStep ==
  ASSUME NEW s \in ProducerState, EndStep(s), report' \in {"none", "due", "done"}
  PROVE  StepType'
  BY ConstantsAssumption DEF ConstantsAssumption, EndStep, StepType

LEMMA Reporting ==
  ASSUME SeatType, StepType, NEW v \in {"replayed", "missed"}, ReportResume(v)
  PROVE  verdict' \in {"pending", "replayed", "missed"} /\ report' \in {"none", "due", "done"}
  BY DEF SeatType, StepType, ReportResume, Settle

LEMMA StartStreamWellFormed == ASSUME WellFormed, StartStream PROVE WellFormed'
<1> DEFINE resumed == IF HooksWired THEN store ELSE NoCursor
           initial == IF resumed.queue # NoQueue THEN resumed ELSE Fresh(registration)
<1> USE DEF WellFormed, TypeOK
<1>1. /\ state' = [queue |-> initial.queue, last |-> initial.last, seen |-> registration]
      /\ observed' = state' /\ pc' = "top"
      /\ report' \in {"none", "due", "done"}
      /\ verdict' \in {"pending", "replayed", "missed"}
      /\ floor' = IF initial.queue # NoQueue THEN Position(initial) ELSE Unset
      /\ pc = "boot"
  BY DEF StartStream, SeatType, Settle
<1>2. /\ UNCHANGED <<realm, seat, watermark, asker, upto, session, store>>
      /\ UNCHANGED <<lives, left, delivered, beyond, excused, buried>>
  BY DEF StartStream
<1>3. resumed \in Cursor /\ resumed.queue <= issued
  <2>1. NoCursor \in Cursor
    BY CursorTypes
  <2>2. NoCursor.queue = 0 /\ issued \in 0 .. MaxQueues
    BY DEF NoCursor, RealmType
  <2> QED
    BY <2>1, <2>2, ConstantsAssumption DEF ConstantsAssumption, HistoryType, QueuesIssued
<1>4. initial \in Cursor /\ initial.queue <= issued
  BY <1>3, CursorTypes, ConstantsAssumption
  DEF ConstantsAssumption, SeatType, Fresh, QueuesIssued
<1>5. state' \in ProducerState /\ state'.queue = initial.queue
  BY <1>1, <1>4 DEF Cursor, ProducerState, SeatType
<1>6. floor' \in -1 .. MaxPosts + MaxPosts /\ (floor' # Unset => state'.queue # NoQueue)
  <2>1. CASE initial.queue = NoQueue
    BY <2>1, <1>1, ConstantsAssumption DEF ConstantsAssumption
  <2>2. CASE initial.queue # NoQueue
    <3>1. initial.queue \in Queues /\ initial.last \in -1 .. MaxPosts - 1
      BY <2>2, <1>4, ConstantsAssumption DEF ConstantsAssumption, Cursor
    <3>2. Position(initial) \in 0 .. MaxPosts + MaxPosts
      BY <3>1, PositionNat
    <3> QED
      BY <3>2, <2>2, <1>1, <1>5
  <2> QED
    BY <2>1, <2>2
<1>7. RealmType' /\ SeatType'
  BY <1>1, <1>2 DEF RealmType, SeatType, realm, seat
<1>8. StepType' /\ HistoryType'
  BY <1>1, <1>2, <1>5, <1>6 DEF StepType, HistoryType
<1>9. QueuesIssued'
  BY <1>1, <1>2, <1>4, <1>5 DEF QueuesIssued, realm, seat
<1>10. InFlight' /\ Handed'
  BY <1>1, <1>2, <1>6 DEF InFlight, Handed, realm
<1> QED
  BY <1>7, <1>8, <1>9, <1>10, Zenon

LEMMA BeginStepWellFormed == ASSUME WellFormed, BeginStep PROVE WellFormed'
<1> USE DEF WellFormed, TypeOK
<1>1. /\ pc = "top" /\ observed' = Adopted /\ asker' = bound
      /\ pc' = IF observed'.queue = NoQueue THEN "register" ELSE "poll"
      /\ excused' \subseteq excused \cup {"displaced"}
  BY DEF BeginStep
<1>2. /\ UNCHANGED <<realm, seat, watermark, state, upto, report, hooks>>
      /\ UNCHANGED <<lives, left, floor, delivered, beyond, buried>>
  BY DEF BeginStep
<1>3. Adopted \in ProducerState /\ Adopted.queue <= issued
  BY ConstantsAssumption
  DEF ConstantsAssumption, Adopted, Changed, StepType, SeatType, QueuesIssued, ProducerState
<1>4. RealmType' /\ SeatType'
  BY <1>2 DEF RealmType, SeatType, realm, seat, hooks
<1>5. StepType'
  BY <1>1, <1>2, <1>3 DEF StepType, SeatType
<1>6. HistoryType'
  BY <1>1, <1>2 DEF HistoryType, hooks, Excuses
<1>7. QueuesIssued' /\ InFlight' /\ Handed'
  BY <1>1, <1>2, <1>3 DEF QueuesIssued, InFlight, Handed, realm, seat, hooks
<1> QED
  BY <1>4, <1>5, <1>6, <1>7, Zenon

LEMMA RegisterFreshWellFormed == ASSUME WellFormed, RegisterFresh PROVE WellFormed'
<1>1. bound \in Identities \cup {Nobody} /\ store \in Cursor /\ IssueQueue(bound)
  BY DEF WellFormed, TypeOK, SeatType, HistoryType, RegisterFresh
<1>2. RealmType' /\ NewQueue \in Queues /\ NewQueue = issued + 1 /\ issued' = NewQueue
      /\ posted' = posted /\ \A q \in Queues : born'[q] <= posted'
  BY <1>1, Issuing
<1>3. store' \in Cursor /\ store'.queue \in {store.queue, NewQueue}
  BY <1>1, <1>2, Persisting DEF RegisterFresh
<1> USE DEF WellFormed, TypeOK
<1>4. /\ observed' = [observed EXCEPT !.queue = NewQueue, !.last = -1]
      /\ asker' = bound /\ pc = "register" /\ pc' = "poll"
      /\ UNCHANGED <<seat, watermark, state, upto, report, verdict, session, ghosts>>
  BY DEF RegisterFresh
<1>5. observed' \in ProducerState /\ observed'.queue = NewQueue
  <2>1. NewQueue \in 0 .. MaxQueues
    BY <1>2, ConstantsAssumption DEF ConstantsAssumption
  <2> QED
    BY <2>1, <1>4, CursorTypes DEF StepType, ProducerState
<1>6. SeatType' /\ StepType'
  BY <1>1, <1>4, <1>5 DEF SeatType, StepType, seat
<1>7. HistoryType'
  BY <1>3, <1>4 DEF HistoryType, ghosts
<1>8. QueuesIssued'
  <2>1. store.queue \in 0 .. MaxQueues /\ state.queue \in 0 .. MaxQueues
        /\ registration \in 0 .. MaxQueues /\ issued \in 0 .. MaxQueues
    BY DEF RealmType, SeatType, StepType, ProducerState, HistoryType, Cursor
  <2> QED
    BY <2>1, <1>2, <1>3, <1>4, <1>5, ConstantsAssumption
    DEF ConstantsAssumption, QueuesIssued, seat
<1>9. InFlight' /\ Handed'
  BY <1>2, <1>4, <1>5 DEF InFlight, Handed, ghosts
<1> QED
  BY <1>2, <1>6, <1>7, <1>8, <1>9, Zenon

\* The poll's outcomes.  A verdict may be reported on the way.
LEMMA PollAnsweredWellFormed == ASSUME WellFormed, PollAnswered PROVE WellFormed'
<1> USE DEF WellFormed, TypeOK
<1>1. /\ pc = "poll" /\ pc' = "mapping" /\ upto' = posted /\ posted > Position(observed)
      /\ verdict' \in {"pending", "replayed", "missed"} /\ report' \in {"none", "due", "done"}
  BY Reporting DEF PollAnswered
<1>2. /\ UNCHANGED <<realm, seat, watermark, state, observed, asker, session, store>>
      /\ UNCHANGED ghosts
  BY DEF PollAnswered
<1>3. RealmType' /\ SeatType'
  BY <1>1, <1>2 DEF RealmType, SeatType, realm, seat
<1>4. StepType' /\ HistoryType'
  BY <1>1, <1>2 DEF StepType, HistoryType, ghosts, RealmType
<1>5. Position(observed)' = Position(observed)
  BY <1>2 DEF Position, realm
<1>6. posted \in 0 .. MaxPosts /\ Position(observed) \in 0 .. MaxPosts + MaxPosts
  <2>1. observed.queue \in Queues /\ observed.last \in -1 .. MaxPosts - 1
    BY <1>1, ConstantsAssumption
    DEF ConstantsAssumption, InFlight, StepType, ProducerState
  <2> QED
    BY <2>1, PositionNat DEF RealmType
<1>7. QueuesIssued' /\ InFlight' /\ Handed'
  BY <1>1, <1>2, <1>5, <1>6, ConstantsAssumption
  DEF ConstantsAssumption, QueuesIssued, InFlight, Handed, realm, seat, ghosts
<1> QED
  BY <1>3, <1>4, <1>7, Zenon

LEMMA PollEmptyWellFormed == ASSUME WellFormed, PollEmpty PROVE WellFormed'
<1> USE DEF WellFormed, TypeOK
<1>1. /\ pc = "poll" /\ EndStep(observed) /\ floor' = SettledFloor
      /\ verdict' \in {"pending", "replayed", "missed"} /\ report' \in {"none", "due", "done"}
  BY Reporting DEF PollEmpty
<1>2. /\ UNCHANGED <<realm, seat, watermark, session, store>>
      /\ UNCHANGED <<lives, left, delivered, beyond, excused, buried>>
  BY DEF PollEmpty
<1>3. StepType'
  BY <1>1, EndingStep DEF StepType
<1>4. observed.queue \in Queues /\ observed.last \in -1 .. MaxPosts - 1
  BY <1>1, ConstantsAssumption DEF ConstantsAssumption, InFlight, StepType, ProducerState
<1>5. floor' \in -1 .. MaxPosts + MaxPosts
  <2>1. Position(observed) \in 0 .. MaxPosts + MaxPosts
    BY <1>4, PositionNat
  <2> QED
    BY <2>1, <1>1 DEF SettledFloor, HistoryType
<1>6. RealmType' /\ SeatType'
  BY <1>1, <1>2 DEF RealmType, SeatType, realm, seat
<1>7. HistoryType'
  BY <1>2, <1>5 DEF HistoryType
<1>8. QueuesIssued' /\ InFlight' /\ Handed'
  BY <1>1, <1>2, <1>4, ConstantsAssumption
  DEF ConstantsAssumption, QueuesIssued, InFlight, Handed, EndStep, realm, seat
<1> QED
  BY <1>3, <1>6, <1>7, <1>8, Zenon

LEMMA PollRefusedWellFormed == ASSUME WellFormed, PollRefused \/ VerdictFallback PROVE WellFormed'
<1> USE DEF WellFormed, TypeOK
<1>1. /\ pc' \in {pc, "expired"} /\ (pc' = "boot" => pc = "boot")
      /\ verdict' \in {"pending", "replayed", "missed"} /\ report' \in {"none", "due", "done"}
  BY Reporting DEF PollRefused, VerdictFallback
<1>2. /\ UNCHANGED <<realm, seat, watermark, state, observed, asker, upto, session, store>>
      /\ UNCHANGED ghosts
  BY DEF PollRefused, VerdictFallback
<1>3. RealmType' /\ SeatType'
  BY <1>1, <1>2 DEF RealmType, SeatType, realm, seat
<1>4. StepType' /\ HistoryType'
  BY <1>1, <1>2 DEF StepType, HistoryType, ghosts
<1>5. Position(observed)' = Position(observed)
  BY <1>2 DEF Position, realm
<1>6. QueuesIssued' /\ InFlight' /\ Handed'
  BY <1>1, <1>2, <1>5 DEF QueuesIssued, InFlight, Handed, realm, seat, ghosts
<1> QED
  BY <1>3, <1>4, <1>6, Zenon

\* A batch in flight ends at an event id its queue can have.
LEMMA BatchBounds ==
  ASSUME WellFormed, pc \in {"mapping", "emitting"}
  PROVE  /\ observed.queue \in Queues /\ observed.last \in -1 .. MaxPosts - 1
         /\ Position(observed) \in 0 .. MaxPosts + MaxPosts
         /\ Position(observed) < upto /\ upto \in 1 .. posted /\ posted \in 0 .. MaxPosts
         /\ EventId(observed.queue, upto) \in -1 .. MaxPosts - 1
         /\ born[observed.queue] + EventId(observed.queue, upto) + 1 = upto
<1> USE DEF WellFormed, TypeOK
<1>1. observed.queue \in Queues /\ observed.last \in -1 .. MaxPosts - 1
  BY ConstantsAssumption DEF ConstantsAssumption, InFlight, StepType, ProducerState
<1>2. /\ Position(observed) = born[observed.queue] + observed.last + 1
      /\ Position(observed) \in 0 .. MaxPosts + MaxPosts
  BY <1>1, PositionNat
<1>3. Position(observed) < upto /\ upto <= posted /\ upto \in 0 .. MaxPosts
  BY DEF InFlight, StepType
<1>4. born[observed.queue] \in 0 .. MaxPosts /\ posted \in 0 .. MaxPosts
  BY <1>1 DEF RealmType
<1> QED
  BY <1>1, <1>2, <1>3, <1>4, ConstantsAssumption DEF ConstantsAssumption, EventId

LEMMA CommitBatchWellFormed == ASSUME WellFormed, CommitBatch PROVE WellFormed'
<1> USE DEF WellFormed, TypeOK
<1>1. /\ pc = "mapping" /\ pc' = "emitting" /\ watermark' \in {watermark, upto}
      /\ UNCHANGED <<realm, seat, state, observed, asker, upto, report, verdict, session>>
      /\ UNCHANGED ghosts
  BY DEF CommitBatch, Larger
<1>2. upto \in 1 .. posted /\ posted \in 0 .. MaxPosts
  BY <1>1, BatchBounds
<1>3. store' \in Cursor /\ store'.queue = store.queue
  <2>1. EventId(observed.queue, upto) \in -1 .. MaxPosts - 1
    BY <1>1, BatchBounds
  <2> QED
    BY <2>1, Advancing DEF HistoryType, CommitBatch
<1>4. RealmType' /\ SeatType'
  BY <1>1, <1>2, ConstantsAssumption DEF ConstantsAssumption, RealmType, SeatType, realm, seat
<1>5. StepType' /\ HistoryType'
  BY <1>1, <1>3 DEF StepType, HistoryType, ghosts
<1>6. Position(observed)' = Position(observed)
  BY <1>1 DEF Position, realm
<1>7. QueuesIssued' /\ InFlight' /\ Handed'
  BY <1>1, <1>2, <1>3, <1>6 DEF QueuesIssued, InFlight, Handed, realm, seat, ghosts
<1> QED
  BY <1>4, <1>5, <1>7, Zenon

LEMMA EmitBatchWellFormed == ASSUME WellFormed, EmitBatch PROVE WellFormed'
<1> USE DEF WellFormed, TypeOK
<1> DEFINE next == [observed EXCEPT !.last = EventId(observed.queue, upto)]
<1>1. /\ pc = "emitting" /\ EndStep(next) /\ floor' = SettledFloor
      /\ delivered' = delivered \cup (Position(observed) + 1 .. upto)
      /\ UNCHANGED <<realm, seat, watermark, report, hooks>>
      /\ UNCHANGED <<lives, left, beyond, excused, buried>>
  BY DEF EmitBatch
<1>2. /\ observed.queue \in Queues /\ Position(observed) \in 0 .. MaxPosts + MaxPosts
      /\ Position(observed) < upto /\ upto \in 1 .. posted /\ posted \in 0 .. MaxPosts
      /\ EventId(observed.queue, upto) \in -1 .. MaxPosts - 1
  BY <1>1, BatchBounds
<1>3. next \in ProducerState /\ next.queue = observed.queue
  <2>1. observed \in ProducerState
    BY DEF StepType
  <2> QED
    BY <2>1, <1>2, CursorTypes DEF ProducerState
<1> HIDE DEF next
<1>4. StepType'
  BY <1>1, <1>3, EndingStep DEF StepType
<1>5. RealmType' /\ SeatType'
  BY <1>1 DEF RealmType, SeatType, realm, seat, hooks
<1>6. delivered' \subseteq 1 .. posted /\ 1 .. posted \subseteq 1 .. MaxPosts
  <2>1. Position(observed) + 1 .. upto \subseteq 1 .. posted
    BY <1>2, ConstantsAssumption DEF ConstantsAssumption
  <2>2. delivered \subseteq 1 .. posted
    BY DEF Handed
  <2>3. 1 .. posted \subseteq 1 .. MaxPosts
    BY <1>2, ConstantsAssumption DEF ConstantsAssumption
  <2> QED
    BY <2>1, <2>2, <2>3, <1>1
<1>7. HistoryType'
  BY <1>1, <1>2, <1>6 DEF HistoryType, hooks, SettledFloor
<1>8. QueuesIssued' /\ InFlight' /\ Handed'
  BY <1>1, <1>2, <1>3, <1>6 DEF QueuesIssued, InFlight, Handed, EndStep, realm, seat, hooks
<1> QED
  BY <1>4, <1>5, <1>7, <1>8, Zenon

LEMMA RecoverRegisterWellFormed == ASSUME WellFormed, RecoverRegister PROVE WellFormed'
<1>1. bound \in Identities \cup {Nobody} /\ store \in Cursor /\ IssueQueue(bound)
  BY DEF WellFormed, TypeOK, SeatType, HistoryType, RecoverRegister
<1>2. RealmType' /\ NewQueue \in Queues /\ NewQueue = issued + 1 /\ issued' = NewQueue
      /\ posted' = posted /\ \A q \in Queues : born'[q] <= posted'
  BY <1>1, Issuing
<1>3. store' \in Cursor /\ store'.queue \in {store.queue, NewQueue}
  BY <1>1, <1>2, Persisting DEF RecoverRegister
<1> USE DEF WellFormed, TypeOK
<1>4. /\ state' = [state EXCEPT !.queue = NewQueue, !.last = -1]
      /\ observed' = state' /\ asker' = Nobody /\ upto' = 0
      /\ pc = "expired" /\ pc' = IF watermark = 0 THEN "top" ELSE "replaying"
      /\ excused' \subseteq excused \cup {"no-watermark"}
      /\ buried' = buried \cup {observed.queue}
      /\ UNCHANGED <<seat, watermark, report, verdict, session, lives, left, floor, delivered, beyond>>
  BY DEF RecoverRegister
<1>5. state' \in ProducerState /\ state'.queue = NewQueue
  <2>1. NewQueue \in 0 .. MaxQueues
    BY <1>2, ConstantsAssumption DEF ConstantsAssumption
  <2> QED
    BY <2>1, <1>4, CursorTypes DEF StepType, ProducerState
<1>6. SeatType'
  BY <1>4 DEF SeatType, seat
<1>7. StepType'
  BY <1>4, <1>5, ConstantsAssumption DEF ConstantsAssumption, StepType
<1>8. HistoryType'
  <2>1. buried' \subseteq 0 .. MaxQueues /\ excused' \subseteq Excuses
    BY <1>4 DEF HistoryType, StepType, ProducerState, Excuses
  <2> QED
    BY <2>1, <1>3, <1>4 DEF HistoryType
<1>9. QueuesIssued'
  <2>1. store.queue \in 0 .. MaxQueues /\ registration \in 0 .. MaxQueues
        /\ issued \in 0 .. MaxQueues
    BY DEF RealmType, SeatType, HistoryType, Cursor
  <2> QED
    BY <2>1, <1>2, <1>3, <1>4, <1>5, ConstantsAssumption
    DEF ConstantsAssumption, QueuesIssued, seat
<1>10. InFlight' /\ Handed'
  BY <1>2, <1>4, <1>5 DEF InFlight, Handed
<1> QED
  BY <1>2, <1>6, <1>7, <1>8, <1>9, <1>10, Zenon

\* What a replay reaches and what it does not make up the whole gap.
LEMMA Reaching ==
  ASSUME WellFormed
  PROVE  /\ Reached \in Int /\ watermark <= Reached /\ watermark \in Nat /\ posted \in Nat
         /\ Reached .. posted = {m \in watermark .. posted : m + ReplayReach > posted}
         /\ watermark .. Reached - 1 = {m \in watermark .. posted : m + ReplayReach <= posted}
         /\ Reached .. posted \subseteq watermark .. posted
         /\ watermark .. Reached - 1 \subseteq watermark .. posted
         /\ (Reached .. posted) \cup (watermark .. Reached - 1) = watermark .. posted
<1>1. watermark \in Nat /\ posted \in Nat /\ watermark <= posted /\ ReplayReach \in Nat \ {0}
  BY ConstantsAssumption
  DEF ConstantsAssumption, WellFormed, TypeOK, RealmType, SeatType, Handed
<1>2. Reached = IF watermark > posted - ReplayReach + 1 THEN watermark ELSE posted - ReplayReach + 1
  BY DEF Reached, Larger
<1> QED
  BY <1>1, <1>2

LEMMA ReplayWellFormed == ASSUME WellFormed, ReplayGap \/ ReplayFails PROVE WellFormed'
<1> USE DEF WellFormed, TypeOK
<1>1. /\ pc = "replaying" /\ pc' = "top"
      /\ delivered' \subseteq delivered \cup (watermark .. posted)
      /\ beyond' \subseteq beyond \cup (watermark .. posted)
      /\ excused' \subseteq excused \cup {"replay-failed"}
      /\ UNCHANGED <<realm, seat, watermark, state, observed, asker, upto, report, hooks>>
      /\ UNCHANGED <<lives, left, floor, buried>>
  <2>1. CASE ReplayFails
    BY <2>1 DEF ReplayFails
  <2>2. CASE ReplayGap
    BY <2>2, Reaching DEF ReplayGap
  <2> QED
    BY <2>1, <2>2
<1>2. RealmType' /\ SeatType' /\ StepType'
  BY <1>1 DEF RealmType, SeatType, StepType, realm, seat, hooks
<1>3. delivered' \subseteq 1 .. posted /\ watermark .. posted \subseteq 1 .. posted
  <2>1. watermark .. posted \subseteq 1 .. posted
    BY <1>1 DEF InFlight, SeatType
  <2> QED
    BY <2>1, <1>1 DEF Handed
<1>4. 1 .. posted \subseteq 1 .. MaxPosts
  BY ConstantsAssumption DEF ConstantsAssumption, RealmType
<1>5. HistoryType'
  BY <1>1, <1>3, <1>4 DEF HistoryType, Excuses, hooks
<1>6. QueuesIssued' /\ InFlight' /\ Handed'
  BY <1>1, <1>3 DEF QueuesIssued, InFlight, Handed, realm, seat, hooks
<1> QED
  BY <1>2, <1>5, <1>6, Zenon

LEMMA StepAbortsWellFormed == ASSUME WellFormed, StepAborts PROVE WellFormed'
<1> USE DEF WellFormed, TypeOK
<1>1. /\ pc # "boot" /\ EndStep(state)
      /\ UNCHANGED <<realm, seat, watermark, report, hooks>> /\ UNCHANGED ghosts
  BY DEF StepAborts
<1>2. StepType'
  BY <1>1, EndingStep DEF StepType
<1>3. RealmType' /\ SeatType' /\ HistoryType'
  BY <1>1 DEF RealmType, SeatType, HistoryType, realm, seat, hooks, ghosts
<1>4. QueuesIssued' /\ InFlight' /\ Handed'
  BY <1>1 DEF QueuesIssued, InFlight, Handed, EndStep, realm, seat, hooks, ghosts
<1> QED
  BY <1>2, <1>3, <1>4, Zenon

LEMMA RestartWellFormed == ASSUME WellFormed, Restart PROVE WellFormed'
<1> USE DEF WellFormed, TypeOK
<1>1. /\ lives < MaxLives /\ lives' = lives + 1 /\ left' = store
      /\ bound' = Nobody /\ registration' = NoQueue /\ watermark' = 0
      /\ pc' = "boot" /\ report' = "none" /\ session' \in {"awaited", "known"}
      /\ verdict' \in {"pending", "missed"}
  BY DEF Restart, BootVerdict
<1>2. /\ state' = NoState /\ observed' = NoState /\ asker' = Nobody /\ upto' = 0
      /\ floor' = Unset /\ delivered' = {} /\ beyond' = {} /\ excused' = {} /\ buried' = {}
      /\ UNCHANGED <<realm, store>>
  BY DEF Restart
<1>3. NoState \in ProducerState /\ NoState.queue = NoQueue
  BY CursorTypes DEF NoState
<1>4. RealmType' /\ SeatType'
  BY <1>1, <1>2, ConstantsAssumption DEF ConstantsAssumption, RealmType, SeatType, realm
<1>5. StepType'
  BY <1>1, <1>2, <1>3, ConstantsAssumption DEF ConstantsAssumption, StepType
<1>6. HistoryType'
  BY <1>1, <1>2, ConstantsAssumption DEF ConstantsAssumption, HistoryType
<1>7. QueuesIssued' /\ InFlight' /\ Handed'
  <2>1. issued \in 0 .. MaxQueues /\ posted \in 0 .. MaxPosts
    BY DEF RealmType
  <2> QED
    BY <2>1, <1>1, <1>2, <1>3, ConstantsAssumption
    DEF ConstantsAssumption, QueuesIssued, InFlight, Handed, realm
<1> QED
  BY <1>4, <1>5, <1>6, <1>7, Zenon

\* Every step keeps the model well formed.
LEMMA StepWellFormed == ASSUME WellFormed, [Next]_vars PROVE WellFormed'
<1>1. CASE Realm
  BY <1>1, PostWellFormed, ExpireWellFormed DEF Realm
<1>2. CASE Seat
  BY <1>2, BindingWellFormed, SeatRegistersWellFormed DEF Seat
<1>3. CASE Producer
  BY <1>3, StartStreamWellFormed, BeginStepWellFormed, RegisterFreshWellFormed,
     PollAnsweredWellFormed, PollEmptyWellFormed, PollRefusedWellFormed,
     CommitBatchWellFormed, EmitBatchWellFormed, RecoverRegisterWellFormed,
     ReplayWellFormed, StepAbortsWellFormed
  DEF Producer
<1>4. CASE Restart
  BY <1>4, RestartWellFormed
<1>5. CASE UNCHANGED vars
  BY <1>5
  DEF vars, WellFormed, TypeOK, RealmType, SeatType, StepType, HistoryType,
      QueuesIssued, InFlight, Handed, Position
<1> QED
  BY <1>1, <1>2, <1>3, <1>4, <1>5 DEF Next

\* The values of every variable stay in their domains, in particular the
\* persisted cursor and the starting point computed from it.
THEOREM TypeCorrect == Spec => []TypeOK
<1>1. Spec => []WellFormed
  BY InitWellFormed, StepWellFormed, PTL DEF Spec
<1>2. WellFormed => TypeOK
  BY DEF WellFormed
<1> QED
  BY <1>1, <1>2, PTL

\* What a replay left out had a whole reach of newer messages.
PassedOver == \A m \in beyond : m + ReplayReach <= posted

LEMMA StepPassedOver == ASSUME WellFormed, PassedOver, [Next]_vars PROVE PassedOver'
<1>0. posted \in Nat /\ beyond \subseteq Nat /\ ReplayReach \in Nat
  BY ConstantsAssumption DEF ConstantsAssumption, WellFormed, TypeOK, RealmType, HistoryType
<1>1. CASE ReplayGap
  BY <1>1, Reaching DEF ReplayGap, PassedOver, realm
<1>2. CASE Restart
  BY <1>2 DEF Restart, PassedOver
<1>3. CASE beyond' = beyond /\ posted' \in {posted, posted + 1}
  BY <1>0, <1>3 DEF PassedOver
<1> QED
  BY <1>1, <1>2, <1>3
  DEF Next, vars, Realm, Post, Expire, Seat, FeedSession, Bind, Release, SeatRegisters, Producer,
      IssueQueue, realm, StartStream, BeginStep, RegisterFresh, PollAnswered, PollEmpty, PollRefused,
      CommitBatch, EmitBatch, RecoverRegister, ReplayFails, StepAborts, VerdictFallback, ghosts

LEMMA PassedOverAlways == Spec => [](WellFormed /\ PassedOver)
<1>1. Init => WellFormed /\ PassedOver
  BY InitWellFormed DEF Init, PassedOver
<1>2. WellFormed /\ PassedOver /\ [Next]_vars => WellFormed' /\ PassedOver'
  BY StepWellFormed, StepPassedOver
<1> QED
  BY <1>1, <1>2, PTL DEF Spec

\* Then what is accounted for was handed over, or lies out of reach.
LEMMA AccountedFor == PassedOver => Accounted = delivered \cup OutOfReach
  BY DEF PassedOver, Accounted, OutOfReach

USE DEF Accounted

-----------------------------------------------------------------------------
(* Nothing is lost without an admitted reason *)

\* Positions of the carried and the polled cursor survive a step that leaves
\* the cursors and the queues issued so far alone.
LEMMA PositionsKept ==
  ASSUME WellFormed, UNCHANGED <<state, observed>>,
         \A q \in Queues : q <= issued => born'[q] = born[q]
  PROVE  /\ floor # Unset => Position(state)' = Position(state)
         /\ pc \in {"poll", "mapping", "emitting"} =>
              Position(observed)' = Position(observed)
<1>1. /\ floor # Unset => state.queue \in Queues /\ state.queue <= issued
      /\ pc \in {"poll", "mapping", "emitting"} =>
           observed.queue \in Queues /\ observed.queue <= issued
  BY ConstantsAssumption
  DEF ConstantsAssumption, WellFormed, TypeOK, StepType, ProducerState, QueuesIssued,
      InFlight, Handed
<1> QED
  BY <1>1 DEF Position

\* A step that keeps the producer, the watermark and its history keeps Covered.
LEMMA CoveredKept ==
  ASSUME WellFormed, Covered,
         UNCHANGED <<state, observed, pc, floor, watermark, upto, Accounted, excused>>,
         \A q \in Queues : q <= issued => born'[q] = born[q]
  PROVE  Covered'
<1>1. /\ floor # Unset => Position(state)' = Position(state)
      /\ pc \in {"poll", "mapping", "emitting"} =>
           Position(observed)' = Position(observed)
  BY PositionsKept
<1> QED
  BY <1>1
  DEF Covered, PassedIsDelivered, PolledNotAhead, WatermarkDelivered, OnItsWay

LEMMA SurroundingsCovered ==
  ASSUME WellFormed, Covered, Realm \/ Seat \/ VerdictFallback
  PROVE  Covered'
<1>1. CASE SeatRegisters
  <2>1. IssueQueue(bound) /\ bound \in Identities \cup {Nobody}
    BY <1>1 DEF SeatRegisters, WellFormed, TypeOK, SeatType
  <2>2. \A q \in Queues : q <= issued => born'[q] = born[q]
    BY <2>1, Issuing
  <2> QED
    BY <1>1, <2>2, CoveredKept DEF SeatRegisters, ghosts
<1>2. CASE Realm \/ VerdictFallback \/ FeedSession \/ Release
           \/ \E i \in Identities : Bind(i)
  <2>1. /\ UNCHANGED <<state, observed, pc, floor, watermark, upto, Accounted, excused>>
        /\ born' = born
    BY <1>2 DEF Realm, Post, Expire, VerdictFallback, FeedSession, Release, Bind, ghosts, realm
  <2> QED
    BY <2>1, CoveredKept
<1> QED
  BY <1>1, <1>2 DEF Seat

\* The numbers the coverage argument compares.
LEMMA Numbers ==
  ASSUME WellFormed
  PROVE  /\ watermark \in Nat /\ posted \in Nat /\ upto \in Nat /\ floor \in Int
         /\ floor # Unset => floor \in Nat /\ state.queue \in Queues
         /\ floor # Unset => Position(state) \in Nat
         /\ pc \in {"poll", "mapping", "emitting"} =>
              observed.queue \in Queues /\ Position(observed) \in Nat
<1> USE DEF WellFormed, TypeOK
<1>1. watermark \in Nat /\ posted \in Nat /\ upto \in Nat /\ floor \in -1 .. MaxPosts + MaxPosts
  BY ConstantsAssumption
  DEF ConstantsAssumption, RealmType, SeatType, StepType, HistoryType
<1>2. floor # Unset => state.queue \in Queues /\ state.last \in -1 .. MaxPosts - 1
  BY ConstantsAssumption DEF ConstantsAssumption, StepType, ProducerState, Handed
<1>3. floor # Unset => Position(state) \in Nat
  BY <1>2, PositionNat, ConstantsAssumption DEF ConstantsAssumption
<1>4. pc \in {"poll", "mapping", "emitting"} =>
        observed.queue \in Queues /\ observed.last \in -1 .. MaxPosts - 1
  BY ConstantsAssumption DEF ConstantsAssumption, StepType, ProducerState, InFlight
<1>5. pc \in {"poll", "mapping", "emitting"} => Position(observed) \in Nat
  BY <1>4, PositionNat, ConstantsAssumption DEF ConstantsAssumption
<1> QED
  BY <1>1, <1>2, <1>3, <1>4, <1>5, ConstantsAssumption DEF ConstantsAssumption

LEMMA StartStreamCovered == ASSUME WellFormed, Covered, StartStream PROVE Covered'
<1>1. WellFormed'
  BY StartStreamWellFormed
<1>2. pc' = "top" /\ watermark' = 0 /\ floor' \in Int
  BY <1>1, Numbers DEF StartStream, WellFormed, Handed, TypeOK, HistoryType
<1>3. floor' # Unset => floor' \in Nat /\ Position(state)' = floor'
  <2> DEFINE resumed == IF HooksWired THEN store ELSE NoCursor
             initial == IF resumed.queue # NoQueue THEN resumed ELSE Fresh(registration)
  <2>1. /\ state' = [queue |-> initial.queue, last |-> initial.last, seen |-> registration]
        /\ floor' = IF initial.queue # NoQueue THEN Position(initial) ELSE Unset
        /\ born' = born
    BY DEF StartStream, realm
  <2>2. floor' # Unset => floor' \in Nat
    BY <1>1, ConstantsAssumption DEF ConstantsAssumption, WellFormed, TypeOK, HistoryType
  <2> QED
    BY <2>1, <2>2 DEF Position
<1>4. floor' # Unset => PassedIsDelivered' /\ PolledNotAhead' /\ WatermarkDelivered'
  <2> SUFFICES ASSUME floor' # Unset
               PROVE  floor' + 1 .. Position(state)' = {} /\ floor' + 1 .. watermark' = {}
    BY <1>2 DEF PassedIsDelivered, PolledNotAhead, WatermarkDelivered
  <2>1. \A n \in Nat : n + 1 .. n = {} /\ n + 1 .. 0 = {}
    OBVIOUS
  <2> QED
    BY <2>1, <1>2, <1>3
<1> QED
  BY <1>2, <1>4 DEF Covered

LEMMA BeginStepCovered == ASSUME WellFormed, Covered, BeginStep PROVE Covered'
<1>1. /\ pc = "top" /\ observed' = Adopted
      /\ pc' = IF observed'.queue = NoQueue THEN "register" ELSE "poll"
      /\ excused' = IF Changed /\ LeavesBehind THEN excused \cup {"displaced"} ELSE excused
      /\ UNCHANGED <<realm, seat, watermark, state, upto>>
      /\ UNCHANGED <<floor, Accounted>>
  BY DEF BeginStep
<1>2. /\ floor # Unset => floor \in Nat /\ state.queue \in Queues /\ Position(state) \in Nat
      /\ watermark \in Nat
  BY Numbers
<1>3. floor # Unset => pc' = "poll"
  BY <1>1, <1>2 DEF Adopted, Changed
<1>4. Position(state)' = Position(state)
  BY <1>1 DEF Position, realm
<1>5. floor # Unset /\ excused' = {} => Position(observed)' <= Position(state)
  <2> SUFFICES ASSUME floor # Unset, excused' = {}
               PROVE  Position(observed)' <= Position(state)
    OBVIOUS
  <2>1. CASE Changed
    <3>1. ~LeavesBehind
      BY <2>1, <1>1
    <3>2. observed' = [queue |-> registration, last |-> -1, seen |-> registration]
      BY <2>1, <1>1 DEF Adopted
    <3>3. registration \in Queues
      BY <2>1, ConstantsAssumption
      DEF ConstantsAssumption, Changed, WellFormed, TypeOK, SeatType
    <3>4. born[registration] \in Nat
      BY <3>3, ConstantsAssumption DEF ConstantsAssumption, WellFormed, TypeOK, RealmType
    <3>5. Position(observed)' = born[registration]
      BY <3>2, <3>4, <1>1 DEF Position, realm
    <3> QED
      BY <3>1, <3>4, <3>5, <1>2 DEF LeavesBehind
  <2>2. CASE ~Changed
    BY <2>2, <1>1, <1>2 DEF Adopted, Position, realm
  <2> QED
    BY <2>1, <2>2
<1>6. floor # Unset /\ excused' = {} => PassedIsDelivered /\ WatermarkDelivered
  BY <1>1 DEF Covered
<1>7. floor # Unset /\ excused' = {} =>
        PassedIsDelivered' /\ PolledNotAhead' /\ WatermarkDelivered'
  BY <1>1, <1>3, <1>4, <1>5, <1>6
  DEF PassedIsDelivered, PolledNotAhead, WatermarkDelivered, OnItsWay
<1>8. floor = Unset => watermark = 0
  BY <1>1 DEF Covered
<1> QED
  BY <1>1, <1>3, <1>7, <1>8 DEF Covered

LEMMA RegisterFreshCovered == ASSUME WellFormed, Covered, RegisterFresh PROVE Covered'
<1>1. floor = Unset /\ pc = "register" /\ watermark = 0
  BY DEF RegisterFresh, Covered
<1>2. floor' = Unset /\ pc' = "poll" /\ watermark' = 0
  BY <1>1 DEF RegisterFresh, ghosts
<1> QED
  BY <1>2 DEF Covered

LEMMA PollCovered == ASSUME WellFormed, Covered, PollAnswered \/ PollRefused PROVE Covered'
<1>1. /\ pc = "poll" /\ pc' \in {"mapping", "expired"}
      /\ UNCHANGED <<realm, watermark, state, observed>>
      /\ UNCHANGED ghosts
  BY DEF PollAnswered, PollRefused
<1>2. Position(state)' = Position(state) /\ Position(observed)' = Position(observed)
  BY <1>1 DEF Position, realm
<1> QED
  BY <1>1, <1>2
  DEF Covered, PassedIsDelivered, PolledNotAhead, WatermarkDelivered, OnItsWay, ghosts

LEMMA PollEmptyCovered == ASSUME WellFormed, Covered, PollEmpty PROVE Covered'
<1>1. /\ pc = "poll" /\ pc' = "top" /\ state' = observed /\ floor' = SettledFloor
      /\ UNCHANGED <<realm, watermark, Accounted, excused>>
  BY DEF PollEmpty, EndStep
<1>2. Position(state)' = Position(observed)
  BY <1>1 DEF Position, realm
<1>3. /\ Position(observed) \in Nat /\ watermark \in Nat
      /\ floor # Unset => floor \in Nat /\ Position(state) \in Nat
  BY <1>1, Numbers
<1>4. CASE floor = Unset
  <2>1. floor' = Position(observed) /\ watermark = 0
    BY <1>1, <1>4 DEF SettledFloor, Covered
  <2>2. floor' + 1 .. Position(state)' = {} /\ floor' + 1 .. watermark' = {}
    <3>1. \A n \in Nat : n + 1 .. n = {} /\ n + 1 .. 0 = {}
      OBVIOUS
    <3> QED
      BY <3>1, <2>1, <1>1, <1>2, <1>3
  <2>3. PassedIsDelivered' /\ PolledNotAhead' /\ WatermarkDelivered'
    BY <2>2, <1>1 DEF PassedIsDelivered, PolledNotAhead, WatermarkDelivered
  <2> QED
    BY <2>1, <2>3, <1>1 DEF Covered
<1>5. CASE floor # Unset
  BY <1>1, <1>2, <1>3, <1>5
  DEF SettledFloor, Covered, PassedIsDelivered, PolledNotAhead, WatermarkDelivered, OnItsWay
<1> QED
  BY <1>4, <1>5

LEMMA CommitBatchCovered == ASSUME WellFormed, Covered, CommitBatch PROVE Covered'
<1>1. /\ pc = "mapping" /\ pc' = "emitting" /\ watermark' = Larger(watermark, upto)
      /\ UNCHANGED <<realm, state, observed, upto>>
      /\ UNCHANGED ghosts
  BY DEF CommitBatch
<1>2. Position(state)' = Position(state) /\ Position(observed)' = Position(observed)
  BY <1>1 DEF Position, realm
<1>3. /\ Position(observed) \in Nat /\ watermark \in Nat /\ upto \in Nat
      /\ floor # Unset => floor \in Nat /\ Position(state) \in Nat
  BY <1>1, Numbers
<1>4. CASE floor = Unset
  BY <1>1, <1>3, <1>4 DEF Covered, Larger, ghosts
<1>5. CASE floor # Unset /\ excused = {}
  <2>1. PassedIsDelivered /\ PolledNotAhead /\ WatermarkDelivered
    BY <1>5 DEF Covered
  <2>2. PassedIsDelivered' /\ PolledNotAhead'
    BY <2>1, <1>1, <1>2 DEF PassedIsDelivered, PolledNotAhead, ghosts
  <2>3. WatermarkDelivered'
    <3> SUFFICES ASSUME NEW m \in floor + 1 .. watermark', m \notin Accounted
                 PROVE  m \in Position(observed) + 1 .. upto
      BY <1>1, <1>2 DEF WatermarkDelivered, OnItsWay, ghosts
    <3>1. m \in Int /\ floor + 1 <= m /\ m <= watermark'
      BY <1>1, <1>3, <1>5 DEF Larger
    <3>2. ~(m <= watermark)
      BY <2>1, <3>1, <1>1, <1>3, <1>5 DEF WatermarkDelivered, OnItsWay
    <3>3. ~(m <= Position(state))
      BY <2>1, <3>1, <1>1, <1>3, <1>5 DEF PassedIsDelivered
    <3>4. Position(observed) <= Position(state)
      BY <2>1, <1>1 DEF PolledNotAhead
    <3> QED
      BY <3>1, <3>2, <3>3, <3>4, <1>1, <1>3, <1>5 DEF Larger
  <2> QED
    BY <2>2, <2>3, <1>1, <1>5 DEF Covered, ghosts
<1>6. CASE floor # Unset /\ excused # {}
  BY <1>1, <1>6 DEF Covered, ghosts
<1> QED
  BY <1>4, <1>5, <1>6

LEMMA EmitBatchCovered == ASSUME WellFormed, Covered, EmitBatch PROVE Covered'
<1>1. /\ pc = "emitting" /\ pc' = "top" /\ floor' = SettledFloor
      /\ state' = [observed EXCEPT !.last = EventId(observed.queue, upto)]
      /\ Accounted' = Accounted \cup (Position(observed) + 1 .. upto)
      /\ UNCHANGED <<realm, watermark, excused>>
  BY DEF EmitBatch, EndStep
<1>2. /\ Position(observed) \in Nat /\ watermark \in Nat /\ upto \in Nat
      /\ floor # Unset => floor \in Nat /\ Position(state) \in Nat
  BY <1>1, Numbers
<1>3. /\ Position(observed) < upto
      /\ born[observed.queue] + EventId(observed.queue, upto) + 1 = upto
  BY <1>1, BatchBounds
<1>4. Position(state)' = upto
  <2>1. state'.queue = observed.queue /\ state'.last = EventId(observed.queue, upto)
    BY <1>1 DEF WellFormed, TypeOK, StepType, ProducerState
  <2> QED
    BY <2>1, <1>1, <1>3 DEF Position, realm
<1>5. CASE floor = Unset
  <2>1. floor' = Position(observed) /\ floor' # Unset
    BY <1>1, <1>2, <1>5 DEF SettledFloor
  <2>2. watermark <= upto
    BY <1>1, <1>2, <1>5 DEF Covered
  <2>3. PassedIsDelivered'
    BY <2>1, <1>1, <1>4 DEF PassedIsDelivered
  <2>4. WatermarkDelivered'
    <3>1. \A m \in Position(observed) + 1 .. watermark : m \in Position(observed) + 1 .. upto
      BY <2>2, <1>2
    <3> QED
      BY <3>1, <2>1, <1>1 DEF WatermarkDelivered, OnItsWay
  <2> QED
    BY <2>1, <2>3, <2>4, <1>1 DEF Covered, PolledNotAhead
<1>6. CASE floor # Unset /\ excused = {}
  <2>1. PassedIsDelivered /\ PolledNotAhead /\ WatermarkDelivered /\ floor' = floor
    BY <1>1, <1>6 DEF Covered, SettledFloor
  <2>2. PassedIsDelivered'
    <3> SUFFICES ASSUME NEW m \in floor + 1 .. upto, m \notin Accounted
                 PROVE  m \in Position(observed) + 1 .. upto
      BY <2>1, <1>1, <1>4 DEF PassedIsDelivered
    <3>1. ~(m <= Position(state))
      BY <2>1, <1>1, <1>2, <1>6 DEF PassedIsDelivered
    <3>2. Position(observed) <= Position(state)
      BY <2>1, <1>1 DEF PolledNotAhead
    <3> QED
      BY <3>1, <3>2, <1>2, <1>6
  <2>3. WatermarkDelivered'
    BY <2>1, <1>1 DEF WatermarkDelivered, OnItsWay
  <2> QED
    BY <2>1, <2>2, <2>3, <1>1, <1>6 DEF Covered, PolledNotAhead
<1>7. CASE floor # Unset /\ excused # {}
  BY <1>1, <1>7 DEF Covered, SettledFloor
<1> QED
  BY <1>5, <1>6, <1>7

LEMMA RecoverRegisterCovered == ASSUME WellFormed, Covered, RecoverRegister PROVE Covered'
<1>1. /\ pc = "expired" /\ pc' = IF watermark = 0 THEN "top" ELSE "replaying"
      /\ excused' = IF watermark = 0 /\ floor # Unset
                      THEN excused \cup {"no-watermark"} ELSE excused
      /\ UNCHANGED <<watermark, floor, Accounted>>
  BY DEF RecoverRegister
<1>2. CASE floor # Unset /\ excused' = {}
  <2>1. excused = {} /\ pc' = "replaying"
    BY <1>1, <1>2
  <2> QED
    BY <2>1, <1>1, <1>2
    DEF Covered, PassedIsDelivered, PolledNotAhead, WatermarkDelivered, OnItsWay
<1>3. CASE floor = Unset \/ excused' # {}
  BY <1>1, <1>3 DEF Covered
<1> QED
  BY <1>2, <1>3

\* The replay starts at the watermark, inclusive, and reaches the present, so
\* it meets both what was handed over and what the fresh queue will carry.
LEMMA ReplayCovered == ASSUME WellFormed, Covered, ReplayGap \/ ReplayFails PROVE Covered'
<1>1. /\ pc = "replaying" /\ pc' = "top"
      /\ UNCHANGED <<realm, watermark, state, floor>>
  BY DEF ReplayGap, ReplayFails
<1>2. watermark # 0 /\ floor # Unset
  BY <1>1 DEF WellFormed, InFlight, Covered
<1>3. CASE ReplayFails
  BY <1>1, <1>2, <1>3 DEF ReplayFails, Covered
<1>4. CASE ReplayGap
  <2>1. Accounted' = Accounted \cup (watermark .. posted) /\ excused' = excused
    BY <1>4, Reaching DEF ReplayGap
  <2>2. Position(state)' = Position(state)
    BY <1>1 DEF Position, realm
  <2>3. /\ watermark \in Nat /\ posted \in Nat /\ floor \in Nat
        /\ Position(state) \in Nat
    BY <1>2, Numbers
  <2>4. CASE excused = {}
    <3>1. WatermarkDelivered
      BY <1>2, <2>4 DEF Covered
    <3>2. WatermarkDelivered'
      BY <3>1, <2>1, <1>1 DEF WatermarkDelivered, OnItsWay
    <3>3. Position(state) <= posted
      <4>1. state.queue \in Queues /\ state.last = -1
        BY <1>1, <1>2, Numbers DEF WellFormed, InFlight
      <4>2. born[state.queue] <= posted /\ born[state.queue] \in Nat
        BY <4>1, ConstantsAssumption
        DEF ConstantsAssumption, WellFormed, QueuesIssued, TypeOK, RealmType
      <4> QED
        BY <4>1, <4>2 DEF Position
    <3>4. PassedIsDelivered'
      BY <3>1, <3>3, <2>1, <2>2, <2>3, <1>1 DEF PassedIsDelivered, WatermarkDelivered, OnItsWay
    <3> QED
      BY <3>2, <3>4, <1>1, <1>2 DEF Covered, PolledNotAhead
  <2> QED
    BY <2>1, <2>4, <1>1, <1>2 DEF Covered
<1> QED
  BY <1>3, <1>4

LEMMA StepAbortsCovered == ASSUME WellFormed, Covered, StepAborts PROVE Covered'
<1>1. /\ pc \notin {"emitting", "replaying"} /\ pc' = "top" /\ state' = state
      /\ UNCHANGED <<realm, watermark>> /\ UNCHANGED ghosts
  BY DEF StepAborts, EndStep
<1>2. Position(state)' = Position(state)
  BY <1>1 DEF Position, realm
<1> QED
  BY <1>1, <1>2
  DEF Covered, PassedIsDelivered, PolledNotAhead, WatermarkDelivered, OnItsWay, ghosts

LEMMA StepCovered == ASSUME WellFormed, Covered, [Next]_vars PROVE Covered'
<1>1. CASE Realm \/ Seat \/ VerdictFallback
  BY <1>1, SurroundingsCovered
<1>2. CASE Producer
  BY <1>1, <1>2, StartStreamCovered, BeginStepCovered, RegisterFreshCovered,
     PollCovered, PollEmptyCovered, CommitBatchCovered, EmitBatchCovered,
     RecoverRegisterCovered, ReplayCovered, StepAbortsCovered
  DEF Producer
<1>3. CASE Restart
  BY <1>3 DEF Restart, Covered
<1>4. CASE UNCHANGED vars
  BY <1>4, CoveredKept DEF vars
<1> QED
  BY <1>1, <1>2, <1>3, <1>4 DEF Next

LEMMA InitCovered == Init => Covered
  BY DEF Init, Covered

\* The watermark, the carried cursor and the polled cursor never pass a message
\* that could still fail to be handed over.
THEOREM CoveredAlways == Spec => []Covered
<1>1. WellFormed /\ Covered /\ [Next]_vars => WellFormed' /\ Covered'
  BY StepWellFormed, StepCovered
<1>2. Init => WellFormed /\ Covered
  BY InitWellFormed, InitCovered
<1> QED
  BY <1>1, <1>2, PTL DEF Spec

\* Through dead queues, failed steps, rebinding and restarts, every message from
\* where the stream opened up to the carried cursor was handed to the pump,
\* unless the producer admitted a loss.
THEOREM NothingIsLostSilently == Spec => []NoSilentLoss
<1>1. Covered /\ PassedOver => NoSilentLoss
  BY AccountedFor DEF Covered, NoSilentLoss, PassedIsDelivered
<1> QED
  BY <1>1, CoveredAlways, PassedOverAlways, PTL

-----------------------------------------------------------------------------
(* What the consumer relies on *)

\* While the stream has no starting point nothing was handed over, and there
\* was nothing to give up.
NothingYet == floor = Unset => delivered = {} /\ beyond = {} /\ excused = {}

Carried == {m \in delivered : floor # Unset /\ m > floor}
Skipped == {m \in beyond : floor # Unset /\ m > floor}

LEMMA InitNothingYet == Init => NothingYet
  BY DEF Init, NothingYet

LEMMA StepNothingYet ==
  ASSUME WellFormed, Covered, NothingYet, [Next]_vars PROVE NothingYet'
<1>1. CASE UNCHANGED <<floor, delivered, beyond, excused>>
  BY <1>1 DEF NothingYet
<1>2. CASE StartStream
  BY <1>2 DEF StartStream, NothingYet, WellFormed, Handed
<1>3. CASE BeginStep
  BY <1>3 DEF BeginStep, LeavesBehind, NothingYet
<1>4. CASE PollEmpty \/ EmitBatch
  <2>1. pc \in {"poll", "emitting"} /\ floor' = SettledFloor
    BY <1>4 DEF PollEmpty, EmitBatch
  <2>2. floor' # Unset
    BY <2>1, Numbers DEF SettledFloor
  <2> QED
    BY <2>2 DEF NothingYet
<1>5. CASE RecoverRegister
  BY <1>5 DEF RecoverRegister, NothingYet
<1>6. CASE ReplayGap \/ ReplayFails
  <2>1. floor # Unset /\ floor' = floor
    BY <1>6 DEF ReplayGap, ReplayFails, Covered, WellFormed, InFlight
  <2> QED
    BY <2>1 DEF NothingYet
<1>7. CASE Restart
  BY <1>7 DEF Restart, NothingYet
<1> QED
  BY <1>1, <1>2, <1>3, <1>4, <1>5, <1>6, <1>7
  DEF Next, vars, Realm, Post, Expire, Seat, FeedSession, Bind, Release, SeatRegisters, Producer,
      RegisterFresh, PollAnswered, PollRefused, CommitBatch, StepAborts, VerdictFallback, ghosts

-----------------------------------------------------------------------------
(* The refinement *)

LEMMA InitImplements == Init => Stream!Init
  BY DEF Init, Stream!Init, Stream!Closed

Safe == WellFormed /\ Covered /\ NothingYet

\* A step that neither hands over, opens, nor gives up is none of the stream's.
LEMMA Stutters ==
  ASSUME UNCHANGED <<posted, floor, delivered, beyond, excused>>
  PROVE  UNCHANGED Stream!vars
  BY DEF Stream!vars

\* Opening the stream, with or without a first batch.
LEMMA Opens ==
  ASSUME Safe, floor = Unset, floor' \in Nat, posted' = posted, beyond' = beyond,
         excused' = excused, NEW n \in 0 .. posted, delivered' = floor' + 1 .. n
  PROVE  Stream!Open
<1>1. Carried = {} /\ Carried' = floor' + 1 .. n
  BY DEF Carried
<1>2. Skipped' = Skipped
  BY DEF Skipped, Safe, NothingYet
<1> QED
  BY <1>1, <1>2 DEF Stream!Open, Stream!Closed, Carried, Skipped

\* Handing over what reaches back to what was accounted for leaves no new hole.
LEMMA HearsOn ==
  ASSUME Safe, floor # Unset, UNCHANGED <<posted, floor, beyond, excused>>, excused = {},
         NEW a \in 0 .. posted, NEW n \in 0 .. posted,
         floor + 1 .. a \subseteq Accounted, delivered' = delivered \cup (a + 1 .. n)
  PROVE  Stream!Hear
<1>1. floor \in Nat /\ posted \in Nat
  BY Numbers DEF Safe
<1>2. \A m \in floor + 1 .. a : m > floor
  BY <1>1
<1>3. floor + 1 .. a \subseteq Carried \cup Skipped
  BY <1>2 DEF Carried, Skipped
<1>4. Carried' = Carried \cup {m \in a + 1 .. n : m > floor}
  BY DEF Carried
<1>5. Skipped' = Skipped
  BY DEF Skipped
<1> QED
  BY <1>3, <1>4, <1>5 DEF Stream!Hear, Stream!After, Stream!Closed, Carried, Skipped

\* After a logged loss nothing is promised but that what is heard was posted.
LEMMA HearsWithHoles ==
  ASSUME Safe, WellFormed', floor # Unset, UNCHANGED <<posted, floor, excused>>, excused # {},
         delivered \subseteq delivered',
         beyond \subseteq beyond', beyond' \subseteq beyond \cup 1 .. posted
  PROVE  Stream!HearWithHoles
<1>1. Carried \subseteq Carried' /\ Carried' \subseteq 1 .. posted
  BY DEF Carried, WellFormed, Handed
<1>2. Skipped \subseteq Skipped' /\ Skipped' \subseteq Skipped \cup 1 .. posted
  BY DEF Skipped
<1> QED
  BY <1>1, <1>2 DEF Stream!HearWithHoles, Carried, Skipped

LEMMA StartStreamImplements ==
  ASSUME Safe, WellFormed', StartStream PROVE Stream!Open \/ UNCHANGED Stream!vars
<1>1. floor = Unset /\ delivered = {} /\ UNCHANGED <<posted, delivered, beyond, excused>>
  BY DEF StartStream, realm, Safe, WellFormed, Handed, NothingYet
<1>2. CASE floor' = Unset
  BY <1>1, <1>2, Stutters
<1>3. CASE floor' # Unset
  <2>1. floor' \in Nat /\ posted \in Nat
    BY <1>3, Numbers, ConstantsAssumption
    DEF ConstantsAssumption, Safe, WellFormed, TypeOK, HistoryType
  <2>2. delivered' = floor' + 1 .. 0
    <3>1. \A n \in Nat : n + 1 .. 0 = {}
      OBVIOUS
    <3> QED
      BY <3>1, <2>1, <1>1
  <2>3. 0 \in 0 .. posted
    BY <2>1
  <2> QED
    BY <1>1, <2>1, <2>2, <2>3, Opens
<1> QED
  BY <1>2, <1>3

LEMMA BeginStepImplements ==
  ASSUME Safe, BeginStep PROVE Stream!Lose \/ UNCHANGED Stream!vars
  BY DEF BeginStep, realm, Stream!Lose, Stream!vars

LEMMA PollEmptyImplements ==
  ASSUME Safe, PollEmpty PROVE Stream!Open \/ UNCHANGED Stream!vars
<1>1. pc = "poll" /\ floor' = SettledFloor /\ UNCHANGED <<posted, delivered, beyond, excused>>
  BY DEF PollEmpty, realm
<1>2. CASE floor = Unset
  <2>1. floor' \in Nat /\ posted \in Nat /\ delivered = {}
    BY <1>1, <1>2, Numbers DEF SettledFloor, Safe, NothingYet
  <2>2. delivered' = floor' + 1 .. 0
    <3>1. \A n \in Nat : n + 1 .. 0 = {}
      OBVIOUS
    <3> QED
      BY <3>1, <2>1, <1>1
  <2>3. 0 \in 0 .. posted
    BY <2>1
  <2> QED
    BY <1>1, <1>2, <2>1, <2>2, <2>3, Opens
<1>3. CASE floor # Unset
  BY <1>1, <1>3, Stutters DEF SettledFloor
<1> QED
  BY <1>2, <1>3

LEMMA EmitBatchImplements ==
  ASSUME Safe, WellFormed', EmitBatch
  PROVE  Stream!Open \/ Stream!Hear \/ Stream!HearWithHoles
<1> DEFINE from == Position(observed)
<1>1. /\ pc = "emitting" /\ floor' = SettledFloor
      /\ delivered' = delivered \cup (from + 1 .. upto) /\ UNCHANGED <<posted, beyond, excused>>
  BY DEF EmitBatch, realm
<1>2. from \in Nat /\ upto \in 0 .. posted
  BY <1>1, Numbers, BatchBounds DEF Safe
<1>3. CASE floor = Unset
  <2>1. floor' = from /\ delivered = {}
    BY <1>1, <1>3 DEF SettledFloor, Safe, NothingYet
  <2> HIDE DEF from
  <2> QED
    BY <1>1, <1>2, <1>3, <2>1, Opens
<1>4. CASE floor # Unset /\ excused = {}
  <2>1. floor' = floor /\ PassedIsDelivered /\ from <= Position(state)
    BY <1>1, <1>4 DEF SettledFloor, Safe, Covered, PolledNotAhead
  <2>2. floor \in Nat /\ Position(state) \in Nat
    BY <1>4, Numbers DEF Safe
  <2>3. floor + 1 .. from \subseteq Accounted
    BY <1>1, <1>2, <2>1, <2>2 DEF PassedIsDelivered
  <2>4. from \in 0 .. posted
    BY <1>1, <1>2, BatchBounds DEF Safe
  <2> HIDE DEF from
  <2> QED
    BY <1>1, <1>2, <1>4, <2>1, <2>3, <2>4, HearsOn
<1>5. CASE floor # Unset /\ excused # {}
  BY <1>1, <1>5, HearsWithHoles DEF SettledFloor
<1> QED
  BY <1>3, <1>4, <1>5

LEMMA RecoverRegisterImplements ==
  ASSUME Safe, RecoverRegister PROVE Stream!Lose \/ UNCHANGED Stream!vars
  BY DEF RecoverRegister, IssueQueue, Stream!Lose, Stream!vars

\* A replay is a catch-up from the watermark, which follows what was heard.
LEMMA ReplayImplements ==
  ASSUME Safe, WellFormed', ReplayGap \/ ReplayFails
  PROVE  Stream!CatchUp \/ Stream!HearWithHoles \/ Stream!Lose
<1>1. /\ pc = "replaying" /\ UNCHANGED <<posted, floor>>
      /\ watermark # 0 /\ floor # Unset
  BY DEF ReplayGap, ReplayFails, realm, Safe, WellFormed, InFlight, Covered
<1>2. CASE ReplayFails
  BY <1>1, <1>2 DEF ReplayFails, Stream!Lose
<1>3. CASE ReplayGap
  <2>1. /\ delivered' = delivered \cup {m \in watermark .. posted : m + ReplayReach > posted}
        /\ beyond' = beyond \cup {m \in watermark .. posted : m + ReplayReach <= posted}
        /\ excused' = excused
    BY <1>3, Reaching DEF ReplayGap, Safe
  <2>2. watermark \in 1 .. posted /\ floor \in Nat /\ posted \in Nat
    BY <1>1, Numbers DEF Safe, WellFormed, Handed
  <2>3. CASE excused = {}
    <3>1. floor + 1 .. watermark - 1 \subseteq Accounted
      BY <1>1, <2>2, <2>3 DEF Safe, Covered, WatermarkDelivered, OnItsWay
    <3>2. \A m \in floor + 1 .. watermark - 1 : m > floor
      BY <2>2
    <3>3. floor + 1 .. watermark - 1 \subseteq Carried \cup Skipped
      BY <3>1, <3>2, <1>1 DEF Carried, Skipped
    <3>4. /\ Carried' = Carried \cup
               {k \in {m \in watermark .. posted : m + ReplayReach > posted} : k > floor}
          /\ Skipped' = Skipped \cup
               {k \in {m \in watermark .. posted : m + ReplayReach <= posted} : k > floor}
      BY <2>1, <1>1 DEF Carried, Skipped
    <3> QED
      BY <1>1, <2>1, <2>2, <2>3, <3>3, <3>4
      DEF Stream!CatchUp, Stream!After, Stream!Closed, Carried, Skipped
  <2>4. CASE excused # {}
    <3>1. {m \in watermark .. posted : m + ReplayReach <= posted} \subseteq 1 .. posted
      BY <2>2
    <3> QED
      BY <3>1, <1>1, <2>1, <2>4, HearsWithHoles
  <2> QED
    BY <2>3, <2>4
<1> QED
  BY <1>2, <1>3

LEMMA RestartImplements == ASSUME Restart PROVE Stream!Close
  BY DEF Restart, realm, Stream!Close, Stream!Closed

LEMMA StepImplements ==
  ASSUME Safe, WellFormed', [Next]_vars PROVE [Stream!Next]_(Stream!vars)
<1>1. CASE Post
  BY <1>1 DEF Post, ghosts, Stream!Next, Stream!Post
<1>2. CASE UNCHANGED <<posted, floor, delivered, beyond, excused>>
  BY <1>2, Stutters
<1>3. CASE StartStream \/ BeginStep \/ PollEmpty \/ EmitBatch
  BY <1>3, StartStreamImplements, BeginStepImplements, PollEmptyImplements, EmitBatchImplements
  DEF Stream!Next
<1>4. CASE RecoverRegister \/ ReplayGap \/ ReplayFails \/ Restart
  BY <1>4, RecoverRegisterImplements, ReplayImplements, RestartImplements DEF Stream!Next
<1> QED
  BY <1>1, <1>2, <1>3, <1>4
  DEF Next, vars, Realm, Expire, Seat, FeedSession, Bind, Release, SeatRegisters, Producer,
      IssueQueue, realm, RegisterFresh, PollAnswered, PollRefused, CommitBatch, StepAborts,
      VerdictFallback, ghosts

\* Dead queues, failed polls and replays, rebinding and restarts are no more to the
\* consumer than the stream of InboxStream: in order, and without a hole but
\* for what a replay could not reach, until the producer logs a loss (events.ts inboxEvents).
THEOREM ProducerImplementsStream == Spec => ImplementsInboxStream
<1>1. Init => Safe
  BY InitWellFormed, InitCovered, InitNothingYet DEF Safe
<1>2. Safe /\ [Next]_vars => Safe'
  BY StepWellFormed, StepCovered, StepNothingYet DEF Safe
<1>3. Safe /\ Safe' /\ [Next]_vars => [Stream!Next]_(Stream!vars)
  BY StepImplements DEF Safe
<1> QED
  BY InitImplements, <1>1, <1>2, <1>3, PTL DEF Spec, ImplementsInboxStream, Stream!Spec

-----------------------------------------------------------------------------
(* From a subscribe on, everything is observed *)

\* From here on a subscribe promises that the stream observes every post.
SubscribedFrom == Larger(born[registration], floor)

\* No cursor is ahead of the present, except where the stream was opened ahead
\* of it, at a persisted cursor.
NoQueueAhead ==
  /\ state.queue # NoQueue => Position(state) <= Larger(posted, floor)
  /\ pc \in {"poll", "mapping", "emitting"} => Position(observed) <= Larger(posted, floor)

\* What Covered says from where the stream opened on, said from the subscribe
\* on, also when a displaced queue was given up: the carried and the polled
\* cursor, and the watermark, have passed nothing younger than the
\* registration that was not handed over.
PassedSinceSubscribed ==
  pc # "replaying" => SubscribedFrom + 1 .. Position(state) \subseteq Accounted
PolledSinceSubscribed ==
  pc \in {"poll", "mapping", "emitting"} =>
    SubscribedFrom + 1 .. Position(observed) \subseteq Accounted
WatermarkSinceSubscribed ==
  SubscribedFrom + 1 .. watermark \subseteq Accounted \cup OnItsWay
Subscribed == registration # NoQueue /\ floor # Unset /\ excused \subseteq {"displaced"}
ObservedSinceSubscribed ==
  Subscribed => PassedSinceSubscribed /\ PolledSinceSubscribed /\ WatermarkSinceSubscribed

\* The numbers this argument compares.
Comparable ==
  /\ registration # NoQueue =>
       /\ registration \in Queues /\ registration <= issued
       /\ born[registration] \in Nat /\ born[registration] <= posted
       /\ SubscribedFrom \in Nat
       /\ born[registration] <= SubscribedFrom /\ floor <= SubscribedFrom
  /\ state.queue # NoQueue =>
       state.queue \in Queues /\ state.queue <= issued /\ Position(state) \in Nat
  /\ floor # Unset => floor \in Nat /\ state.queue # NoQueue
  /\ posted \in Nat /\ floor \in Int /\ Larger(posted, floor) \in Nat
  /\ posted <= Larger(posted, floor) /\ floor <= Larger(posted, floor)

LEMMA SubscribedNumbers == WellFormed => Comparable
<1> SUFFICES ASSUME WellFormed PROVE Comparable
  OBVIOUS
<1> USE ConstantsAssumption DEF ConstantsAssumption, WellFormed, TypeOK
<1>1. /\ posted \in Nat /\ floor \in Int
      /\ floor # Unset => floor \in Nat /\ state.queue # NoQueue
  BY Numbers
<1>2. ASSUME registration # NoQueue
      PROVE  /\ registration \in Queues /\ registration <= issued
             /\ born[registration] \in Nat /\ born[registration] <= posted
  BY <1>2 DEF SeatType, RealmType, QueuesIssued
<1>3. ASSUME state.queue # NoQueue
      PROVE  state.queue \in Queues /\ state.queue <= issued /\ Position(state) \in Nat
  <2>1. state.queue \in Queues /\ state.last \in -1 .. MaxPosts - 1 /\ state.queue <= issued
    BY <1>3 DEF StepType, ProducerState, QueuesIssued
  <2>2. Position(state) \in 0 .. MaxPosts + MaxPosts
    BY <2>1, PositionNat
  <2> QED
    BY <2>1, <2>2
<1> QED
  BY <1>1, <1>2, <1>3 DEF Comparable, SubscribedFrom, Larger

LEMMA SubscribedNumbersNext == WellFormed' => Comparable'
  BY SubscribedNumbers, PTL

LEMMA NothingBetween ==
  \A a, b \in Nat : b <= a => a + 1 .. b = {} /\ \A m \in a + 1 .. b : FALSE
  OBVIOUS

\* Positions survive a step that leaves the cursors and the issued queues alone.
LEMMA CursorsKept ==
  ASSUME WellFormed, UNCHANGED <<state, observed>>,
         \A q \in Queues : q <= issued => born'[q] = born[q]
  PROVE  /\ state.queue # NoQueue => Position(state)' = Position(state)
         /\ pc \in {"poll", "mapping", "emitting"} => Position(observed)' = Position(observed)
<1>1. state.queue # NoQueue => state.queue \in Queues /\ state.queue <= issued
  BY SubscribedNumbers DEF Comparable
<1> QED
  BY <1>1, PositionsKept DEF Position

LEMMA InitObserved == Init => NoQueueAhead /\ ObservedSinceSubscribed
  BY DEF Init, NoQueueAhead, ObservedSinceSubscribed, Subscribed, NoState

\* A step around the producer that keeps the registration.
LEMMA ObservedKept ==
  ASSUME WellFormed, WellFormed', NoQueueAhead, ObservedSinceSubscribed,
         UNCHANGED <<state, observed, pc, floor, watermark, upto, Accounted, excused, registration>>,
         born' = born, posted' >= posted
  PROVE  NoQueueAhead' /\ ObservedSinceSubscribed'
<1>1. /\ Position(state)' = Position(state) /\ Position(observed)' = Position(observed)
      /\ SubscribedFrom' = SubscribedFrom
  BY DEF Position, SubscribedFrom
<1>2. /\ Larger(posted, floor) <= Larger(posted, floor)'
      /\ posted \in Nat /\ posted' \in Nat /\ floor \in Int
  BY SubscribedNumbers, SubscribedNumbersNext DEF Comparable, Larger
<1>3. NoQueueAhead'
  <2>1. state.queue # NoQueue => Position(state) \in Nat
    BY SubscribedNumbers DEF Comparable
  <2>2. pc \in {"poll", "mapping", "emitting"} => Position(observed) \in Nat
    BY Numbers
  <2>3. Larger(posted, floor) \in Int /\ Larger(posted, floor)' \in Int
    BY <1>2 DEF Larger
  <2> HIDE DEF NoQueue
  <2> QED
    BY <1>1, <1>2, <2>1, <2>2, <2>3 DEF NoQueueAhead
<1>4. ObservedSinceSubscribed'
  BY <1>1 DEF ObservedSinceSubscribed, Subscribed, PassedSinceSubscribed,
     PolledSinceSubscribed, WatermarkSinceSubscribed, OnItsWay
<1> QED
  BY <1>3, <1>4

\* A queue registered now is younger than every cursor.
LEMMA SeatRegistersObserved ==
  ASSUME WellFormed, WellFormed', NoQueueAhead, SeatRegisters
  PROVE  NoQueueAhead' /\ ObservedSinceSubscribed'
<1>1. /\ IssueQueue(bound) /\ bound \in Identities \cup {Nobody}
      /\ registration' = NewQueue
      /\ UNCHANGED <<watermark, pc, state, observed, upto, floor, Accounted, excused>>
  BY DEF SeatRegisters, ghosts, WellFormed, TypeOK, SeatType
<1>2. /\ posted' = posted /\ born'[NewQueue] = posted
      /\ \A q \in Queues : q <= issued => born'[q] = born[q]
  BY <1>1, Issuing
<1>3. /\ state.queue # NoQueue => Position(state)' = Position(state)
      /\ pc \in {"poll", "mapping", "emitting"} => Position(observed)' = Position(observed)
  BY <1>1, <1>2, CursorsKept
<1>4. NoQueueAhead'
  BY <1>1, <1>2, <1>3 DEF NoQueueAhead
<1>5. SubscribedFrom' = Larger(posted, floor) /\ watermark <= posted
  BY <1>1, <1>2 DEF SubscribedFrom, WellFormed, Handed
<1>6. /\ Larger(posted, floor) \in Nat /\ posted <= Larger(posted, floor)
      /\ watermark \in Nat /\ posted \in Nat
  BY SubscribedNumbers, Numbers DEF Comparable
<1>7. floor # Unset => Position(state) \in Nat /\ Position(state) <= Larger(posted, floor)
  BY Numbers DEF NoQueueAhead, WellFormed, Handed
<1>8. pc \in {"poll", "mapping", "emitting"} =>
        Position(observed) \in Nat /\ Position(observed) <= Larger(posted, floor)
  BY Numbers DEF NoQueueAhead
<1>10. SubscribedFrom' + 1 .. watermark = {}
  <2>1. watermark <= Larger(posted, floor)
    BY <1>5, <1>6
  <2> QED
    BY <2>1, <1>5, <1>6, NothingBetween
<1>11. floor # Unset => SubscribedFrom' + 1 .. Position(state)' = {}
  BY <1>3, <1>5, <1>6, <1>7, NothingBetween, Numbers
<1>12. pc \in {"poll", "mapping", "emitting"} => SubscribedFrom' + 1 .. Position(observed)' = {}
  BY <1>3, <1>5, <1>6, <1>8, NothingBetween
<1> QED
  BY <1>1, <1>4, <1>10, <1>11, <1>12
  DEF ObservedSinceSubscribed, Subscribed, PassedSinceSubscribed, PolledSinceSubscribed,
      WatermarkSinceSubscribed

LEMMA StartStreamObserved ==
  ASSUME WellFormed, WellFormed', StartStream
  PROVE  NoQueueAhead' /\ ObservedSinceSubscribed'
<1> DEFINE resumed == IF HooksWired THEN store ELSE NoCursor
           initial == IF resumed.queue # NoQueue THEN resumed ELSE Fresh(registration)
<1>1. /\ state' = [queue |-> initial.queue, last |-> initial.last, seen |-> registration]
      /\ floor' = IF initial.queue # NoQueue THEN Position(initial) ELSE Unset
      /\ pc' = "top" /\ born' = born /\ watermark' = 0
  BY DEF StartStream, realm, WellFormed, Handed
<1>2. state'.queue # NoQueue => floor' # Unset /\ Position(state)' = floor'
  <2>1. state'.queue # NoQueue => Position(state)' = floor'
    BY <1>1 DEF Position
  <2>2. state'.queue # NoQueue => Position(state)' \in Nat
    BY SubscribedNumbersNext DEF Comparable
  <2> QED
    BY <2>1, <2>2
<1>3. floor' # Unset => state'.queue # NoQueue
  BY DEF WellFormed, Handed
<1>4. NoQueueAhead'
  <2>1. floor' <= Larger(posted, floor)'
    BY SubscribedNumbersNext DEF Comparable
  <2> QED
    BY <1>1, <1>2, <2>1 DEF NoQueueAhead
<1>5. ASSUME Subscribed'
      PROVE  /\ \A m \in SubscribedFrom' + 1 .. Position(state)' : FALSE
             /\ \A m \in SubscribedFrom' + 1 .. watermark' : FALSE
  <2>1. floor' <= SubscribedFrom' /\ SubscribedFrom' \in Nat
    BY <1>5, SubscribedNumbersNext DEF Comparable, Subscribed
  <2>2. Position(state)' = floor' /\ floor' \in Nat
    <3>1. floor' # Unset
      BY <1>5 DEF Subscribed
    <3> QED
      BY <3>1, <1>2, <1>3, SubscribedNumbersNext DEF Comparable
  <2>3. \A n \in Nat : n <= SubscribedFrom' => \A m \in SubscribedFrom' + 1 .. n : FALSE
    BY <2>1, NothingBetween
  <2>4. \A m \in SubscribedFrom' + 1 .. floor' : FALSE
    BY <2>1, <2>2, <2>3
  <2>5. 0 \in Nat /\ 0 <= SubscribedFrom'
    BY <2>1
  <2>6. \A m \in SubscribedFrom' + 1 .. 0 : FALSE
    BY <2>3, <2>5
  <2> QED
    BY <2>2, <2>4, <2>6, <1>1
<1> QED
  BY <1>1, <1>4, <1>5
  DEF ObservedSinceSubscribed, PassedSinceSubscribed, PolledSinceSubscribed,
      WatermarkSinceSubscribed

\* An adopted queue starts where the registration does.
LEMMA BeginStepObserved ==
  ASSUME WellFormed, Covered, NoQueueAhead, ObservedSinceSubscribed, BeginStep
  PROVE  NoQueueAhead' /\ ObservedSinceSubscribed'
<1>1. /\ pc = "top" /\ observed' = Adopted
      /\ pc' = IF observed'.queue = NoQueue THEN "register" ELSE "poll"
      /\ excused \subseteq excused'
      /\ UNCHANGED <<state, floor, watermark, Accounted, registration, posted, born>>
  BY DEF BeginStep, realm, seat
<1>2. /\ Position(state)' = Position(state) /\ SubscribedFrom' = SubscribedFrom
  BY <1>1 DEF Position, SubscribedFrom
<1>3. Comparable
  BY SubscribedNumbers
<1>4. ASSUME Changed
      PROVE  /\ Position(observed)' = born[registration]
             /\ registration # NoQueue
  <2>1. observed' = [queue |-> registration, last |-> -1, seen |-> registration]
        /\ registration # NoQueue
    BY <1>1, <1>4 DEF Adopted, Changed
  <2>2. Position(observed)' = born[registration] + (-1) + 1
    BY <2>1, <1>1 DEF Position
  <2> QED
    BY <2>1, <2>2, <1>3 DEF Comparable
<1>5. ASSUME ~Changed, pc' = "poll"
      PROVE  Position(observed)' = Position(state) /\ state.queue # NoQueue
  BY <1>1, <1>5 DEF Adopted, Position
<1>6. NoQueueAhead'
  <2>1. pc' = "poll" => Position(observed)' <= Larger(posted, floor)
    <3>1. CASE Changed
      BY <1>3, <1>4, <3>1 DEF Comparable
    <3>2. CASE ~Changed
      BY <1>5, <3>2 DEF NoQueueAhead
    <3> QED
      BY <3>1, <3>2
  <2> QED
    BY <1>1, <1>2, <2>1 DEF NoQueueAhead
<1>7. ASSUME Subscribed'
      PROVE  PassedSinceSubscribed' /\ PolledSinceSubscribed' /\ WatermarkSinceSubscribed'
  <2>1. PassedSinceSubscribed /\ WatermarkSinceSubscribed
    BY <1>1, <1>7 DEF ObservedSinceSubscribed, Subscribed
  <2>2. PassedSinceSubscribed' /\ WatermarkSinceSubscribed'
    BY <2>1, <1>1, <1>2 DEF PassedSinceSubscribed, WatermarkSinceSubscribed, OnItsWay
  <2>3. pc' = "poll" => SubscribedFrom + 1 .. Position(observed)' \subseteq Accounted
    <3>1. CASE Changed
      BY <1>3, <1>4, <3>1, NothingBetween DEF Comparable
    <3>2. CASE ~Changed
      BY <1>1, <1>5, <3>2, <2>1 DEF PassedSinceSubscribed
    <3> QED
      BY <3>1, <3>2
  <2>4. PolledSinceSubscribed'
    BY <2>3, <1>1, <1>2 DEF PolledSinceSubscribed
  <2> QED
    BY <2>2, <2>4
<1> QED
  BY <1>6, <1>7 DEF ObservedSinceSubscribed

\* A producer that registers for itself has no starting point yet.
LEMMA RegisterFreshObserved ==
  ASSUME WellFormed, WellFormed', Covered, NoQueueAhead, RegisterFresh
  PROVE  NoQueueAhead' /\ ObservedSinceSubscribed'
<1>1. /\ IssueQueue(bound) /\ bound \in Identities \cup {Nobody}
      /\ observed' = [observed EXCEPT !.queue = NewQueue, !.last = -1]
      /\ floor' = Unset /\ floor = Unset /\ pc' = "poll" /\ state' = state
  BY DEF RegisterFresh, Covered, ghosts, WellFormed, TypeOK, SeatType
<1>2. /\ posted' = posted /\ posted \in Nat /\ born'[NewQueue] = posted
      /\ \A q \in Queues : q <= issued => born'[q] = born[q]
  BY <1>1, Issuing, Numbers
<1>3. Position(observed)' = posted
  <2>1. observed'.queue = NewQueue /\ observed'.last = -1
    BY <1>1 DEF WellFormed, TypeOK, StepType, ProducerState
  <2> QED
    BY <2>1, <1>2 DEF Position
<1>4. state.queue # NoQueue => Position(state)' = Position(state)
  <2>1. state.queue # NoQueue => state.queue \in Queues /\ state.queue <= issued
    BY SubscribedNumbers DEF Comparable
  <2> QED
    BY <2>1, <1>1, <1>2 DEF Position
<1>5. NoQueueAhead'
  BY <1>1, <1>2, <1>3, <1>4, SubscribedNumbers DEF NoQueueAhead, Comparable
<1> QED
  BY <1>1, <1>5 DEF ObservedSinceSubscribed, Subscribed

\* Polling, committing and giving up a step move no cursor.
LEMMA PollObserved ==
  ASSUME WellFormed, NoQueueAhead, ObservedSinceSubscribed, PollAnswered \/ PollRefused
  PROVE  NoQueueAhead' /\ ObservedSinceSubscribed'
<1>1. /\ pc = "poll" /\ pc' \in {"mapping", "expired"}
      /\ UNCHANGED <<posted, born, registration, watermark, state, observed>>
      /\ UNCHANGED ghosts
  BY DEF PollAnswered, PollRefused, realm, seat
<1>2. /\ Position(state)' = Position(state) /\ Position(observed)' = Position(observed)
      /\ SubscribedFrom' = SubscribedFrom
  BY <1>1 DEF Position, SubscribedFrom, ghosts
<1> QED
  BY <1>1, <1>2
  DEF NoQueueAhead, ObservedSinceSubscribed, Subscribed, PassedSinceSubscribed,
      PolledSinceSubscribed, WatermarkSinceSubscribed, OnItsWay, ghosts

LEMMA StepAbortsObserved ==
  ASSUME WellFormed, NoQueueAhead, ObservedSinceSubscribed, StepAborts
  PROVE  NoQueueAhead' /\ ObservedSinceSubscribed'
<1>1. /\ pc \notin {"emitting", "replaying"} /\ pc' = "top" /\ state' = state
      /\ UNCHANGED <<posted, born, registration, watermark>> /\ UNCHANGED ghosts
  BY DEF StepAborts, EndStep, realm, seat
<1>2. Position(state)' = Position(state) /\ SubscribedFrom' = SubscribedFrom
  BY <1>1 DEF Position, SubscribedFrom, ghosts
<1> QED
  BY <1>1, <1>2
  DEF NoQueueAhead, ObservedSinceSubscribed, Subscribed, PassedSinceSubscribed,
      PolledSinceSubscribed, WatermarkSinceSubscribed, OnItsWay, ghosts

LEMMA CommitBatchObserved ==
  ASSUME WellFormed, NoQueueAhead, ObservedSinceSubscribed, CommitBatch
  PROVE  NoQueueAhead' /\ ObservedSinceSubscribed'
<1>1. /\ pc = "mapping" /\ pc' = "emitting" /\ watermark' = Larger(watermark, upto)
      /\ UNCHANGED <<posted, born, registration, state, observed, upto>>
      /\ UNCHANGED ghosts
  BY DEF CommitBatch, realm, seat
<1>2. /\ Position(state)' = Position(state) /\ Position(observed)' = Position(observed)
      /\ SubscribedFrom' = SubscribedFrom
  BY <1>1 DEF Position, SubscribedFrom, ghosts
<1>3. NoQueueAhead'
  BY <1>1, <1>2 DEF NoQueueAhead, ghosts
<1>4. ASSUME Subscribed'
      PROVE  PassedSinceSubscribed' /\ PolledSinceSubscribed' /\ WatermarkSinceSubscribed'
  <2>1. PassedSinceSubscribed /\ PolledSinceSubscribed /\ WatermarkSinceSubscribed
    BY <1>1, <1>4 DEF ObservedSinceSubscribed, Subscribed, ghosts
  <2>2. PassedSinceSubscribed' /\ PolledSinceSubscribed'
    BY <2>1, <1>1, <1>2 DEF PassedSinceSubscribed, PolledSinceSubscribed, ghosts
  <2>3. /\ SubscribedFrom \in Nat /\ Position(observed) \in Nat
        /\ watermark \in Nat /\ upto \in Nat
    BY <1>1, <1>4, Numbers, SubscribedNumbers DEF Comparable, Subscribed
  <2>4. WatermarkSinceSubscribed'
    <3> SUFFICES ASSUME NEW m \in SubscribedFrom + 1 .. watermark', m \notin Accounted
                 PROVE  m \in Position(observed) + 1 .. upto
      BY <1>1, <1>2 DEF WatermarkSinceSubscribed, OnItsWay, ghosts
    <3>1. m \in Int /\ SubscribedFrom + 1 <= m /\ (m <= watermark \/ m <= upto)
      BY <1>1, <2>3 DEF Larger
    <3>2. ~(m <= watermark)
      BY <2>1, <2>3, <3>1, <1>1 DEF WatermarkSinceSubscribed, OnItsWay
    <3>3. ~(m <= Position(observed))
      BY <2>1, <2>3, <3>1, <1>1 DEF PolledSinceSubscribed
    <3> QED
      BY <3>1, <3>2, <3>3, <2>3
  <2> QED
    BY <2>2, <2>4
<1> QED
  BY <1>3, <1>4 DEF ObservedSinceSubscribed

LEMMA PollEmptyObserved ==
  ASSUME WellFormed, WellFormed', Covered, NoQueueAhead, ObservedSinceSubscribed, PollEmpty
  PROVE  NoQueueAhead' /\ ObservedSinceSubscribed'
<1>1. /\ pc = "poll" /\ pc' = "top" /\ state' = observed /\ floor' = SettledFloor
      /\ UNCHANGED <<posted, born, registration, watermark, Accounted, excused>>
  BY DEF PollEmpty, EndStep, realm, seat
<1>2. Position(state)' = Position(observed) /\ Position(observed) \in Nat
  BY <1>1, Numbers DEF Position
<1>3. Comparable'
  BY SubscribedNumbersNext
<1>4. NoQueueAhead'
  <2>1. CASE floor = Unset
    BY <2>1, <1>1, <1>2, <1>3 DEF NoQueueAhead, SettledFloor, Comparable
  <2>2. CASE floor # Unset
    BY <2>2, <1>1, <1>2 DEF NoQueueAhead, SettledFloor
  <2> QED
    BY <2>1, <2>2
<1>5. ASSUME Subscribed'
      PROVE  PassedSinceSubscribed' /\ WatermarkSinceSubscribed'
  <2>1. CASE floor = Unset
    <3>1. floor' = Position(observed) /\ watermark' = 0
      BY <2>1, <1>1 DEF SettledFloor, Covered
    <3>2. SubscribedFrom' \in Nat /\ floor' <= SubscribedFrom'
      BY <1>3, <1>5 DEF Comparable, Subscribed
    <3>3. \A n \in Nat : n <= SubscribedFrom' => \A m \in SubscribedFrom' + 1 .. n : FALSE
      BY <3>2, NothingBetween
    <3>4. \A m \in SubscribedFrom' + 1 .. Position(observed) : FALSE
      BY <3>1, <3>2, <3>3, <1>2
    <3>5. 0 \in Nat /\ 0 <= SubscribedFrom'
      BY <3>2
    <3>6. \A m \in SubscribedFrom' + 1 .. 0 : FALSE
      BY <3>3, <3>5
    <3> QED
      BY <3>1, <3>4, <3>6, <1>1, <1>2 DEF PassedSinceSubscribed, WatermarkSinceSubscribed
  <2>2. CASE floor # Unset
    <3>1. floor' = floor /\ SubscribedFrom' = SubscribedFrom
      BY <2>2, <1>1 DEF SettledFloor, SubscribedFrom
    <3>2. PolledSinceSubscribed /\ WatermarkSinceSubscribed
      BY <3>1, <2>2, <1>1, <1>5 DEF ObservedSinceSubscribed, Subscribed
    <3> QED
      BY <3>1, <3>2, <1>1, <1>2
      DEF PassedSinceSubscribed, PolledSinceSubscribed, WatermarkSinceSubscribed, OnItsWay
  <2> QED
    BY <2>1, <2>2
<1> QED
  BY <1>1, <1>4, <1>5 DEF ObservedSinceSubscribed, PolledSinceSubscribed

LEMMA EmitBatchObserved ==
  ASSUME WellFormed, WellFormed', Covered, NoQueueAhead, ObservedSinceSubscribed, EmitBatch
  PROVE  NoQueueAhead' /\ ObservedSinceSubscribed'
<1>1. /\ pc = "emitting" /\ pc' = "top" /\ floor' = SettledFloor
      /\ state' = [observed EXCEPT !.last = EventId(observed.queue, upto)]
      /\ Accounted' = Accounted \cup (Position(observed) + 1 .. upto)
      /\ UNCHANGED <<posted, born, registration, watermark, excused>>
  BY DEF EmitBatch, EndStep, realm, seat
<1>2. /\ Position(observed) \in Nat /\ upto \in Nat /\ upto <= posted
      /\ born[observed.queue] + EventId(observed.queue, upto) + 1 = upto
  BY <1>1, Numbers, BatchBounds DEF WellFormed, InFlight
<1>3. Position(state)' = upto
  <2>1. state'.queue = observed.queue /\ state'.last = EventId(observed.queue, upto)
    BY <1>1 DEF WellFormed, TypeOK, StepType, ProducerState
  <2> QED
    BY <2>1, <1>1, <1>2 DEF Position
<1>4. Comparable /\ Comparable' /\ watermark \in Nat
  BY SubscribedNumbers, SubscribedNumbersNext, Numbers
<1>5. NoQueueAhead'
  BY <1>1, <1>2, <1>3, <1>4 DEF NoQueueAhead, Comparable
<1>6. ASSUME Subscribed'
      PROVE  PassedSinceSubscribed' /\ WatermarkSinceSubscribed'
  <2>1. SubscribedFrom' \in Nat /\ floor' <= SubscribedFrom' /\ floor' \in Nat
    BY <1>4, <1>6 DEF Comparable, Subscribed
  <2>2. CASE floor = Unset
    <3>1. floor' = Position(observed) /\ watermark <= upto
      BY <2>2, <1>1, <1>2, <1>4 DEF SettledFloor, Covered
    <3>2. \A n \in Nat : n <= upto =>
            \A m \in SubscribedFrom' + 1 .. n : m \in Position(observed) + 1 .. upto
      <4>1. \A s, p, u \in Nat : p <= s =>
              \A n \in Nat : n <= u => \A m \in s + 1 .. n : m \in p + 1 .. u
        OBVIOUS
      <4> QED
        BY <4>1, <2>1, <3>1, <1>2
    <3>3. \A m \in SubscribedFrom' + 1 .. upto : m \in Position(observed) + 1 .. upto
      BY <3>2, <1>2
    <3>4. \A m \in SubscribedFrom' + 1 .. watermark : m \in Position(observed) + 1 .. upto
      BY <3>1, <3>2, <1>4
    <3> QED
      BY <3>3, <3>4, <1>1, <1>3 DEF PassedSinceSubscribed, WatermarkSinceSubscribed
  <2>3. CASE floor # Unset
    <3>1. floor' = floor /\ SubscribedFrom' = SubscribedFrom
      BY <2>3, <1>1 DEF SettledFloor, SubscribedFrom
    <3>2. PolledSinceSubscribed /\ WatermarkSinceSubscribed
      BY <3>1, <2>3, <1>1, <1>6 DEF ObservedSinceSubscribed, Subscribed
    <3>3. WatermarkSinceSubscribed'
      BY <3>1, <3>2, <1>1 DEF WatermarkSinceSubscribed, OnItsWay
    <3>4. PassedSinceSubscribed'
      <4> SUFFICES ASSUME NEW m \in SubscribedFrom + 1 .. upto, m \notin Accounted
                   PROVE  m \in Position(observed) + 1 .. upto
        BY <3>1, <1>1, <1>3 DEF PassedSinceSubscribed
      <4>1. ~(m <= Position(observed))
        BY <3>1, <3>2, <2>1, <1>1, <1>2 DEF PolledSinceSubscribed
      <4> QED
        BY <4>1, <3>1, <2>1, <1>2
    <3> QED
      BY <3>3, <3>4
  <2> QED
    BY <2>2, <2>3
<1> QED
  BY <1>1, <1>5, <1>6 DEF ObservedSinceSubscribed, PolledSinceSubscribed

\* A fresh queue is registered at the present; without a watermark the gap is
\* given up with an excuse a subscribe does not admit.
LEMMA RecoverRegisterObserved ==
  ASSUME WellFormed, WellFormed', NoQueueAhead, ObservedSinceSubscribed, RecoverRegister
  PROVE  NoQueueAhead' /\ ObservedSinceSubscribed'
<1>1. /\ IssueQueue(bound) /\ bound \in Identities \cup {Nobody}
      /\ pc = "expired" /\ pc' = IF watermark = 0 THEN "top" ELSE "replaying"
      /\ state' = [state EXCEPT !.queue = NewQueue, !.last = -1]
      /\ excused' = IF watermark = 0 /\ floor # Unset
                      THEN excused \cup {"no-watermark"} ELSE excused
      /\ UNCHANGED <<registration, watermark, floor, Accounted>>
  BY DEF RecoverRegister, seat, WellFormed, TypeOK, SeatType
<1>2. /\ posted' = posted /\ posted \in Nat /\ born'[NewQueue] = posted
      /\ \A q \in Queues : q <= issued => born'[q] = born[q]
  BY <1>1, Issuing, Numbers
<1>3. Position(state)' = posted
  <2>1. state'.queue = NewQueue /\ state'.last = -1
    BY <1>1 DEF WellFormed, TypeOK, StepType, ProducerState
  <2> QED
    BY <2>1, <1>2 DEF Position
<1>4. NoQueueAhead'
  BY <1>1, <1>2, <1>3, SubscribedNumbers DEF NoQueueAhead, Comparable
<1>5. ASSUME Subscribed'
      PROVE  pc' = "replaying" /\ WatermarkSinceSubscribed'
  <2>1. pc' = "replaying" /\ Subscribed
    BY <1>1, <1>5 DEF Subscribed
  <2>2. WatermarkSinceSubscribed
    BY <2>1 DEF ObservedSinceSubscribed
  <2>3. SubscribedFrom' = SubscribedFrom
    BY <2>1, <1>1, <1>2, SubscribedNumbers DEF SubscribedFrom, Subscribed, Comparable
  <2> QED
    BY <2>1, <2>2, <2>3, <1>1 DEF WatermarkSinceSubscribed, OnItsWay
<1> QED
  BY <1>1, <1>4, <1>5
  DEF ObservedSinceSubscribed, PassedSinceSubscribed, PolledSinceSubscribed

LEMMA ReplayObserved ==
  ASSUME WellFormed, Covered, NoQueueAhead, ObservedSinceSubscribed, ReplayGap \/ ReplayFails
  PROVE  NoQueueAhead' /\ ObservedSinceSubscribed'
<1>1. /\ pc = "replaying" /\ pc' = "top"
      /\ UNCHANGED <<posted, born, registration, watermark, state, floor>>
  BY DEF ReplayGap, ReplayFails, realm, seat
<1>2. Position(state)' = Position(state) /\ SubscribedFrom' = SubscribedFrom
  BY <1>1 DEF Position, SubscribedFrom
<1>3. NoQueueAhead'
  BY <1>1, <1>2 DEF NoQueueAhead
<1>4. CASE ReplayFails
  BY <1>1, <1>3, <1>4 DEF ReplayFails, ObservedSinceSubscribed, Subscribed
<1>5. CASE ReplayGap
  <2>1. Accounted' = Accounted \cup (watermark .. posted) /\ excused' = excused
    BY <1>5, Reaching DEF ReplayGap
  <2>2. ASSUME Subscribed'
        PROVE  PassedSinceSubscribed' /\ WatermarkSinceSubscribed'
    <3>1. WatermarkSinceSubscribed
      BY <2>1, <2>2, <1>1 DEF ObservedSinceSubscribed, Subscribed
    <3>2. SubscribedFrom + 1 .. watermark \subseteq Accounted
      BY <3>1, <1>1 DEF WatermarkSinceSubscribed, OnItsWay
    <3>3. /\ SubscribedFrom \in Nat /\ watermark \in Nat /\ posted \in Nat
          /\ Position(state) \in Nat
      BY <2>2, <1>1, Numbers, SubscribedNumbers DEF Subscribed, Comparable
    <3>4. Position(state) <= posted
      <4>1. state.queue \in Queues /\ state.last = -1
        BY <2>2, <1>1, Numbers DEF WellFormed, InFlight, Subscribed
      <4>2. born[state.queue] <= posted /\ born[state.queue] \in Nat
        BY <4>1, ConstantsAssumption
        DEF ConstantsAssumption, WellFormed, QueuesIssued, TypeOK, RealmType
      <4> QED
        BY <4>1, <4>2 DEF Position
    <3>5. SubscribedFrom + 1 .. Position(state) \subseteq Accounted'
      BY <3>2, <3>3, <3>4, <2>1
    <3> QED
      BY <3>2, <3>5, <2>1, <1>1, <1>2 DEF PassedSinceSubscribed, WatermarkSinceSubscribed
  <2> QED
    BY <2>2, <1>1, <1>3 DEF ObservedSinceSubscribed, PolledSinceSubscribed
<1> QED
  BY <1>4, <1>5

LEMMA StepObserved ==
  ASSUME WellFormed, WellFormed', Covered, NoQueueAhead, ObservedSinceSubscribed, [Next]_vars
  PROVE  NoQueueAhead' /\ ObservedSinceSubscribed'
<1>1. CASE SeatRegisters
  BY <1>1, SeatRegistersObserved
<1>2. CASE Realm \/ FeedSession \/ Release \/ VerdictFallback \/ UNCHANGED vars
           \/ \E i \in Identities : Bind(i)
  <2>1. /\ UNCHANGED <<state, observed, pc, floor, watermark, upto, Accounted, excused, registration>>
        /\ born' = born /\ posted' \in {posted, posted + 1}
    BY <1>2 DEF Realm, Post, Expire, FeedSession, Release, Bind, VerdictFallback, vars,
         ghosts, realm, seat
  <2>2. posted' >= posted
    BY <2>1, Numbers
  <2> QED
    BY <2>1, <2>2, ObservedKept
<1>3. CASE Producer
  BY <1>2, <1>3, StartStreamObserved, BeginStepObserved, RegisterFreshObserved,
     PollObserved, PollEmptyObserved, CommitBatchObserved, EmitBatchObserved,
     RecoverRegisterObserved, ReplayObserved, StepAbortsObserved
  DEF Producer
<1>4. CASE Restart
  BY <1>4 DEF Restart, NoQueueAhead, ObservedSinceSubscribed, Subscribed, NoState
<1> QED
  BY <1>1, <1>2, <1>3, <1>4 DEF Next, Seat

\* From the moment subscribe() has its queue on (adapter.ts
\* ensureQueueRegistered), the stream observes every later post: whatever
\* queue the producer was polling, however often queues die and steps fail,
\* and when it gives up a surviving queue for the registration.
THEOREM SubscribeIsHonoured == Spec => []SubscribeIsObserved
<1> DEFINE IInv == WellFormed /\ Covered /\ NoQueueAhead /\ ObservedSinceSubscribed /\ PassedOver
<1>1. Init => IInv
  BY InitWellFormed, InitCovered, InitObserved DEF Init, PassedOver
<1>2. IInv /\ [Next]_vars => IInv'
  BY StepWellFormed, StepCovered, StepObserved, StepPassedOver
<1>3. IInv => SubscribeIsObserved
  BY AccountedFor DEF ObservedSinceSubscribed, Subscribed, PassedSinceSubscribed, SubscribedFrom,
     SubscribeIsObserved
<1> QED
  BY <1>1, <1>2, <1>3, PTL DEF Spec

-----------------------------------------------------------------------------
(* The queue left to be resumed *)

\* Until the stream starts, a queue left by the previous process is on record
\* as it was left, and the resume verdict is still pending.
CandidateHeld ==
  pc = "boot" /\ left.queue # NoQueue => store = left /\ verdict = "pending"

LEMMA StepCandidate == ASSUME CandidateHeld, [Next]_vars PROVE CandidateHeld'
<1>1. CASE SeatRegisters
  BY <1>1 DEF SeatRegisters, OnQueueRegister, CandidateHeld, ghosts
<1>2. CASE Restart
  BY <1>2 DEF Restart, BootVerdict, CandidateHeld
<1>3. CASE VerdictFallback
  BY <1>3 DEF VerdictFallback, CandidateHeld
<1>4. CASE Realm \/ FeedSession \/ Release \/ UNCHANGED vars \/ \E i \in Identities : Bind(i)
  BY <1>4 DEF Realm, Post, Expire, FeedSession, Release, Bind, vars, CandidateHeld,
     ghosts, hooks
<1>5. CASE Producer /\ ~VerdictFallback
  <2>1. pc' # "boot"
    BY <1>5 DEF Producer, StartStream, BeginStep, RegisterFresh, PollAnswered, PollEmpty,
       PollRefused, CommitBatch, EmitBatch, RecoverRegister, ReplayGap, ReplayFails,
       StepAborts, EndStep
  <2> QED
    BY <2>1 DEF CandidateHeld
<1> QED
  BY <1>1, <1>2, <1>3, <1>4, <1>5 DEF Next, Seat

\* No subscribe, bind or registration before the stream starts overwrites the
\* queue the previous process left (queue-state-hooks.ts onQueueRegister).
THEOREM CandidateIsKept == Spec => []CandidateSurvivesBoot
<1>1. Init => CandidateHeld
  BY DEF Init, CandidateHeld, NoCursor
<1>2. CandidateHeld => CandidateSurvivesBoot
  BY DEF CandidateHeld, CandidateSurvivesBoot
<1> QED
  BY <1>1, <1>2, StepCandidate, PTL DEF Spec
=============================================================================
