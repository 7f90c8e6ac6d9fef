----------------------------- MODULE InboxStream -----------------------------
(***************************************************************************)
(* What `inbox.events()` gives its one consumer, the event pump: from the  *)
(* message the stream opened at, the consumer hears every message, in      *)
(* order and without a hole, with two exceptions.  The producer may give   *)
(* up a stretch of the log for a reason it knows of and logs (a failed gap *)
(* replay, no watermark to replay from, a queue displaced by a later       *)
(* registration); after that nothing is promised.  And a catch-up reaches  *)
(* back over no more than the `Reach` newest messages: what is older is    *)
(* passed over in silence, and only that.                                  *)
(*                                                                         *)
(* Messages are numbered by the order in which the realm accepted them.    *)
(* EventProducer implements this specification.                            *)
(***************************************************************************)
EXTENDS Integers

CONSTANT Reach   \* how many of the newest messages a catch-up covers

VARIABLES
  posted,   \* how many messages the realm has accepted
  from,     \* the stream carries messages from+1, from+2, ...; -1: not open
  heard,    \* the messages after `from` handed to the consumer
  skipped,  \* the messages after `from` that a catch-up did not reach
  lossy     \* the producer has given up a stretch of the log

vars == <<posted, from, heard, skipped, lossy>>

Closed == -1
After(messages) == {m \in messages : m > from}

Init ==
  /\ posted = 0
  /\ from = Closed
  /\ heard = {} /\ skipped = {}
  /\ lossy = FALSE

Post ==
  /\ posted' = posted + 1
  /\ UNCHANGED <<from, heard, skipped, lossy>>

\* A process starts its stream, or a restarted one starts over: nothing heard.
Close ==
  /\ from' = Closed
  /\ heard' = {} /\ skipped' = {}
  /\ lossy' = FALSE
  /\ UNCHANGED posted

\* The producer settles on a starting point, possibly with a first batch.
Open ==
  /\ from = Closed
  /\ from' # Closed
  /\ \E n \in 0 .. posted : heard' = from' + 1 .. n
  /\ UNCHANGED <<posted, skipped, lossy>>

\* The consumer hears the next stretch of the log: what lies before it was heard
\* or passed over, so there is never a hole of another kind.
Hear ==
  /\ from # Closed
  /\ ~lossy
  /\ \E a, n \in 0 .. posted :
       /\ from + 1 .. a \subseteq heard \cup skipped
       /\ heard' = heard \cup After(a + 1 .. n)
  /\ UNCHANGED <<posted, from, skipped, lossy>>

\* A catch-up from some message to the present hears the newest of that stretch.
CatchUp ==
  /\ from # Closed
  /\ ~lossy
  /\ \E a \in 1 .. posted :
       /\ from + 1 .. a - 1 \subseteq heard \cup skipped
       /\ heard' = heard \cup After({m \in a .. posted : m + Reach > posted})
       /\ skipped' = skipped \cup After({m \in a .. posted : m + Reach <= posted})
  /\ UNCHANGED <<posted, from, lossy>>

\* After an admitted loss only this much remains: what is heard was posted.
HearWithHoles ==
  /\ lossy
  /\ heard \subseteq heard' /\ heard' \subseteq heard \cup 1 .. posted
  /\ skipped \subseteq skipped' /\ skipped' \subseteq skipped \cup 1 .. posted
  /\ UNCHANGED <<posted, from, lossy>>

Lose ==
  /\ lossy' = TRUE
  /\ UNCHANGED <<posted, from, heard, skipped>>

Next == Post \/ Close \/ Open \/ Hear \/ CatchUp \/ HearWithHoles \/ Lose

Spec == Init /\ [][Next]_vars
=============================================================================
