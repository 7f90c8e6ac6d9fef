---------------------------- MODULE MCSubscriptions ----------------------------
(***************************************************************************)
(* Small instances of Subscriptions for TLC.                               *)
(***************************************************************************)
EXTENDS Subscriptions

\* Topics, channels and calls are interchangeable.
SubscriptionsSymmetry == Permutations(Topics) \cup Permutations(Channels) \cup Permutations(Calls)

\* Nothing is claimed once a refusal took more than it gave, nor of the channels
\* in which calls met, and neither ever ends.
StillClaimed == torn # "refused" /\ met # Channels
=============================================================================
