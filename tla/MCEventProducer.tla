--------------------------- MODULE MCEventProducer ---------------------------
(***************************************************************************)
(* Small instances of EventProducer for TLC.                               *)
(***************************************************************************)
EXTENDS EventProducer, TLC

\* Bots are interchangeable: no action names one.
BotSymmetry == Permutations(Identities)
=============================================================================
