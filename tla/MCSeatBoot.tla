------------------------------ MODULE MCSeatBoot ------------------------------
(***************************************************************************)
(* Small instances of SeatBoot for TLC.                                    *)
(***************************************************************************)
EXTENDS SeatBoot, TLC

\* Calls are interchangeable.
CallSymmetry == Permutations(Calls)
=============================================================================
