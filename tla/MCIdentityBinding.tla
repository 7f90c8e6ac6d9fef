-------------------------- MODULE MCIdentityBinding --------------------------
(***************************************************************************)
(* Small instances of IdentityBinding for TLC.                             *)
(***************************************************************************)
EXTENDS IdentityBinding, TLC

\* Sessions and calls are interchangeable.
BindingSymmetry == Permutations(Sessions) \cup Permutations(Calls)
=============================================================================
