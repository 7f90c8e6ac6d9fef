------------------------------- MODULE MCRealm -------------------------------
(* The realm with one channel, one topic and two requests in flight. *)
EXTENDS Realm, TLC

CONSTANTS req1, req2

MCShort == [n \in Names |-> n]

Symmetry == Permutations({req1, req2})
=============================================================================
