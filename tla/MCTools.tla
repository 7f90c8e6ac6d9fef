------------------------------- MODULE MCTools -------------------------------
(* One channel, a thread name and an over-long form of it, two calls at once. *)
EXTENDS Tools, TLC

CONSTANTS call1, call2

MCFold == [n \in Names |-> n]
MCKept == [t \in Threads |-> "t1"]
MCBodies == {[tokens |-> {}, long |-> FALSE]}
MCAskable == {ChannelKey("c1"), ThreadKey("c1", "t1")}

Symmetry == Permutations({call1, call2})
=============================================================================
