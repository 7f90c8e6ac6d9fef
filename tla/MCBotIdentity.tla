---------------------------- MODULE MCBotIdentity ----------------------------
(* Two seats after one name. *)
EXTENDS BotIdentity

CONSTANTS s1, s2

MCShort == [n \in Names |-> n]
MCNameOf == [s \in Seats |-> "n1"]
=============================================================================
