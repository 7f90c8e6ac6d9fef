---------------------------- MODULE MCDelivery ----------------------------
(* Instances of Delivery: a home channel the seat holds for its new topics, *)
(* with or without a thread of it, and another channel it does not hold.    *)
EXTENDS Delivery

Msg(c, t, b, s) == [chan |-> c, topic |-> t, by |-> b, says |-> s]
NewTopics(c) == [kind |-> "new-topics", chan |-> c, topic |-> NoTopic]
Thread(c, t) == [kind |-> "thread", chan |-> c, topic |-> t]

SeatKinds == {Msg("home", "t1", "other", "nothing"), Msg("home", "t1", "me", "nothing"),
              Msg("home", "t1", "other", "name")}
SeatIntents == {NewTopics("home"), Thread("home", "general")}

WildKinds == {Msg("home", "general", "me", "wildcard"), Msg("home", "t1", "other", "nothing"),
              Msg("away", "t1", "other", "wildcard"), Msg("away", "t1", "other", "name"),
              Msg("home", "general", "other", "name")}
WildIntents == {NewTopics("home")}
=============================================================================
