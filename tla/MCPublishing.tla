---------------------------- MODULE MCPublishing ----------------------------
(* Two callers, a call each or two of one; histories of up to four messages. *)
EXTENDS Publishing, TLC

CONSTANTS caller1, caller2

Old(topic, ts) == [topic |-> topic, ts |-> ts, mention |-> FALSE]
Named(topic, ts) == [Old(topic, ts) EXCEPT !.mention = TRUE]

MCHistories == {
  <<>>,
  <<Old("done", 1)>>,
  <<Old("plain", 1), Old("done", 2)>>,
  <<Named("plain", 1), Named("plain", 2), Old("plain", 2), Old("plain", 3)>> }

MCPosts == {[mention |-> TRUE, threaded |-> TRUE, long |-> FALSE],
            [mention |-> FALSE, threaded |-> FALSE, long |-> FALSE]}

MCReads == {[form |-> "plain", since |-> 0, until |-> 0, cap |-> 2],
            [form |-> "any", since |-> 2, until |-> 2, cap |-> 2],
            [form |-> "any", since |-> 0, until |-> 1, cap |-> 1]}

\* A mention in the second message, a message gone since, a reaction to each.
MCEvents == {[form |-> "message", id |-> 2, by |-> "other", cached |-> FALSE],
             [form |-> "message", id |-> 0, by |-> "member", cached |-> FALSE],
             [form |-> "reaction", id |-> 1, by |-> "member", cached |-> FALSE],
             [form |-> "reaction", id |-> 0, by |-> "other", cached |-> FALSE],
             [form |-> "other", id |-> 0, by |-> "other", cached |-> FALSE]}

Symmetry == Permutations({caller1, caller2})
=============================================================================
