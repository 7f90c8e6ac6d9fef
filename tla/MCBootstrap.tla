------------------------------ MODULE MCBootstrap ------------------------------
(***************************************************************************)
(* A small instance of Bootstrap for TLC: two sessions, a worktree whose   *)
(* checkout is not called what its origin is, another checkout, and a      *)
(* directory outside any.                                                  *)
(***************************************************************************)
EXTENDS Bootstrap

MCPlaces == {"tree", "other", "tmp"}
MCRemoteName == [tree |-> <<"a", "_", "b">>, other |-> <<>>, tmp |-> <<>>]
MCRootName == [tree |-> <<"b">>, other |-> <<"1">>, tmp |-> <<>>]

Absent == [is |-> "absent"]
Text(v) == [is |-> "text", v |-> v]
Unsupplied == {[is |-> "empty"], [is |-> "unset"]}

Keys(subscribe, window, idle) == [subscribe |-> subscribe, window |-> window, idle |-> idle]

\* A seat without the plugin, and with one that was given nothing.
Bare == [site |-> Text("ok"), name |-> Absent, key |-> Absent, project |-> Absent, dir |-> Absent,
         plugin |-> Keys(Absent, Absent, Absent), own |-> Keys(Absent, Absent, Absent)]
Pinned == [Bare EXCEPT !.name = Text("bot"),
                       !.own.subscribe = Text(<<<<" ", "b", "/", "a", "/", "b">>, <<"new-topics:", "b">>>>)]

MCEnvs ==
  {Bare, [Bare EXCEPT !.dir = Text("gone")], [Bare EXCEPT !.key = Text("k")],
   [Bare EXCEPT !.project = Text(<<"_", "b", "-", "_", "1">>)],
   [Bare EXCEPT !.name = Text("Bot!")], [Bare EXCEPT !.project = [is |-> "empty"]],
   [Bare EXCEPT !.plugin.idle = [is |-> "broken"], !.own.idle = Text(5)],
   Pinned, [Pinned EXCEPT !.key = Text("k"), !.dir = Text("there")],
   [Pinned EXCEPT !.project = Text(<<"a">>), !.own.idle = Text(9), !.own.window = Text(0)],
   [Pinned EXCEPT !.own.window = Text(-1)], [Pinned EXCEPT !.own.idle = Text(0)],
   [Pinned EXCEPT !.own.subscribe = Text(<<<<"b">>, <<"channel:", "b">>>>)],
   [Pinned EXCEPT !.own.subscribe = Text(<<<<"b", "/">>>>)]}
  \cup {[Pinned EXCEPT !.plugin = Keys(u, u, u), !.own.idle = Text(3)] : u \in Unsupplied}

\* Sessions are interchangeable.
BootstrapSymmetry == Permutations(Sessions)
=============================================================================
