------------------------------- MODULE MCDaemon -------------------------------
(* An instance of Daemon for TLC: a daemon with a directory of each kind   *)
(* that may have been told to render, a host whose service appears, a      *)
(* remote that pairs, and everything the remote can ask of the player.     *)
EXTENDS Daemon

CONSTANTS g1, g2, d1, here, p1, r1

MCListsOf == [S \in {Dirs, Formats} |-> IF S = Dirs THEN {<<d1>>} ELSE {<<>>}]

MCPlugins == {<<[key |-> "host", value |-> here]>>}

MCModules == {{"av", "photo", "render"}}
=============================================================================
