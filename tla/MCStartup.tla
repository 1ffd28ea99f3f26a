------------------------------- MODULE MCStartup -------------------------------
(* An instance of Startup for TLC: lists of the configuration file of up   *)
(* to one member, command lines of up to two options, and for the          *)
(* renderer no host, one, another behind the first, one that belongs to a  *)
(* word in front of it, and a word behind it.                              *)
EXTENDS Startup

CONSTANTS d1, d2, mp3, u1, u2, here, there, p1, p2, r1, r2

MCListsOf == [S \in {Dirs, Formats} |-> {<<>>, <<CHOOSE x \in S : TRUE>>}]

Named(h) == [key |-> "host", value |-> h]

MCPlugins ==
    {<<>>, <<Named(here)>>, <<Named(there), Named(here)>>,
     <<[key |-> "other", value |-> here], Named(there)>>,
     <<Bare, Named(here)>>, <<Named(here), Bare>>}

MCModules == {{"av", "photo", "render"}, {"av"}, {"photo", "render"}, {"render"}}
=============================================================================
