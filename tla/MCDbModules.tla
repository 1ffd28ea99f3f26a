------------------------------- MODULE MCDbModules -------------------------------
(* Instances of DbModules for TLC: two songs and a picture. *)
EXTENDS DbModules, TLC

CONSTANTS s1, s2, p1, v1, v2

MCDbOf == [f \in Files |-> IF f = p1 THEN "DPAP" ELSE "DAAP"]

MCShares == {<<"DAAP">>, <<"DPAP">>, <<"DAAP", "DPAP">>}

(* The songs are alike, and so are the versions; no property is a          *)
(* liveness property.                                                      *)
Alike == Permutations({s1, s2}) \cup Permutations(Versions)
=============================================================================
