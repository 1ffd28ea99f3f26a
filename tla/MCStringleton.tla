---------------------------- MODULE MCStringleton ----------------------------
(* Instances of Stringleton for TLC: three records, so that a string can be *)
(* shared, given up by two of them and still be in use.                     *)
EXTENDS Stringleton

CONSTANTS r1, r2, r3, s1, s2
=============================================================================
