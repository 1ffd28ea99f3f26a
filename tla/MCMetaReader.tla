----------------------------- MODULE MCMetaReader -----------------------------
(* Instances of MetaReader for TLC: three reads, so that a timer can        *)
(* outlive its own read and the one after it.                               *)
EXTENDS MetaReader
=============================================================================
