---------------------------- MODULE MCTranscode ----------------------------
(* Instances of Transcode for TLC. *)
EXTENDS Transcode

CONSTANTS p1, p2, a, b, c   \* two songs in one format, a third already in "mp3"

MCFormatOf == [k \in {a, b, c} |-> IF k = c THEN "mp3" ELSE "flac"]
=============================================================================
