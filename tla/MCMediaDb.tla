----------------------------- MODULE MCMediaDb -----------------------------
(* Instances of MediaDb for TLC. *)
EXTENDS MediaDb

CONSTANTS p1, p2,    \* two media files
          a, b       \* an mp3 and an ogg

MCFormatOf == [c \in {a, b} |-> IF c = a THEN "mp3" ELSE "ogg"]

Config(ds, formats, v, mode) ==
    [dirs |-> ds, accept |-> formats, version |-> v, cache |-> mode]

Overlap == <<{p1, p2}, {p1}>>   \* the second directory lies in the first

(* A daemon that is upgraded, reconfigured, and whose disk fills up. *)
ManyConfigs == {Config(Overlap, {}, 1, "writable"),
                Config(<<{p1}>>, {"mp3"}, 2, "writable"),
                Config(Overlap, {}, 1, "full"),
                Config(Overlap, {}, 1, "missing")}
=============================================================================
