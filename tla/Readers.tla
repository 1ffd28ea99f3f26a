-------------------------------- MODULE Readers --------------------------------
(***************************************************************************)
(* The two kinds of metadata readers of a daemon.  serve () of dmapd.c     *)
(* walks the directories of one kind with its reader and does not come     *)
(* back to it: MetaReader is the reader of music, PhotoReader that of      *)
(* photographs.  They share nothing, so that one at a time is looked at.   *)
(***************************************************************************)
EXTENDS PhotoReader

CONSTANTS Reads, Hangs, QuitStays   \* those of MetaReader

ASSUME ReadsAssumption ==
    Reads \in Nat /\ Hangs \in BOOLEAN /\ QuitStays \in (SUBSET BOOLEAN) \ {{}}

VARIABLES
    kind,   \* what is served: "music", "pictures"
    read, phase, running, idles, here, last, timers, paused, lost, padded

AV == INSTANCE MetaReader

avVars == <<read, phase, running, idles, here, last, timers, paused, lost, padded>>
readersVars == <<vars, kind, avVars>>

ReadersInit ==
    /\ kind \in {"music", "pictures"}
    /\ Init /\ AV!Init

ReadMusic    == kind = "music" /\ AV!Next /\ UNCHANGED <<kind, vars>>
ReadPictures == kind = "pictures" /\ Next /\ UNCHANGED <<kind, avVars>>

ReadersSpec == ReadersInit /\ [][ReadMusic \/ ReadPictures]_readersVars /\ AV!Fairness

-----------------------------------------------------------------------------
(* Of music: no pipeline is asked for its tags that was not paused for the *)
(* read in progress, whatever earlier reads left behind.                   *)
PausedInTime == AV!PausedInTime

(* Of music: each read comes to its end, or the daemon hangs or aborts in  *)
(* it.                                                                     *)
ReadEnds == AV!ReadEnds
=============================================================================
