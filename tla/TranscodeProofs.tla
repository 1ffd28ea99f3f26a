--------------------------- MODULE TranscodeProofs ---------------------------
(* What holds of Transcode for all files, targets, faults and crashes. *)
EXTENDS Transcode, TLAPS

(* Where a visit stands.  Between the moment the .data file is found       *)
(* missing and the end of its making, no record names it.                  *)
VisitOK ==
    /\ step # "next" => path \in Paths /\ key \in Contents /\ phase = "transcode"
    /\ step # "next" => target \in Known
    /\ phase # "transcode" => todo = {}
    /\ step = "open" => data[key] = None
    /\ step \in {"copy", "replace"} => data[key] # None
    /\ phase = "down" => recs = [p \in Paths |-> None]

NamedDataIsMade ==
    \A p \in Paths, k \in Contents :
        Points(p, k) => /\ data[k] # None
                        /\ recs[p].size = data[k].size
                        /\ ~(step \in {"open", "copy"} /\ key = k)

Safe == TypeOK /\ VisitOK /\ NamedDataIsMade

LEMMA SafeInit == Init => Safe
BY DEF Init, Safe, TypeOK, VisitOK, NamedDataIsMade, Points

LEMMA SafeStep == Safe /\ [Next]_vars => Safe'
<1> SUFFICES ASSUME Safe, [Next]_vars PROVE Safe'
  OBVIOUS
<1> USE DEF Safe
<1>1. ASSUME NEW program \in BOOLEAN, NEW t \in Targets, Start(program, t) PROVE Safe'
  <2>1. recs' = [p \in Paths |-> IF fs[p] = None THEN None ELSE OriginalOf(p)]
    BY <1>1 DEF Start
  <2>2. \A p \in Paths : fs[p] # None => OriginalOf(p) \in Originals
    BY DEF OriginalOf, Originals, Formats, TypeOK
  <2>3. \A p \in Paths, k \in Contents : ~Points(p, k)'
    BY <2>1, ConstantsAssumption DEF Points, OriginalOf
  <2>4. TypeOK'
    BY <1>1, <2>1, <2>2 DEF Start, TypeOK
  <2>5. step = "next"
    BY <1>1 DEF Start, VisitOK, TypeOK
  <2> QED BY <1>1, <2>3, <2>4, <2>5 DEF Start, VisitOK, NamedDataIsMade
<1>2. ASSUME NEW p \in Paths, PassOver(p) PROVE Safe'
  BY <1>2 DEF PassOver, TypeOK, VisitOK, NamedDataIsMade, Points
<1>3. ASSUME NEW p \in Paths, Visit(p) PROVE Safe'
  <2>1. fs[p] \in Contents /\ key' = fs[p] /\ path' = p
    BY <1>3 DEF Visit, KeyOf, TypeOK
  <2>2. step' = IF data[fs[p]] # None THEN "replace" ELSE "open"
    BY <1>3 DEF Visit, KeyOf, Made
  <2>3. TypeOK' /\ VisitOK'
    BY <1>3, <2>1, <2>2 DEF Visit, TypeOK, VisitOK
  <2>4. NamedDataIsMade'
    BY <1>3, <2>1, <2>2 DEF Visit, NamedDataIsMade, Points
  <2> QED BY <2>3, <2>4
<1>4. CASE OpenStreams
  <2> DEFINE d == [of |-> fs[path], format |-> target, size |-> 0]
  <2>1. path \in Paths /\ key \in Contents /\ phase = "transcode" /\ data[key] = None
    BY <1>4 DEF OpenStreams, VisitOK
  <2>2. data' = [data EXCEPT ![key] = d] /\ step' = "copy"
    BY <1>4 DEF OpenStreams
  <2>3. target \in Formats /\ fs[path] \in Contents /\ 0 \in 0 .. Blocks
    BY <1>4, <2>1, ConstantsAssumption DEF OpenStreams, Formats, TypeOK, VisitOK
  <2>4. d \in Data /\ d # None
    BY <2>3, ConstantsAssumption DEF Data
  <2>5. TypeOK' /\ VisitOK'
    BY <1>4, <2>1, <2>2, <2>4 DEF OpenStreams, TypeOK, VisitOK
  <2>6. \A p \in Paths : ~Points(p, key)
    BY <1>4, <2>1 DEF OpenStreams, NamedDataIsMade
  <2>7. NamedDataIsMade'
    BY <1>4, <2>1, <2>2, <2>6 DEF OpenStreams, NamedDataIsMade, Points, TypeOK
  <2> QED BY <2>5, <2>7
<1>5. CASE OpenFails
  BY <1>5 DEF OpenFails, TypeOK, VisitOK, NamedDataIsMade, Points
<1>6. CASE CopyBlock
  <2>1. path \in Paths /\ key \in Contents /\ data[key] \in Data /\ data[key] # None
    BY <1>6 DEF CopyBlock, VisitOK, TypeOK
  <2>2. data' = [data EXCEPT ![key] = [data[key] EXCEPT !.size = data[key].size + 1]]
    BY <1>6 DEF CopyBlock, Block
  <2>3. data[key].size + 1 \in 0 .. Blocks
    BY <1>6, <2>1, ConstantsAssumption DEF CopyBlock, Data
  <2>4. data'[key] \in Data /\ data'[key] # None
    BY <2>1, <2>2, <2>3, ConstantsAssumption DEF Data, TypeOK
  <2>5. \A k \in Contents : k # key => data'[k] = data[k]
    BY <2>1, <2>2 DEF TypeOK
  <2>6. data' \in [Contents -> Data \cup {None}]
    BY <2>1, <2>2, <2>4 DEF TypeOK
  <2>7. TypeOK' /\ VisitOK'
    BY <1>6, <2>1, <2>4, <2>6 DEF CopyBlock, TypeOK, VisitOK
  <2>8. \A p \in Paths : ~Points(p, key)
    BY <1>6, <2>1 DEF CopyBlock, NamedDataIsMade
  <2>9. NamedDataIsMade'
    BY <1>6, <2>5, <2>8 DEF CopyBlock, NamedDataIsMade, Points
  <2> QED BY <2>7, <2>9
<1>7. CASE FinishCopy
  BY <1>7 DEF FinishCopy, TypeOK, VisitOK, NamedDataIsMade, Points
<1>8. CASE ReplaceLocation
  <2>1. path \in Paths /\ key \in Contents /\ data[key] # None /\ target \in Known
    BY <1>8 DEF ReplaceLocation, VisitOK
  <2>2. recs' = [recs EXCEPT ![path] =
                   [location |-> key, format |-> target, size |-> data[key].size]]
    BY <1>8 DEF ReplaceLocation, Replacement
  <2>3. target \in Formats /\ data[key].size \in 0 .. Blocks
    BY <2>1 DEF Formats, TypeOK, Data
  <2>4. recs'[path] \in Replaced
    BY <2>1, <2>2, <2>3 DEF Replaced, TypeOK
  <2>5. TypeOK' /\ VisitOK'
    BY <1>8, <2>1, <2>2, <2>4 DEF ReplaceLocation, TypeOK, VisitOK
  <2>6. NamedDataIsMade'
    BY <1>8, <2>1, <2>2 DEF ReplaceLocation, NamedDataIsMade, Points, TypeOK
  <2> QED BY <2>5, <2>6
<1>9. CASE Serve \/ ToolEnds
  BY <1>9 DEF Serve, ToolEnds, TypeOK, VisitOK, NamedDataIsMade, Points
<1>10. CASE Stop
  BY <1>10 DEF Stop, TypeOK, VisitOK, NamedDataIsMade, Points
<1>11. ASSUME NEW p \in Paths, NEW c \in Contents \cup {None}, WriteFile(p, c)
       PROVE Safe'
  BY <1>11 DEF WriteFile, TypeOK, VisitOK, NamedDataIsMade, Points
<1>12. CASE UNCHANGED vars
  BY <1>12 DEF vars, TypeOK, VisitOK, NamedDataIsMade, Points
<1> QED
  BY <1>1, <1>2, <1>3, <1>4, <1>5, <1>6, <1>7, <1>8, <1>9, <1>10, <1>11, <1>12
     DEF Next, Daemon, NoTarget

(* A record that was pointed at a .data file names one that exists, is     *)
(* finished and has the record's length, whatever fails and whenever the   *)
(* daemon stops.                                                           *)
THEOREM SafeInvariant == Spec => []Safe
BY SafeInit, SafeStep, PTL DEF Spec

(* A .data file is written only by the visit that found it missing.        *)
THEOREM DataNeverRewritten == Spec => NeverRewritten
<1>1. Safe /\ [Next]_vars =>
        [\A k \in Contents :
            data[k] # None /\ ~(step = "copy" /\ key = k) => data'[k] = data[k]]_vars
  <2> SUFFICES ASSUME Safe, Next, NEW k \in Contents,
                      data[k] # None, ~(step = "copy" /\ key = k)
               PROVE  data'[k] = data[k]
    OBVIOUS
  <2>1. CASE OpenStreams
    BY <2>1 DEF OpenStreams, Safe, VisitOK, TypeOK
  <2>2. CASE CopyBlock
    BY <2>2 DEF CopyBlock, Safe, TypeOK
  <2>3. CASE UNCHANGED data
    BY <2>3
  <2>4. ASSUME NEW p \in Paths, PassOver(p) \/ Visit(p) PROVE UNCHANGED data
    BY <2>4 DEF PassOver, Visit
  <2>5. ASSUME NEW p \in Paths, NEW c \in Contents \cup {None}, WriteFile(p, c)
        PROVE UNCHANGED data
    BY <2>5 DEF WriteFile
  <2>6. ASSUME NEW program \in BOOLEAN, NEW t \in Targets, Start(program, t) PROVE UNCHANGED data
    BY <2>6 DEF Start
  <2>7. CASE OpenFails \/ FinishCopy \/ ReplaceLocation \/ Serve \/ ToolEnds \/ Stop
    BY <2>7 DEF OpenFails, FinishCopy, ReplaceLocation, Serve, ToolEnds, Stop
  <2> QED BY <2>1, <2>2, <2>3, <2>4, <2>5, <2>6, <2>7 DEF Next, Daemon, NoTarget
<1> QED BY <1>1, SafeInvariant, PTL DEF Spec, NeverRewritten

-----------------------------------------------------------------------------
(* When files change only while the daemon is down, hashing and decoding   *)
(* see the same content.                                                   *)
SameContent ==
    /\ step # "next" => fs[path] = key
    /\ \A k \in Contents : data[k] # None => data[k].of = k
    /\ \A p \in Paths, k \in Contents : Points(p, k) => fs[p] = k

LEMMA SameContentStep == Frozen /\ Safe /\ SameContent /\ [Next]_vars => SameContent'
<1> SUFFICES ASSUME Frozen, Safe, SameContent, [Next]_vars PROVE SameContent'
  OBVIOUS
<1> USE DEF SameContent
<1>1. ASSUME NEW program \in BOOLEAN, NEW t \in Targets, Start(program, t) PROVE SameContent'
  <2>1. \A p \in Paths, k \in Contents : ~Points(p, k)'
    BY <1>1, ConstantsAssumption DEF Start, Points, OriginalOf
  <2> QED BY <1>1, <2>1 DEF Start
<1>2. ASSUME NEW p \in Paths, PassOver(p) \/ Visit(p) PROVE SameContent'
  BY <1>2 DEF PassOver, Visit, KeyOf, Points
<1>3. CASE OpenStreams
  <2>1. fs[path] = key /\ key \in Contents
    BY <1>3 DEF OpenStreams, Safe, VisitOK
  <2> QED BY <1>3, <2>1 DEF OpenStreams, Points, Safe, TypeOK
<1>4. CASE CopyBlock
  <2>1. key \in Contents /\ data[key] \in Data /\ data[key] # None
    BY <1>4 DEF CopyBlock, Safe, VisitOK, TypeOK
  <2>2. data'[key].of = data[key].of
    BY <1>4, <2>1 DEF CopyBlock, Block, Data, Safe, TypeOK
  <2>3. \A k \in Contents : k # key => data'[k] = data[k]
    BY <1>4, <2>1 DEF CopyBlock, Safe, TypeOK
  <2> QED BY <1>4, <2>1, <2>2, <2>3 DEF CopyBlock, Points
<1>5. CASE ReplaceLocation
  <2>1. path \in Paths /\ key \in Contents /\ fs[path] = key
    BY <1>5 DEF ReplaceLocation, Safe, VisitOK
  <2> QED BY <1>5, <2>1 DEF ReplaceLocation, Replacement, Points, Safe, TypeOK
<1>6. CASE OpenFails \/ FinishCopy \/ Serve \/ ToolEnds
  BY <1>6 DEF OpenFails, FinishCopy, Serve, ToolEnds, Points
<1>7. CASE Stop
  BY <1>7 DEF Stop, Points
<1>8. ASSUME NEW p \in Paths, NEW c \in Contents \cup {None}, WriteFile(p, c)
      PROVE SameContent'
  <2>1. phase = "down" /\ step = "next"
    BY <1>8 DEF WriteFile, Safe, VisitOK, TypeOK
  <2>2. \A q \in Paths, k \in Contents : ~Points(q, k)'
    BY <1>8, <2>1 DEF WriteFile, Safe, VisitOK, Points
  <2> QED BY <1>8, <2>1, <2>2 DEF WriteFile
<1>9. CASE UNCHANGED vars
  BY <1>9 DEF vars, Points
<1> QED
  BY <1>1, <1>2, <1>3, <1>4, <1>5, <1>6, <1>7, <1>8, <1>9 DEF Next, Daemon, NoTarget

THEOREM SameContentInvariant == Spec => [](Safe /\ (Frozen => SameContent))
<1>1. Init => SameContent
  BY DEF Init, SameContent, Points
<1>2. Safe /\ (Frozen => SameContent) /\ [Next]_vars => (Frozen => SameContent)'
  <2>1. Frozen' <=> Frozen
    OBVIOUS
  <2> QED BY <2>1, SameContentStep
<1> QED BY <1>1, <1>2, SafeInit, SafeStep, PTL DEF Spec

(* Every .data file was made from the content it is filed under. *)
THEOREM DataStaysCoherent == Spec => []DataCoherent
<1>1. (Frozen => SameContent) => DataCoherent
  BY DEF SameContent, DataCoherent
<1> QED BY <1>1, SameContentInvariant, PTL

(* A record names a .data file of its own content, with its true length.   *)
THEOREM LengthsAlwaysAgree == Spec => []LengthsAgree
<1>1. Safe /\ (Frozen => SameContent) => LengthsAgree
  BY DEF Safe, NamedDataIsMade, SameContent, LengthsAgree
<1> QED BY <1>1, SameContentInvariant, PTL

-----------------------------------------------------------------------------
(* As long as nothing has failed.                                          *)
Whole ==
    /\ step = "replace" => data[key].size = Blocks
    /\ \A k \in Contents : data[k] # None =>
         /\ ~(step = "copy" /\ key = k) => data[k].size = Blocks
         /\ target \in Known => data[k].format = target
         /\ data[k].format \in Known
    /\ \A p \in Paths : recs[p] # None =>
         /\ fs[p] # None
         /\ phase # "down"
         /\ target \in Known =>
              recs[p].format = target \/ p \in todo \/ (step # "next" /\ p = path)

Untroubled == Frozen /\ OneTarget /\ clean

LEMMA WholeStep ==
    Safe /\ SameContent /\ (Untroubled => Whole) /\ [Next]_vars => (Untroubled => Whole)'
<1> SUFFICES ASSUME Safe, SameContent, Untroubled => Whole, [Next]_vars, Untroubled'
             PROVE  Whole'
  OBVIOUS
<1>0. Frozen /\ OneTarget /\ clean'
  BY DEF Untroubled, OneTarget
<1>1. ASSUME NEW program \in BOOLEAN, NEW t \in Targets, Start(program, t) PROVE Whole'
  <2>1. Whole /\ step = "next"
    BY <1>0, <1>1 DEF Start, Untroubled, Safe, VisitOK, TypeOK
  <2>2. \A k \in Contents : data[k] # None => (t \in Known => data[k].format = t)
    BY <1>0, <2>1 DEF Whole, OneTarget
  <2>3. \A p \in Paths :
           recs'[p] # None => fs'[p] # None /\ phase' # "down" /\ (t \in Known => p \in todo')
    BY <1>1 DEF Start, Known
  <2>4. step' = step /\ data' = data /\ target' = t
    BY <1>1 DEF Start
  <2> QED
    BY <2>1, <2>2, <2>3, <2>4 DEF Whole
<1>2. ASSUME NEW p \in Paths, PassOver(p) PROVE Whole'
  <2>1. Whole /\ UNCHANGED <<fs, data, target, phase, step, path, key, recs>>
    BY <1>0, <1>2 DEF PassOver, Untroubled
  <2>2. todo' = todo \ {p} /\ (target \in Known /\ recs[p] # None => recs[p].format = target)
    BY <1>2, <2>1 DEF PassOver, Whole, Unneeded, Known
  <2> QED
    BY <2>1, <2>2 DEF Whole
<1>3. ASSUME NEW p \in Paths, Visit(p) PROVE Whole'
  BY <1>0, <1>3 DEF Visit, Whole, Untroubled, Unneeded, KeyOf, Made, Safe, TypeOK
<1>4. CASE OpenStreams
  <2>1. Whole /\ key \in Contents /\ target \in Known /\ path \in Paths
    BY <1>0, <1>4 DEF OpenStreams, Untroubled, Safe, VisitOK, TypeOK
  <2>2. data'[key].format = target /\ step' = "copy" /\ \A k \in Contents : k # key => data'[k] = data[k]
    BY <1>4, <2>1 DEF OpenStreams, Safe, TypeOK
  <2> QED
    BY <1>4, <2>1, <2>2 DEF OpenStreams, Whole
<1>5. CASE OpenFails
  BY <1>0, <1>5 DEF OpenFails
<1>6. CASE CopyBlock
  <2>1. Whole /\ key \in Contents /\ data[key] \in Data /\ data[key] # None
    BY <1>0, <1>6 DEF CopyBlock, Untroubled, Safe, VisitOK, TypeOK
  <2>2. data'[key].format = data[key].format /\ \A k \in Contents : k # key => data'[k] = data[k]
    BY <1>6, <2>1 DEF CopyBlock, Block, Data, Safe, TypeOK
  <2> QED
    BY <1>6, <2>1, <2>2 DEF CopyBlock, Whole
<1>7. CASE FinishCopy
  <2>1. Whole /\ data[key].size = Blocks
    BY <1>0, <1>7 DEF FinishCopy, Untroubled
  <2> QED
    BY <1>7, <2>1 DEF FinishCopy, Whole
<1>8. CASE ReplaceLocation
  <2>1. Whole /\ path \in Paths /\ key \in Contents
    BY <1>0, <1>8 DEF ReplaceLocation, Untroubled, Safe, VisitOK
  <2>2. recs'[path].format = target /\ \A p \in Paths : p # path => recs'[p] = recs[p]
    BY <1>8, <2>1 DEF ReplaceLocation, Replacement, Safe, TypeOK
  <2>3. fs[path] # None /\ phase # "down"
    BY <1>8, <2>1, ConstantsAssumption DEF ReplaceLocation, SameContent, Safe, VisitOK
  <2> QED
    BY <1>8, <2>1, <2>2, <2>3 DEF ReplaceLocation, Whole
<1>9. CASE Serve \/ ToolEnds
  BY <1>0, <1>9 DEF Serve, ToolEnds, Whole, Untroubled
<1>10. CASE Stop
  <2>1. phase = "serve" /\ Whole
    BY <1>0, <1>10 DEF Stop, Untroubled
  <2>2. step = "next"
    BY <2>1 DEF Safe, VisitOK, TypeOK
  <2> QED
    BY <1>10, <2>1, <2>2 DEF Stop, Whole
<1>11. ASSUME NEW p \in Paths, NEW c \in Contents \cup {None}, WriteFile(p, c) PROVE Whole'
  <2>1. Whole /\ phase = "down"
    BY <1>0, <1>11 DEF WriteFile, Untroubled
  <2> QED
    BY <1>11, <2>1 DEF WriteFile, Whole
<1>12. CASE UNCHANGED vars
  BY <1>0, <1>12 DEF vars, Whole, Untroubled
<1> QED
  BY <1>1, <1>2, <1>3, <1>4, <1>5, <1>6, <1>7, <1>8, <1>9, <1>10, <1>11, <1>12
     DEF Next, Daemon, NoTarget

(* Until something fails all that is served is whole and in the target     *)
(* format, in every run of the daemon and after every run of the tool.     *)
THEOREM AllAlwaysTranscoded == Spec => []AllTranscoded
<1>1. Init => (Untroubled => Whole)
  BY DEF Init, Whole
<1>2. Safe /\ (Frozen => SameContent) /\ (Untroubled => Whole) /\ [Next]_vars
        => (Untroubled => Whole)'
  <2>1. Untroubled' => Frozen
    BY DEF Untroubled
  <2> QED
    BY <2>1, WholeStep
<1>3. Safe /\ (Untroubled => Whole) => AllTranscoded
  <2> SUFFICES ASSUME Safe, Whole, phase = "serve", target \in Known, NEW p \in Paths, recs[p] # None
               PROVE  /\ recs[p].format = target
                      /\ \A k \in Contents :
                            Points(p, k) => data[k].format = target /\ data[k].size = Blocks
    BY DEF AllTranscoded, Untroubled
  <2>1. step = "next" /\ todo = {}
    BY DEF Safe, VisitOK, TypeOK
  <2> QED
    BY <2>1 DEF Whole, Safe, NamedDataIsMade
<1> QED BY <1>1, <1>2, <1>3, SameContentInvariant, PTL DEF Spec
=============================================================================
