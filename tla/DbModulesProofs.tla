--------------------------- MODULE DbModulesProofs ---------------------------
(* What holds of BdbDb and of DiskDb for any files, databases and number   *)
(* of ids, whatever processes are started to serve.                        *)
EXTENDS DbModules, FiniteSetTheorems, TLAPS

(* The ids of this process lie above nextid, in the scan's reach.          *)
Counter == nextid \in 0 .. Base

Issuing ==
    /\ DOMAIN issued = Dbs /\ DOMAIN store = Dbs
    /\ \A d \in Dbs : \A id \in DOMAIN issued[d] :
         /\ id \in Scanned
         /\ id \in DOMAIN store[d] /\ store[d][id] = issued[d][id]
    /\ \A d, e \in Dbs : d # e => DOMAIN issued[d] \cap DOMAIN issued[e] = {}

Filling == db # None => db \in Dbs

Queue == left \in Seq(Dbs)

Safe == Counter /\ Issuing /\ Filling /\ Queue

LEMMA SafeInit == Init => Safe
BY ConstantsAssumption DEF Init, Safe, Counter, Issuing, Filling, Queue, Empty

(* The counter does not move when a database is opened, though it is       *)
(* written as if it were computed from what the database holds.            *)
LEMMA OpenedWhere == Counter => Opened(Count) = nextid
BY ConstantsAssumption DEF Counter, Opened, Count

LEMMA SafeStep == Safe /\ [Next]_vars => Safe'
<1> SUFFICES ASSUME Safe, [Next]_vars PROVE Safe'
  OBVIOUS
<1> USE ConstantsAssumption DEF Safe
<1>1. ASSUME NEW share \in Shares, Start(share) PROVE Safe'
  BY <1>1 DEF Start, Counter, Issuing, Filling, Queue, Scanned
<1>2. CASE Open
  <2>1. nextid' = nextid
    BY <1>2, OpenedWhere DEF Open
  <2>2. db' \in Dbs /\ left' \in Seq(Dbs)
    BY <1>2 DEF Open, Queue
  <2> QED BY <1>2, <2>1, <2>2 DEF Open, Counter, Issuing, Filling, Queue, Scanned
<1>3. CASE Publish
  BY <1>3 DEF Publish, Counter, Issuing, Filling, Queue, Scanned
<1>4. CASE Stop
  <2>1. DOMAIN store' = Dbs
    BY <1>4 DEF Stop
  <2> QED BY <1>4, <2>1 DEF Stop, Counter, Issuing, Filling, Queue, Empty
<1>5. ASSUME NEW f \in Files, PassOver(f) PROVE Safe'
  BY <1>5 DEF PassOver, Counter, Issuing, Filling, Queue, Scanned
<1>6. ASSUME NEW f \in Files, AddPath(f) PROVE Safe'
  <2> DEFINE record == [location |-> f, meta |-> fs[f]]
  <2>1. /\ db \in Dbs /\ nextid \in Nat \ {0} /\ nextid' = nextid - 1 /\ nextid <= Base
        /\ store' = [store EXCEPT ![db] = With(@, nextid, record)]
        /\ issued' = [issued EXCEPT ![db] = With(@, nextid, record)]
    BY <1>6 DEF AddPath, Filling, Counter, NewId
  <2>2. Counter'
    BY <2>1 DEF Counter
  <2>3. nextid \in Scanned' /\ Scanned \subseteq Scanned' /\ nextid \notin Scanned
    BY <2>1, <2>2 DEF Scanned, Counter
  <2>4. DOMAIN issued' = Dbs /\ DOMAIN store' = Dbs
    BY <2>1 DEF Issuing
  <2>5. \A d \in Dbs : DOMAIN issued'[d] = IF d = db THEN DOMAIN issued[d] \cup {nextid}
                                           ELSE DOMAIN issued[d]
    BY <2>1 DEF Issuing, With
  <2>6. \A d, e \in Dbs : d # e => DOMAIN issued'[d] \cap DOMAIN issued'[e] = {}
    <3>1. \A d \in Dbs : nextid \notin DOMAIN issued[d]
      BY <2>3 DEF Issuing
    <3>2. ASSUME NEW d \in Dbs, NEW e \in Dbs, d # e
          PROVE  DOMAIN issued'[d] \cap DOMAIN issued'[e] = {}
      <4>1. DOMAIN issued[d] \cap DOMAIN issued[e] = {}
        BY <3>2 DEF Issuing
      <4> QED BY <2>5, <3>1, <3>2, <4>1
    <3> QED BY <3>2
  <2>7. ASSUME NEW d \in Dbs, NEW id \in DOMAIN issued'[d]
        PROVE  id \in Scanned' /\ id \in DOMAIN store'[d] /\ store'[d][id] = issued'[d][id]
    <3>1. CASE d # db
      BY <2>1, <2>3, <2>5, <3>1 DEF Issuing
    <3>2. CASE d = db
      <4>1. store'[d] = With(store[d], nextid, record) /\ issued'[d] = With(issued[d], nextid, record)
        BY <2>1, <3>2 DEF Issuing
      <4>2. CASE id = nextid
        BY <2>3, <4>1, <4>2 DEF With
      <4>3. CASE id # nextid
        <5>1. id \in DOMAIN issued[d]
          BY <2>5, <4>3
        <5>2. issued'[d][id] = issued[d][id] /\ store'[d][id] = store[d][id] /\ id \in DOMAIN store'[d]
          BY <4>1, <4>3, <5>1 DEF With, Issuing
        <5> QED BY <2>3, <5>1, <5>2 DEF Issuing
      <4> QED BY <4>2, <4>3
    <3> QED BY <3>1, <3>2
  <2>8. Issuing'
    BY <2>4, <2>6, <2>7 DEF Issuing
  <2> QED BY <1>6, <2>2, <2>8 DEF AddPath, Filling, Queue
<1>7. ASSUME NEW f \in Files, NEW v \in Versions \cup {None}, WriteFile(f, v) PROVE Safe'
  BY <1>7 DEF WriteFile, Counter, Issuing, Filling, Queue, Scanned
<1>8. CASE UNCHANGED vars
  BY <1>8 DEF vars, Counter, Issuing, Filling, Queue, Scanned
<1> QED
  BY <1>1, <1>2, <1>3, <1>4, <1>5, <1>6, <1>7, <1>8 DEF Next, LookupAborts

LEMMA SafeInvariant == Spec => []Safe
BY SafeInit, SafeStep, PTL DEF Spec

(* What a process adds, to any of its databases, keeps its id and stays in *)
(* sight, and no id is in two databases.                                   *)
LEMMA BdbKeepsIssued == Spec => []IssuedKept
<1>1. Safe => IssuedKept
  <2> SUFFICES ASSUME Safe PROVE IssuedKept
    OBVIOUS
  <2>1. ASSUME NEW d \in Dbs, NEW id \in DOMAIN issued[d]
        PROVE  id \in DOMAIN Visible(d) /\ Visible(d)[id] = issued[d][id]
    BY <2>1 DEF Safe, Issuing, Visible, Kept
  <2> QED BY <2>1 DEF Safe, Issuing, IssuedKept
<1> QED BY <1>1, SafeInvariant, PTL

-----------------------------------------------------------------------------
(* From here on: processes as long as they have opened one database.       *)
Opening ==
    /\ up \/ open = {}
    /\ open \subseteq Dbs
    /\ db # None => db \in open

(* All that is scanned was issued.                                         *)
Covered ==
    /\ open = {} => nextid = Base /\ \A d \in Dbs : issued[d] = Empty
    /\ Single => \A d \in open : Scanned \subseteq DOMAIN issued[d]

Recorded == Single =>
    \A d \in open :
        /\ issued[d] = [id \in DOMAIN issued[d] |-> issued[d][id]]
        /\ \A i, j \in DOMAIN issued[d] :
             issued[d][i].location = issued[d][j].location => i = j
        /\ \A id \in DOMAIN issued[d] : issued[d][id].meta = fs[issued[d][id].location]

Fresh == Opening /\ Covered /\ Recorded

LEMMA SeenIsIssued ==
    ASSUME Safe, Fresh, Single, NEW d \in open PROVE Visible(d) = issued[d]
<1>1. d \in Dbs
  BY DEF Fresh, Opening
<1>2. DOMAIN store[d] \cap Scanned = DOMAIN issued[d]
  BY <1>1 DEF Safe, Issuing, Fresh, Covered
<1>3. \A id \in DOMAIN issued[d] : store[d][id] = issued[d][id]
  BY <1>1 DEF Safe, Issuing
<1> QED BY <1>2, <1>3 DEF Visible, Kept, Fresh, Recorded

LEMMA FreshInit == Init => Fresh
BY DEF Init, Fresh, Opening, Covered, Recorded

LEMMA FreshAdd ==
    ASSUME Safe, Fresh, Safe', Single, NEW f \in Files, AddPath(f) PROVE Fresh'
<1> DEFINE record == [location |-> f, meta |-> fs[f]]
<1>1. db \in open /\ db \in Dbs /\ open' = open /\ open = {db}
  BY DEF AddPath, Fresh, Opening, Single
<1>2. nextid \in Nat /\ nextid' = nextid - 1 /\ nextid <= Base /\ nextid > 0 /\ Base \in Nat
  BY ConstantsAssumption DEF Safe, Counter, AddPath
<1>3. issued'[db] = With(issued[db], nextid, record)
  BY <1>1 DEF AddPath, NewId, Safe, Issuing
<1>4. DOMAIN issued'[db] = DOMAIN issued[db] \cup {nextid}
  BY <1>3 DEF With
<1>5. nextid \notin DOMAIN issued[db]
  BY <1>1, <1>2 DEF Safe, Issuing, Scanned
<1>6. issued'[db][nextid] = record
  BY <1>3 DEF With
<1>7. \A id \in DOMAIN issued[db] : issued'[db][id] = issued[db][id]
  BY <1>3, <1>5 DEF With
<1>8. \A id \in DOMAIN issued[db] : issued[db][id].location # f
  <2>1. Visible(db) = issued[db]
    BY <1>1, SeenIsIssued
  <2> QED BY <2>1 DEF AddPath, Known
<1>9. Opening'
  BY <1>1 DEF Fresh, Opening, AddPath
<1>10. Covered'
  <2>1. Scanned' \subseteq Scanned \cup {nextid}
    BY <1>2 DEF Scanned
  <2> QED BY <1>1, <1>4, <2>1 DEF Fresh, Covered
<1>11. Recorded'
  <2>1. issued'[db] = [id \in DOMAIN issued'[db] |-> issued'[db][id]]
    BY <1>3 DEF With
  <2>2. \A i, j \in DOMAIN issued'[db] :
          issued'[db][i].location = issued'[db][j].location => i = j
    <3>1. \A i, j \in DOMAIN issued[db] :
            issued[db][i].location = issued[db][j].location => i = j
      BY <1>1 DEF Fresh, Recorded
    <3>2. record.location = f
      OBVIOUS
    <3> QED BY <1>4, <1>6, <1>7, <1>8, <3>1, <3>2
  <2>3. \A id \in DOMAIN issued'[db] : issued'[db][id].meta = fs'[issued'[db][id].location]
    <3>1. \A id \in DOMAIN issued[db] : issued[db][id].meta = fs[issued[db][id].location]
      BY <1>1 DEF Fresh, Recorded
    <3>2. fs' = fs /\ record.meta = fs[record.location]
      BY DEF AddPath
    <3> QED BY <1>4, <1>6, <1>7, <3>1, <3>2
  <2> QED BY <1>1, <2>1, <2>2, <2>3 DEF Recorded
<1> QED BY <1>9, <1>10, <1>11 DEF Fresh

LEMMA FreshStep == Safe /\ Safe' /\ Fresh /\ [Next]_vars => Fresh'
<1> SUFFICES ASSUME Safe, Safe', Fresh, [Next]_vars PROVE Fresh'
  OBVIOUS
<1>1. ASSUME NEW share \in Shares, Start(share) PROVE Fresh'
  BY <1>1 DEF Start, Fresh, Opening, Covered, Recorded, Single, Scanned
<1>2. CASE Open
  <2> DEFINE d == Head(left)
  <2>1. d \in Dbs /\ db' = d /\ open' = open \cup {d} /\ up'
    BY <1>2 DEF Open, Safe, Queue
  <2>2. nextid' = nextid /\ issued' = issued /\ fs' = fs /\ nextid \in 0 .. Base
    BY <1>2, OpenedWhere DEF Open, Safe, Counter
  <2>3. Opening'
    BY <2>1 DEF Fresh, Opening
  <2>4. Single' => Single /\ (open = {} \/ open = {d}) /\ open' = {d}
    BY <2>1 DEF Single
  <2>5. CASE open = {}
    <3>1. nextid' = Base /\ issued'[d] = Empty
      BY <2>1, <2>2, <2>5 DEF Fresh, Covered
    <3>2. Scanned' = {}
      BY <3>1, ConstantsAssumption DEF Scanned
    <3> QED BY <2>1, <2>3, <2>4, <3>1, <3>2 DEF Fresh, Covered, Recorded, Empty
  <2>6. CASE open # {}
    <3>1. Scanned' = Scanned
      BY <2>2 DEF Scanned
    <3>2. Covered'
      BY <2>1, <2>2, <2>4, <2>6, <3>1 DEF Fresh, Covered
    <3>3. Recorded'
      BY <2>1, <2>2, <2>4, <2>6 DEF Fresh, Recorded
    <3> QED BY <2>3, <3>2, <3>3 DEF Fresh
  <2> QED BY <2>5, <2>6
<1>3. CASE Publish
  BY <1>3 DEF Publish, Fresh, Opening, Covered, Recorded, Single, Scanned
<1>4. CASE Stop
  BY <1>4 DEF Stop, Fresh, Opening, Covered, Recorded, Single
<1>5. ASSUME NEW f \in Files, PassOver(f) PROVE Fresh'
  BY <1>5 DEF PassOver, Fresh, Opening, Covered, Recorded, Single, Scanned
<1>6. ASSUME NEW f \in Files, AddPath(f) PROVE Fresh'
  <2>1. CASE Single
    BY <1>6, <2>1, FreshAdd
  <2>2. CASE ~Single
    <3>1. open' = open /\ up' = up /\ db' = db /\ ~Single'
      BY <1>6, <2>2 DEF AddPath, Single
    <3> QED BY <1>6, <3>1 DEF AddPath, Fresh, Opening, Covered, Recorded
  <2> QED BY <2>1, <2>2
<1>7. ASSUME NEW f \in Files, NEW v \in Versions \cup {None}, WriteFile(f, v) PROVE Fresh'
  BY <1>7 DEF WriteFile, Fresh, Opening, Covered, Recorded, Single
<1>8. CASE UNCHANGED vars
  BY <1>8 DEF vars, Fresh, Opening, Covered, Recorded, Single, Scanned
<1> QED
  BY <1>1, <1>2, <1>3, <1>4, <1>5, <1>6, <1>7, <1>8 DEF Next, LookupAborts

(* A process that has opened one database sees what it added itself and    *)
(* nothing else, each file once, as it is now, and counts that.            *)
LEMMA BdbOnlyFresh == Spec => []OnlyFresh
<1>1. Safe /\ Safe' /\ Fresh /\ [Next]_vars => Fresh'
  BY FreshStep
<1>2. Safe /\ Fresh => OnlyFresh
  <2> SUFFICES ASSUME Safe, Fresh, Single PROVE OnlyFresh
    BY DEF OnlyFresh
  <2>1. \A d \in open : Visible(d) = issued[d]
    BY SeenIsIssued
  <2>3. ASSUME NEW d \in open PROVE Count = Cardinality(DOMAIN Visible(d))
    <3>1. DOMAIN Visible(d) = nextid + 1 .. Base
      <4>1. d \in Dbs
        BY DEF Fresh, Opening
      <4>2. DOMAIN issued[d] \subseteq Scanned
        BY <4>1 DEF Safe, Issuing
      <4>3. Scanned \subseteq DOMAIN issued[d]
        BY DEF Fresh, Covered
      <4> QED
        BY <2>1, <4>2, <4>3 DEF Scanned
    <3>2. nextid \in Nat /\ Base \in Nat /\ nextid <= Base
      BY ConstantsAssumption DEF Safe, Counter
    <3>3. Cardinality(nextid + 1 .. Base) = IF nextid + 1 > Base THEN 0 ELSE Base - (nextid + 1) + 1
      BY <3>2, FS_Interval
    <3>4. Cardinality(nextid + 1 .. Base) = Base - nextid
      BY <3>2, <3>3
    <3> QED
      BY <3>1, <3>4 DEF Count
  <2>2. ASSUME NEW d \in open
        PROVE  /\ \A i, j \in DOMAIN Visible(d) :
                    Visible(d)[i].location = Visible(d)[j].location => i = j
               /\ \A id \in DOMAIN Visible(d) :
                    Visible(d)[id].meta = fs[Visible(d)[id].location]
    <3>1. /\ \A i, j \in DOMAIN issued[d] :
               issued[d][i].location = issued[d][j].location => i = j
          /\ \A id \in DOMAIN issued[d] : issued[d][id].meta = fs[issued[d][id].location]
      BY DEF Fresh, Recorded
    <3>2. Visible(d) = issued[d]
      BY <2>1
    <3> QED BY <3>1, <3>2, Zenon
  <2> QED BY <2>1, <2>2, <2>3, Zenon DEF OnlyFresh
<1> QED BY <1>1, <1>2, FreshInit, SafeInvariant, PTL DEF Spec

-----------------------------------------------------------------------------
(* Under the contract of a database: the walk comes to files that are      *)
(* there, and no database is opened twice by a process.                    *)
Waiting ==
    /\ fs \in [Files -> Versions \cup {None}]
    /\ todo \subseteq {f \in Files : fs[f] \in Versions}
    /\ ~up => todo = {}
    /\ \A i, j \in 1 .. Len(left) : left[i] = left[j] => i = j
    /\ \A i \in 1 .. Len(left) : left[i] \notin open

LEMMA WaitingInit == Init => Waiting
BY DEF Init, Waiting

LEMMA WaitingStep == Safe /\ Fresh /\ Waiting /\ [Next]_vars => Waiting'
<1> SUFFICES ASSUME Safe, Fresh, Waiting, [Next]_vars PROVE Waiting'
  OBVIOUS
<1> USE DEF Waiting
<1>1. ASSUME NEW share \in Shares, Start(share) PROVE Waiting'
  <2>1. open = {} /\ left' = share /\ todo = {}
    BY <1>1 DEF Start, Fresh, Opening
  <2> QED BY <1>1, <2>1, ConstantsAssumption DEF Start
<1>2. CASE Open
  <2>1. /\ left \in Seq(Dbs) /\ left # <<>> /\ left' = Tail(left)
        /\ open' = open \cup {Head(left)}
    BY <1>2 DEF Open, Safe, Queue
  <2>2. /\ Head(left) = left[1] /\ Len(left') = Len(left) - 1 /\ Len(left) \in Nat \ {0}
        /\ \A i \in 1 .. Len(left') : left'[i] = left[i + 1] /\ i + 1 \in 1 .. Len(left)
    BY <2>1
  <2>3. \A i, j \in 1 .. Len(left') : left'[i] = left'[j] => i = j
    <3>1. ASSUME NEW i \in 1 .. Len(left'), NEW j \in 1 .. Len(left'), left'[i] = left'[j]
          PROVE  i = j
      <4>1. i + 1 = j + 1
        BY <2>2, <3>1
      <4> QED BY <2>2, <4>1
    <3> QED BY <3>1
  <2>4. \A i \in 1 .. Len(left') : left'[i] \notin open'
    <3>1. ASSUME NEW i \in 1 .. Len(left') PROVE left'[i] \notin open \cup {left[1]}
      <4>1. i + 1 # 1 /\ 1 \in 1 .. Len(left)
        BY <2>2
      <4> QED BY <2>2, <4>1
    <3> QED BY <2>1, <2>2, <3>1
  <2>5. todo' \subseteq {f \in Files : fs'[f] \in Versions}
    BY <1>2 DEF Open
  <2> QED BY <1>2, <2>3, <2>4, <2>5 DEF Open
<1>3. CASE Publish
  BY <1>3 DEF Publish
<1>4. CASE Stop
  BY <1>4 DEF Stop
<1>5. ASSUME NEW f \in Files, PassOver(f) PROVE Waiting'
  BY <1>5 DEF PassOver
<1>6. ASSUME NEW f \in Files, AddPath(f) PROVE Waiting'
  BY <1>6 DEF AddPath
<1>7. ASSUME NEW f \in Files, NEW v \in Versions \cup {None}, WriteFile(f, v) PROVE Waiting'
  BY <1>7 DEF WriteFile
<1>8. CASE UNCHANGED vars
  BY <1>8 DEF vars
<1> QED
  BY <1>1, <1>2, <1>3, <1>4, <1>5, <1>6, <1>7, <1>8 DEF Next, LookupAborts

(* What is seen through the lookups is what the process added.             *)
LEMMA Seen ==
    Safe /\ Fresh /\ Single /\ open # {} =>
        \E d \in Dbs : open = {d} /\ Catalogue = issued[d]
<1> SUFFICES ASSUME Safe, Fresh, Single, open # {}
             PROVE  \E d \in Dbs : open = {d} /\ Catalogue = issued[d]
  OBVIOUS
<1>1. PICK d \in open : open = {d}
  BY DEF Single
<1>2. (CHOOSE e \in open : TRUE) = d
  BY <1>1
<1>3. Catalogue = issued[d]
  BY <1>2, SeenIsIssued DEF Catalogue
<1> QED BY <1>1, <1>3 DEF Fresh, Opening

LEMMA SeenNext ==
    (Safe /\ Fresh /\ Single /\ open # {})' =>
        (\E d \in Dbs : open = {d} /\ Catalogue = issued[d])'
BY Seen, PTL

LEMMA BdbContractStep ==
    Safe /\ Safe' /\ Fresh /\ Fresh' /\ Waiting /\ [Next]_vars
        => [Abstract!Next]_(Abstract!contractVars)
<1> SUFFICES ASSUME Safe, Safe', Fresh, Fresh', Waiting, [Next]_vars
             PROVE  [Abstract!Next]_(Abstract!contractVars)
  OBVIOUS
<1> DEFINE Published == Single /\ open # {} /\ db = None
<1>0. Abstract!Empty = Empty
  BY DEF Abstract!Empty, Empty
<1>1. ASSUME UNCHANGED <<store, open, nextid, db>> PROVE [Abstract!Next]_(Abstract!contractVars)
  BY <1>1 DEF Abstract!contractVars, Catalogue, Single, Visible, Kept, Scanned
<1>2. ASSUME Catalogue' = Empty, Published' = FALSE PROVE Abstract!Next
  BY <1>0, <1>2 DEF Abstract!Next, Abstract!Restart
<1>3. CASE Open
  <2> DEFINE d == Head(left)
  <2>1. d \in Dbs /\ db' = d /\ open' = open \cup {d} /\ d \notin open
    <3>1. Head(left) = left[1] /\ 1 \in 1 .. Len(left) /\ left[1] \in Dbs
      BY <1>3 DEF Open, Safe, Queue
    <3> QED BY <1>3, <3>1 DEF Open, Waiting
  <2>2. Published' = FALSE
    BY <2>1, ConstantsAssumption
  <2>3. CASE open = {}
    <3>1. open' = {d} /\ Single'
      BY <2>1, <2>3 DEF Single
    <3>2. Catalogue' = issued'[d]
      BY <2>1, <3>1, SeenNext
    <3>3. issued'[d] = Empty
      BY <1>3, <2>1, <2>3 DEF Open, Fresh, Covered
    <3> QED BY <1>2, <2>2, <3>2, <3>3
  <2>4. CASE open # {}
    <3>1. ~Single'
      BY <2>1, <2>4 DEF Single
    <3> QED BY <1>2, <2>2, <3>1 DEF Catalogue
  <2> QED BY <2>3, <2>4
<1>4. CASE Stop
  <2>1. open' = {}
    BY <1>4 DEF Stop
  <2> QED BY <1>2, <2>1 DEF Catalogue
<1>5. CASE Publish
  <2>1. db # None /\ db' = None /\ open # {} /\ UNCHANGED <<open, store, nextid>>
    BY <1>5 DEF Publish, Fresh, Opening
  <2>2. Catalogue' = Catalogue /\ (Single' <=> Single)
    BY <2>1 DEF Catalogue, Single, Visible, Kept, Scanned
  <2>3. CASE Single
    BY <2>1, <2>2, <2>3 DEF Abstract!Next, Abstract!Publish
  <2>4. CASE ~Single
    BY <2>1, <2>2, <2>4 DEF Abstract!contractVars
  <2> QED BY <2>3, <2>4
<1>6. ASSUME NEW f \in Files, AddPath(f) PROVE [Abstract!Next]_(Abstract!contractVars)
  <2> DEFINE record == [location |-> f, meta |-> fs[f]]
  <2>1. db # None /\ db \in open /\ db \in Dbs /\ UNCHANGED <<db, open>>
    BY <1>6 DEF AddPath, Fresh, Opening, Safe, Filling
  <2>2. ~Published /\ ~Published' /\ (Single' <=> Single)
    BY <2>1 DEF Single
  <2>3. CASE Single
    <3>1. open = {db} /\ open' = {db}
      BY <2>1, <2>3 DEF Single
    <3>2. Catalogue = issued[db]
      BY <2>1, <2>3, <3>1, Seen
    <3>3. Catalogue' = issued'[db]
      BY <2>1, <2>2, <2>3, <3>1, SeenNext
    <3>4. issued'[db] = With(issued[db], nextid, record)
      BY <1>6, <2>1 DEF AddPath, NewId, Safe, Issuing
    <3>5. nextid \in 1 .. Base
      BY <1>6, ConstantsAssumption DEF AddPath, Safe, Counter
    <3>6. nextid \notin DOMAIN issued[db]
      BY <2>1, <3>5, ConstantsAssumption DEF Safe, Issuing, Scanned
    <3>7. record \in Records
      BY <1>6 DEF AddPath, Waiting, Records
    <3>8. Abstract!Add(nextid, record)
      BY <2>2, <3>2, <3>3, <3>4, <3>5, <3>6 DEF Abstract!Add, With
    <3> QED BY <3>5, <3>7, <3>8 DEF Abstract!Next
  <2>4. CASE ~Single
    BY <2>2, <2>4 DEF Abstract!contractVars, Catalogue
  <2> QED BY <2>3, <2>4
<1>7. ASSUME NEW share \in Shares, Start(share)
      PROVE  [Abstract!Next]_(Abstract!contractVars)
  BY <1>1, <1>7 DEF Start
<1>8. ASSUME NEW f \in Files, PassOver(f) PROVE [Abstract!Next]_(Abstract!contractVars)
  BY <1>1, <1>8 DEF PassOver
<1>9. ASSUME NEW f \in Files, NEW v \in Versions \cup {None}, WriteFile(f, v)
      PROVE  [Abstract!Next]_(Abstract!contractVars)
  BY <1>1, <1>9 DEF WriteFile
<1>10. CASE UNCHANGED vars
  BY <1>1, <1>10 DEF vars
<1> QED
  BY <1>3, <1>4, <1>5, <1>6, <1>7, <1>8, <1>9, <1>10 DEF Next, LookupAborts

(* The Berkeley DB module keeps the contract of a database while a process *)
(* has opened one, though what it scans lies in a file of earlier runs.    *)
LEMMA BdbKeepsContract == Spec => Contract
<1>1. Init => Abstract!Init
  BY DEF Init, Abstract!Init, Abstract!Empty, Catalogue, Empty
<1> QED
  BY <1>1, SafeInvariant, FreshInit, FreshStep, WaitingInit, WaitingStep, BdbContractStep, PTL
     DEF Spec, Contract, Abstract!Contract

-----------------------------------------------------------------------------
(* The same of the daemon, which loads one module or the other.            *)

(* The disk module has no use for what the other one keeps.                *)
Idle == open = {} /\ issued = [d \in Dbs |-> Empty]

LEMMA OneModule == ModulesSpec => Spec \/ [](module = "disk" /\ Idle)
<1>1. ModulesInit => Init /\ (module = "bdb" \/ (module = "disk" /\ Idle))
  BY DEF ModulesInit, Init, Idle
<1>2. module = "bdb" /\ [ModulesNext]_moduleVars => (module = "bdb")' /\ [Next]_vars
  <2> SUFFICES ASSUME module = "bdb", [ModulesNext]_moduleVars
               PROVE  module' = "bdb" /\ [Next]_vars
    OBVIOUS
  <2>1. CASE ModulesNext
    <3>1. ~Disks /\ (LoadFails => Stop) /\ module' = module
      BY <2>1 DEF ModulesNext, Disks, LoadFails
    <3>2. Next
      BY <2>1, <3>1 DEF ModulesNext, Bdb, Next
    <3> QED
      BY <3>1, <3>2
  <2>2. CASE UNCHANGED moduleVars
    BY <2>2 DEF moduleVars, vars
  <2> QED
    BY <2>1, <2>2
<1>3. module = "disk" /\ Idle /\ [ModulesNext]_moduleVars => (module = "disk" /\ Idle)'
  BY DEF Idle, ModulesNext, Bdb, LoadFails, Disks, bdbOnly, moduleVars
<1> QED
  BY <1>1, <1>2, <1>3, PTL DEF ModulesSpec, Spec

(* What a process adds, to any of its databases, keeps its id and stays in *)
(* sight, and no id is in two databases.                                   *)
THEOREM IssuedAlwaysKept == ModulesSpec => []IssuedKept
<1>1. Idle => IssuedKept
  BY DEF Idle, IssuedKept, Empty
<1> QED
  BY <1>1, OneModule, BdbKeepsIssued, PTL

(* A process that has opened one database sees what it added itself and    *)
(* nothing else, each file once, as it is now, and counts that.            *)
THEOREM OnlyEverFresh == ModulesSpec => []OnlyFresh
<1>1. Idle => OnlyFresh
  BY DEF Idle, OnlyFresh
<1> QED
  BY <1>1, OneModule, BdbOnlyFresh, PTL

(* The Berkeley DB module keeps the contract of a database while a process *)
(* has opened one; where it is not loaded it promises nothing.             *)
THEOREM BdbImplementsDmapDb == ModulesSpec => Contract
<1>1. Idle => Abstract!Init
  BY DEF Idle, Abstract!Init, Abstract!Empty, Catalogue, Empty
<1>2. Idle /\ Idle' => UNCHANGED Abstract!contractVars
  BY DEF Idle, Abstract!contractVars, Catalogue
<1>3. [](module = "disk" /\ Idle) => Contract
  BY <1>1, <1>2, PTL DEF Contract, Abstract!Contract
<1> QED
  BY <1>3, OneModule, BdbKeepsContract, PTL

-----------------------------------------------------------------------------
(* The disk module.  While it is the bdb module that is loaded its table   *)
(* stays empty.                                                            *)

Issued ==
    /\ nextid \in 0 .. Base /\ db \in Dbs \cup {None}
    /\ DOMAIN table = Dbs
    /\ \A d \in Dbs : DOMAIN table[d] \subseteq nextid + 1 .. Base
    /\ \A d \in Dbs : \A id \in DOMAIN table[d] : \E f \in Files : table[d][id] = Disk!Hash(f)
    /\ todo \subseteq {f \in Files : DbOf[f] = db}
    /\ left \in Seq(Dbs)

DiskInv == module = "disk" => Issued
Bare    == module = "bdb" => table = Disk!Nothing

LEMMA DiskInit == ModulesInit => DiskInv /\ Bare
BY ConstantsAssumption DEF ModulesInit, Init, DiskInv, Bare, Issued, Disk!Nothing

LEMMA DiskAdd ==
    ASSUME Issued, NEW f \in Files, Disk!AddPath(f)
    PROVE  /\ Issued'
           /\ Disk!Abstract!Add(nextid, {<<db, Disk!Hash(f)>>})
           /\ DbOf[f] = db
<1>1. db \in Dbs /\ DbOf[f] = db /\ nextid \in 1 .. Base /\ nextid' = nextid - 1 /\ db' = db
  BY ConstantsAssumption DEF Issued, Disk!AddPath, Disk!NextId
<1>2. DOMAIN table' = Dbs /\ DOMAIN table = Dbs /\ \A d \in Dbs : d # db => table'[d] = table[d]
  BY DEF Issued, Disk!AddPath
<1>3. table'[db] = [id \in DOMAIN table[db] \cup {nextid} |->
                       IF id = nextid THEN Disk!Hash(f) ELSE table[db][id]]
  BY <1>1 DEF Issued, Disk!AddPath
<1>4. \A d \in Dbs : nextid \notin DOMAIN table[d]
  BY <1>1 DEF Issued
<1>5. Issued'
  <2>1. \A d \in Dbs : DOMAIN table'[d] \subseteq nextid' + 1 .. Base
    BY <1>1, <1>2, <1>3, ConstantsAssumption DEF Issued
  <2>2. \A d \in Dbs : \A id \in DOMAIN table'[d] : \E g \in Files : table'[d][id] = Disk!Hash(g)
    BY <1>1, <1>2, <1>3 DEF Issued
  <2> QED
    BY <1>1, <1>2, <2>1, <2>2, ConstantsAssumption DEF Issued, Disk!AddPath
<1>6. \A d \in Dbs : DOMAIN table'[d] = IF d = db THEN DOMAIN table[d] \cup {nextid} ELSE DOMAIN table[d]
  BY <1>2, <1>3
<1> DEFINE ids  == UNION {DOMAIN table[d] : d \in Dbs}
           ids1 == UNION {DOMAIN table'[d] : d \in Dbs}
           At(id)  == {<<d, table[d][id]>> : d \in {e \in Dbs : id \in DOMAIN table[e]}}
           At1(id) == {<<d, table'[d][id]>> : d \in {e \in Dbs : id \in DOMAIN table'[e]}}
<1>7. ids1 = ids \cup {nextid}
  BY <1>1, <1>6
<1>8. At1(nextid) = {<<db, Disk!Hash(f)>>}
  <2>1. \A e \in Dbs : nextid \in DOMAIN table'[e] <=> e = db
    BY <1>1, <1>4, <1>6
  <2>2. table'[db][nextid] = Disk!Hash(f)
    BY <1>3
  <2> QED
    BY <1>1, <2>1, <2>2
<1>9. ASSUME NEW id \in ids PROVE At1(id) = At(id) /\ id # nextid
  <2>1. id # nextid
    BY <1>4
  <2>2. \A e \in Dbs : id \in DOMAIN table'[e] <=> id \in DOMAIN table[e]
    BY <1>6, <2>1
  <2>3. \A e \in Dbs : id \in DOMAIN table[e] => table'[e][id] = table[e][id]
    BY <1>2, <1>3, <2>1
  <2> QED
    BY <2>1, <2>2, <2>3
<1>10. Disk!Catalogue = [id \in ids |-> At(id)] /\ Disk!Catalogue' = [id \in ids1 |-> At1(id)]
  BY DEF Disk!Catalogue
<1> HIDE DEF ids, ids1, At, At1
<1>11. DOMAIN Disk!Catalogue = ids
  BY <1>10
<1>12. nextid \notin ids
  BY <1>9
<1>13. Disk!Catalogue' = [i \in ids \cup {nextid} |->
           IF i = nextid THEN {<<db, Disk!Hash(f)>>} ELSE Disk!Catalogue[i]]
  BY <1>7, <1>8, <1>9, <1>10
<1>14. ~(up /\ left = <<>> /\ db = None) /\ ~(up /\ left = <<>> /\ db = None)'
  BY <1>1, ConstantsAssumption
<1>15. (up /\ left = <<>> /\ db = None)' = (up /\ left = <<>> /\ db = None)
  BY <1>14
<1> QED
  BY <1>1, <1>5, <1>11, <1>12, <1>13, <1>14, <1>15 DEF Disk!Abstract!Add

LEMMA DiskStep == DiskInv /\ Bare /\ [ModulesNext]_moduleVars => DiskInv' /\ Bare'
<1> SUFFICES ASSUME DiskInv, Bare, [ModulesNext]_moduleVars PROVE DiskInv' /\ Bare'
  OBVIOUS
<1>1. CASE Disks
  <2>1. module = "disk" /\ Issued /\ Disk!Next
    BY <1>1 DEF Disks, DiskInv
  <2>2. module' = module
    BY <1>1 DEF ModulesNext, moduleVars
  <2>3. Issued'
    <3>1. ASSUME NEW share \in Shares, Disk!Start(share) PROVE Issued'
      BY <2>1, <3>1, ConstantsAssumption DEF Issued, Disk!Start
    <3>2. CASE Disk!Open
      BY <2>1, <3>2 DEF Issued, Disk!Open
    <3>3. CASE Disk!Publish
      BY <2>1, <3>3 DEF Issued, Disk!Publish
    <3>4. CASE Disk!Stop
      BY <2>1, <3>4, ConstantsAssumption DEF Issued, Disk!Stop, Disk!Nothing
    <3>5. ASSUME NEW f \in Files, Disk!PassOver(f) PROVE Issued'
      BY <2>1, <3>5 DEF Issued, Disk!PassOver
    <3>6. ASSUME NEW f \in Files, Disk!AddPath(f) PROVE Issued'
      BY <2>1, <3>6, DiskAdd
    <3>7. ASSUME NEW f \in Files, NEW v \in Versions \cup {None}, Disk!WriteFile(f, v)
          PROVE  Issued'
      BY <2>1, <3>7 DEF Issued, Disk!WriteFile
    <3> QED
      BY <2>1, <3>1, <3>2, <3>3, <3>4, <3>5, <3>6, <3>7 DEF Disk!Next
  <2> QED
    BY <2>1, <2>2, <2>3 DEF DiskInv, Bare
<1>2. CASE Bdb
  BY <1>2 DEF Bdb, ModulesNext, DiskInv, Bare, diskOnly, moduleVars, Disk!Nothing
<1>3. CASE LoadFails
  <2>1. CASE module = "bdb"
    BY <1>3, <2>1 DEF LoadFails, ModulesNext, DiskInv, Bare, diskOnly, moduleVars, Disk!Nothing
  <2>2. CASE module = "disk"
    <3>1. Issued'
      BY <1>3, <2>2, ConstantsAssumption DEF LoadFails, DiskInv, Issued, Disk!Stop, Disk!Nothing
    <3> QED
      BY <2>2, <3>1 DEF ModulesNext, DiskInv, Bare, moduleVars
  <2>3. CASE module \notin {"bdb", "disk"}
    BY <2>3 DEF ModulesNext, DiskInv, Bare, moduleVars
  <2> QED
    BY <2>1, <2>2, <2>3
<1>4. CASE UNCHANGED moduleVars
  BY <1>4 DEF moduleVars, DiskInv, Bare, Issued, Disk!Nothing
<1> QED
  BY <1>1, <1>2, <1>3, <1>4 DEF ModulesNext

(* The catalogue depends on the table alone, and of no table is empty.     *)
LEMMA DiskCatalogue ==
    /\ table' = table => Disk!Catalogue' = Disk!Catalogue
    /\ table = Disk!Nothing => Disk!Catalogue = Disk!Abstract!Empty
<1>1. ASSUME table = Disk!Nothing PROVE Disk!Catalogue = Disk!Abstract!Empty
  <2>1. UNION {DOMAIN table[d] : d \in Dbs} = {}
    BY <1>1 DEF Disk!Nothing
  <2> QED
    BY <2>1 DEF Disk!Catalogue, Disk!Abstract!Empty
<1> QED
  BY <1>1 DEF Disk!Catalogue

(* Every step is one of the catalogue's, or none.                          *)
LEMMA DiskRefines ==
    DiskInv /\ Bare /\ Bare' /\ [ModulesNext]_moduleVars
        => [Disk!Abstract!Next]_(Disk!Abstract!contractVars)
<1> SUFFICES ASSUME DiskInv, Bare, Bare', [ModulesNext]_moduleVars
             PROVE  [Disk!Abstract!Next]_(Disk!Abstract!contractVars)
  OBVIOUS
<1> DEFINE published == up /\ left = <<>> /\ db = None
<1>1. ASSUME Disk!Catalogue' = Disk!Abstract!Empty, published' = FALSE
      PROVE  Disk!Abstract!Next
  BY <1>1 DEF Disk!Abstract!Next, Disk!Abstract!Restart, Disk!Abstract!Empty
<1>2. ASSUME Disk!Catalogue' = Disk!Catalogue, published' = TRUE
      PROVE  [Disk!Abstract!Next]_(Disk!Abstract!contractVars)
  <2>1. CASE published
    BY <1>2, <2>1 DEF Disk!Abstract!contractVars
  <2>2. CASE ~published
    BY <1>2, <2>2 DEF Disk!Abstract!Next, Disk!Abstract!Publish
  <2> QED
    BY <2>1, <2>2
<1>3. ASSUME Disk!Catalogue' = Disk!Catalogue, published' = published
      PROVE  UNCHANGED Disk!Abstract!contractVars
  BY <1>3 DEF Disk!Abstract!contractVars
<1> HIDE DEF published
<1>4. CASE Disks
  <2>1. module = "disk" /\ Issued /\ Disk!Next
    BY <1>4 DEF Disks, DiskInv
  <2>2. published' \in BOOLEAN /\ published \in BOOLEAN
    BY DEF published
  <2>3. ASSUME NEW share \in Shares, Disk!Start(share)
        PROVE  [Disk!Abstract!Next]_(Disk!Abstract!contractVars)
    <3>1. Disk!Catalogue' = Disk!Catalogue /\ ~published
      BY <2>3, DiskCatalogue DEF Disk!Start, published
    <3> QED
      BY <2>2, <3>1, <1>2, <1>3
  <2>4. CASE Disk!Open \/ Disk!Publish
    <3>1. Disk!Catalogue' = Disk!Catalogue /\ ~published
      BY <2>4, DiskCatalogue, ConstantsAssumption, <2>1 DEF Disk!Open, Disk!Publish, published
    <3> QED
      BY <2>2, <3>1, <1>2, <1>3
  <2>5. CASE Disk!Stop
    <3>1. published' = FALSE /\ table' = Disk!Nothing
      BY <2>5 DEF Disk!Stop, published
    <3>2. Disk!Catalogue' = Disk!Abstract!Empty
      BY <3>1, DiskCatalogue DEF Disk!Catalogue, Disk!Abstract!Empty, Disk!Nothing
    <3> QED
      BY <1>1, <3>1, <3>2
  <2>6. ASSUME NEW f \in Files, Disk!PassOver(f)
        PROVE  [Disk!Abstract!Next]_(Disk!Abstract!contractVars)
    <3>1. Disk!Catalogue' = Disk!Catalogue /\ published' = published
      BY <2>6, DiskCatalogue DEF Disk!PassOver, published
    <3> QED
      BY <3>1, <1>3
  <2>7. ASSUME NEW f \in Files, Disk!AddPath(f)
        PROVE  Disk!Abstract!Next
    <3>0. nextid \in 1 .. Base
      BY <2>1, <2>7, ConstantsAssumption DEF Issued, Disk!AddPath
    <3>1. Disk!Abstract!Add(nextid, {<<db, Disk!Hash(f)>>}) /\ DbOf[f] = db
      BY <2>1, <2>7, DiskAdd
    <3>2. {<<db, Disk!Hash(f)>>} \in {{<<DbOf[g], Disk!Hash(g)>>} : g \in Files}
      BY <3>1
    <3> QED
      BY <3>0, <3>1, <3>2 DEF Disk!Abstract!Next
  <2>8. ASSUME NEW f \in Files, NEW v \in Versions \cup {None}, Disk!WriteFile(f, v)
        PROVE  [Disk!Abstract!Next]_(Disk!Abstract!contractVars)
    <3>1. Disk!Catalogue' = Disk!Catalogue /\ published' = published
      BY <2>8, DiskCatalogue DEF Disk!WriteFile, published
    <3> QED
      BY <3>1, <1>3
  <2> QED
    BY <2>1, <2>3, <2>4, <2>5, <2>6, <2>7, <2>8 DEF Disk!Next
<1>5. CASE module = "bdb"
  <2>1. table = Disk!Nothing /\ table' = Disk!Nothing
    <3>1. module' = module
      BY DEF ModulesNext, moduleVars
    <3> QED
      BY <1>5, <3>1 DEF Bare, Disk!Nothing
  <2>2. Disk!Catalogue = Disk!Abstract!Empty /\ Disk!Catalogue' = Disk!Catalogue
    BY <2>1, DiskCatalogue
  <2>3. published' \in BOOLEAN
    BY DEF published
  <2> QED
    BY <1>1, <1>2, <2>2, <2>3
<1>6. CASE LoadFails
  <2>1. CASE module # "bdb"
    <3>1. published' = FALSE /\ table' = Disk!Nothing
      BY <1>6, <2>1 DEF LoadFails, Disk!Stop, published
    <3>2. Disk!Catalogue' = Disk!Abstract!Empty
      BY <3>1 DEF Disk!Catalogue, Disk!Abstract!Empty, Disk!Nothing
    <3> QED
      BY <1>1, <3>1, <3>2
  <2> QED
    BY <1>5, <2>1
<1>7. CASE UNCHANGED moduleVars
  <2>1. Disk!Catalogue' = Disk!Catalogue /\ published' = published
    BY <1>7, DiskCatalogue DEF moduleVars, published
  <2> QED
    BY <2>1, <1>3
<1>8. Bdb => module = "bdb"
  BY DEF Bdb
<1> QED
  BY <1>4, <1>5, <1>6, <1>7, <1>8 DEF ModulesNext

(* The disk module keeps the contract of a database for any files, any     *)
(* processes and any first id, with two databases that share the counter.  *)
THEOREM DiskImplementsDmapDb == ModulesSpec => DiskContract
<1>1. ModulesInit => Disk!Abstract!Init
  <2>1. ModulesInit => table = Disk!Nothing /\ ~up
    BY DEF ModulesInit, Init
  <2> QED
    BY <2>1, DiskCatalogue DEF Disk!Abstract!Init
<1>2. DiskInv /\ Bare /\ [ModulesNext]_moduleVars => DiskInv' /\ Bare'
  BY DiskStep
<1>3. DiskInv /\ Bare /\ Bare' /\ [ModulesNext]_moduleVars
        => [Disk!Abstract!Next]_(Disk!Abstract!contractVars)
  BY DiskRefines
<1> QED
  BY <1>1, <1>2, <1>3, DiskInit, PTL DEF ModulesSpec, DiskContract, Disk!Contract, Disk!Abstract!Contract
=============================================================================
