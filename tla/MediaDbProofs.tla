---------------------------- MODULE MediaDbProofs ----------------------------
(* What holds of MediaDb for all files, contents and configurations. *)
EXTENDS MediaDb, TLAPS

(* Where an addition stands, and what it has in hand there. *)
StepOK ==
    /\ step = "next" => rec = None
    /\ step # "next" => rec \in Records
    /\ step \in {"store", "insert"} => rec.meta # None
    /\ step = "read" => phase = "walk"
    /\ step # "next" => phase \in {"load", "walk"}
    /\ phase = "down" => table = EmptyTable
    /\ phase = "down" => unread = {} /\ stuck = {}
    /\ names \subseteq Cached(store)

TypeInv == TypeOK /\ StepOK

LEMMA RecordOfBlob ==
    ASSUME NEW b \in Blobs
    PROVE  RecordOf(b) \in Records /\ RecordOf(b).meta # None
BY ConstantsAssumption DEF Blobs, Records, RecordOf

LEMMA BlobOfRecord ==
    ASSUME cfg \in Configs, rec \in Records, rec.meta # None
    PROVE  BlobOf(rec) \in Blobs
BY DEF Blobs, Records, BlobOf

LEMMA TypeInit == Init => TypeInv
BY ConstantsAssumption DEF Init, TypeInv, TypeOK, StepOK, EmptyTable, Cached

LEMMA TypeStep == TypeInv /\ [Next]_vars => TypeInv'
<1> SUFFICES ASSUME TypeInv, [Next]_vars PROVE TypeInv'
  OBVIOUS
<1> USE DEF TypeInv, leftovers
<1>1. ASSUME NEW c \in Configs, Start(c) PROVE TypeInv'
  <2>1. FirstIds \subseteq Nat /\ c.dirs \in Seq(SUBSET Paths)
    BY ConstantsAssumption
  <2>2. TypeOK'
    BY <1>1, <2>1 DEF Start, TypeOK, Cached
  <2>3. StepOK'
    BY <1>1 DEF Start, StepOK, Cached
  <2> QED BY <2>2, <2>3
<1>2. ASSUME NEW k \in Contents, LoadEntry(k) PROVE TypeInv'
  <2>1. store[k] \in Blobs
    BY <1>2 DEF LoadEntry, TypeOK, StepOK, Cached
  <2>2. RecordOf(store[k]) \in Records /\ RecordOf(store[k]).meta # None
    BY <2>1, RecordOfBlob
  <2>3. TypeOK'
    BY <1>2, <2>2 DEF LoadEntry, TypeOK
  <2>4. StepOK'
    BY <1>2, <2>2 DEF LoadEntry, StepOK, Cached
  <2> QED BY <2>3, <2>4
<1>3. ASSUME NEW k \in Contents, UnlinkEntry(k) PROVE TypeInv'
  BY <1>3 DEF UnlinkEntry, TypeOK, StepOK, Cached
<1>15. ASSUME NEW k \in Contents, PassEntry(k) PROVE TypeInv'
  BY <1>15 DEF PassEntry, TypeOK, StepOK, Cached
<1>4. CASE EndLoad
  BY <1>4 DEF EndLoad, TypeOK, StepOK, Cached
<1>5. CASE OpenDir
  <2>1. Head(dirs) \in SUBSET Paths /\ Tail(dirs) \in Seq(SUBSET Paths)
    BY <1>5 DEF OpenDir, TypeOK
  <2> QED BY <1>5, <2>1 DEF OpenDir, TypeOK, StepOK, Cached
<1>6. ASSUME NEW p \in Paths, SkipFile(p) PROVE TypeInv'
  BY <1>6 DEF SkipFile, TypeOK, StepOK, Cached
<1>7. ASSUME NEW p \in Paths, HashFile(p) PROVE TypeInv'
  <2>1. fs[p] \in Contents
    BY <1>7 DEF HashFile, Skipped, TypeOK
  <2> QED BY <1>7, <2>1 DEF HashFile, TypeOK, StepOK, Cached, Records
<1>8. CASE ReadMeta
  <2> DEFINE c == fs[rec.location]
  <2>1. rec \in Records
    BY <1>8 DEF ReadMeta, StepOK
  <2>2. CASE Accepted(c)
    <3>1. c \in Contents /\ c # None
      BY <2>2, ConstantsAssumption DEF Accepted
    <3>2. rec' = [rec EXCEPT !.meta = c] /\ step' = "store"
      BY <1>8, <2>2 DEF ReadMeta
    <3>3. rec' \in Records /\ rec'.meta # None
      BY <2>1, <3>1, <3>2 DEF Records
    <3> QED BY <1>8, <3>2, <3>3 DEF ReadMeta, TypeOK, StepOK, Cached
  <2>3. CASE ~Accepted(c)
    BY <1>8, <2>3 DEF ReadMeta, TypeOK, StepOK, Cached
  <2> QED BY <2>2, <2>3
<1>9. CASE StoreRecord
  <2> DEFINE k == fs[rec.location]
  <2>1. rec \in Records /\ rec.meta # None
    BY <1>9 DEF StoreRecord, StepOK
  <2>2. BlobOf(rec) \in Blobs
    BY <2>1, BlobOfRecord DEF TypeOK
  <2>3. CASE k # None /\ cfg.cache = "writable"
    <3>1. k \in Contents
      BY <2>1, <2>3 DEF TypeOK, Records
    <3>2. BlobOf(rec) # None
      BY <2>2, ConstantsAssumption
    <3>3. store' = [store EXCEPT ![k] = BlobOf(rec)] /\ names' \subseteq names \cup {k}
      BY <1>9, <2>3 DEF StoreRecord
    <3>4. Cached(store) \cup {k} \subseteq Cached(store')
      BY <3>1, <3>2, <3>3 DEF Cached, TypeOK
    <3>5. TypeOK'
      BY <1>9, <2>1, <2>2, <3>1, <3>3 DEF StoreRecord, TypeOK
    <3>6. StepOK'
      BY <1>9, <2>1, <3>3, <3>4 DEF StoreRecord, StepOK
    <3> QED BY <3>5, <3>6
  <2>4. CASE ~(k # None /\ cfg.cache = "writable")
    BY <1>9, <2>4 DEF StoreRecord, TypeOK, StepOK, Cached
  <2> QED BY <2>3, <2>4
<1>10. CASE InsertRecord
  <2>1. rec \in Records /\ rec.meta # None
    BY <1>10 DEF InsertRecord, StepOK
  <2>2. TypeOK'
    BY <1>10, <2>1 DEF InsertRecord, Insertion, IssuedId, TypeOK
  <2>3. StepOK'
    BY <1>10 DEF InsertRecord, StepOK, Cached
  <2> QED BY <2>2, <2>3
<1>11. CASE Serve
  BY <1>11 DEF Serve, TypeOK, StepOK, Cached
<1>12. CASE Stop
  BY <1>12, ConstantsAssumption DEF Stop, TypeOK, StepOK, EmptyTable
<1>13. ASSUME NEW p \in Paths, NEW c \in Contents \cup {None}, WriteFile(p, c)
       PROVE TypeInv'
  BY <1>13 DEF WriteFile, TypeOK, StepOK, Cached
<1>14. CASE UNCHANGED vars
  BY <1>14 DEF vars, TypeOK, StepOK, Cached
<1> QED
  BY <1>1, <1>2, <1>3, <1>4, <1>5, <1>6, <1>7, <1>8, <1>9, <1>10, <1>11,
     <1>12, <1>13, <1>14, <1>15 DEF Next, Daemon

(* Every value keeps its shape: nothing half-made ever reaches the cache   *)
(* or the table, whatever changes under the daemon and wherever it stops.  *)
THEOREM TypeCorrect == Spec => []TypeInv
BY TypeInit, TypeStep, PTL DEF Spec

-----------------------------------------------------------------------------
(* The ids.  nextid stays at or below its first value, which is one of     *)
(* FirstIds while the daemon runs.                                         *)
IdsInv ==
    /\ IdsContiguous
    /\ nextid <= base
    /\ phase # "down" => base \in FirstIds

LEMMA NoIdsYet == ASSUME NEW n \in Nat PROVE n + 1 .. n = {} /\ n <= n
<1>1. \A i \in n + 1 .. n : FALSE
  OBVIOUS
<1> QED BY <1>1

LEMMA IdsInit == Init => IdsInv
BY DEF Init, IdsInv, IdsContiguous, EmptyTable

LEMMA IdsStep == TypeInv /\ IdsInv /\ [Next]_vars => IdsInv'
<1> SUFFICES ASSUME TypeInv, IdsInv, [Next]_vars PROVE IdsInv'
  OBVIOUS
<1>1. base \in Nat /\ nextid \in Nat
  BY DEF TypeInv, TypeOK
<1>2. ASSUME UNCHANGED <<table, base, nextid>>, phase = "down" => phase' = "down"
      PROVE IdsInv'
  BY <1>2 DEF IdsInv, IdsContiguous
<1>3. ASSUME NEW c \in Configs, Start(c) PROVE IdsInv'
  <2>1. table' = EmptyTable /\ base' \in FirstIds /\ nextid' = base'
    BY <1>3 DEF Start, TypeInv, StepOK
  <2>2. base' \in Nat
    BY <2>1, ConstantsAssumption
  <2>3. DOMAIN table' = {}
    BY <2>1 DEF EmptyTable
  <2>4. base' + 1 .. base' = {} /\ base' <= base'
    BY <2>2, NoIdsYet
  <2> QED BY <2>1, <2>2, <2>3, <2>4 DEF IdsInv, IdsContiguous
<1>4. CASE InsertRecord
  <2>1. DOMAIN table' = DOMAIN table \cup {nextid} /\ nextid > 0
    BY <1>4 DEF InsertRecord, Insertion, IssuedId
  <2>2. nextid' = nextid - 1 /\ UNCHANGED <<base, phase>>
    BY <1>4 DEF InsertRecord
  <2> QED BY <1>1, <2>1, <2>2 DEF IdsInv, IdsContiguous
<1>5. CASE Stop
  <2>1. DOMAIN table' = {} /\ nextid' = 0 /\ base' = 0 /\ phase' = "down"
    BY <1>5 DEF Stop, EmptyTable
  <2>2. 0 + 1 .. 0 = {}
    OBVIOUS
  <2> QED BY <2>1, <2>2 DEF IdsInv, IdsContiguous
<1>6. CASE UNCHANGED vars
  BY <1>2, <1>6 DEF vars
<1>7. ASSUME NEW k \in Contents, LoadEntry(k) \/ UnlinkEntry(k) \/ PassEntry(k) PROVE IdsInv'
  BY <1>2, <1>7 DEF LoadEntry, UnlinkEntry, PassEntry
<1>8. ASSUME NEW p \in Paths, SkipFile(p) \/ HashFile(p) PROVE IdsInv'
  BY <1>2, <1>8 DEF SkipFile, HashFile
<1>9. ASSUME NEW p \in Paths, NEW c \in Contents \cup {None}, WriteFile(p, c)
      PROVE IdsInv'
  BY <1>2, <1>9 DEF WriteFile
<1>10. CASE EndLoad \/ OpenDir \/ ReadMeta \/ StoreRecord \/ Serve
  <2>1. UNCHANGED <<table, base, nextid>> /\ (phase = "down" => phase' = "down")
    BY <1>10 DEF EndLoad, OpenDir, ReadMeta, StoreRecord, Serve
  <2> QED BY <1>2, <2>1
<1> QED
  BY <1>3, <1>4, <1>5, <1>6, <1>7, <1>8, <1>9, <1>10 DEF Next, Daemon

THEOREM IdsInvariant == Spec => [](TypeInv /\ IdsInv)
BY TypeInit, TypeStep, IdsInit, IdsStep, PTL DEF Spec

(* The ids in use are always an interval that ends at the first id given,  *)
(* so the count of records is the number of additions and the next id is   *)
(* a new one, whatever was loaded, skipped or interrupted.                 *)
THEOREM IdsAlwaysContiguous == Spec => []IdsContiguous
<1>1. IdsInv => IdsContiguous
  BY DEF IdsInv
<1> QED BY <1>1, IdsInvariant, PTL

-----------------------------------------------------------------------------
(* The database keeps the contract of DmapDb: every step of MediaDb is one *)
(* of the catalogue or leaves it alone.                                    *)
LEMMA EmptyCatalogue == EmptyTable = Catalogue!Empty
BY DEF EmptyTable, Catalogue!Empty

LEMMA ContractInit == Init => Catalogue!Init
BY EmptyCatalogue DEF Init, Catalogue!Init

LEMMA ContractStep ==
    TypeInv /\ IdsInv /\ [Next]_vars => [Catalogue!Next]_(Catalogue!contractVars)
<1> SUFFICES ASSUME TypeInv, IdsInv, [Next]_vars
             PROVE  [Catalogue!Next]_(Catalogue!contractVars)
  OBVIOUS
<1>1. ASSUME UNCHANGED table, (phase = "serve") = (phase' = "serve")
      PROVE  [Catalogue!Next]_(Catalogue!contractVars)
  BY <1>1 DEF Catalogue!contractVars
<1>2. CASE InsertRecord
  <2>1. nextid \in Ids
    BY <1>2 DEF InsertRecord, Ids, IdsInv, TypeInv, TypeOK, StepOK
  <2>2. nextid \notin DOMAIN table
    BY DEF IdsInv, IdsContiguous, TypeInv, TypeOK
  <2>3. rec \in Records /\ phase # "serve" /\ phase' = phase
    BY <1>2 DEF InsertRecord, TypeInv, StepOK
  <2>4. table' = [i \in DOMAIN table \cup {nextid} |->
                    IF i = nextid THEN rec ELSE table[i]]
    BY <1>2 DEF InsertRecord, Insertion, IssuedId
  <2>5. Catalogue!Add(nextid, rec)
    BY <2>1, <2>2, <2>3, <2>4 DEF Catalogue!Add
  <2> QED BY <2>1, <2>3, <2>5 DEF Catalogue!Next
<1>3. CASE Serve
  BY <1>3 DEF Serve, Catalogue!Next, Catalogue!Publish
<1>4. CASE Stop
  BY <1>4, EmptyCatalogue DEF Stop, Catalogue!Next, Catalogue!Restart
<1>5. ASSUME NEW c \in Configs, Start(c)
      PROVE  [Catalogue!Next]_(Catalogue!contractVars)
  BY <1>1, <1>5 DEF Start
<1>6. CASE UNCHANGED vars
  BY <1>1, <1>6 DEF vars
<1>7. ASSUME NEW k \in Contents, LoadEntry(k) \/ UnlinkEntry(k) \/ PassEntry(k)
      PROVE  [Catalogue!Next]_(Catalogue!contractVars)
  BY <1>1, <1>7 DEF LoadEntry, UnlinkEntry, PassEntry
<1>8. ASSUME NEW p \in Paths, SkipFile(p) \/ HashFile(p)
      PROVE  [Catalogue!Next]_(Catalogue!contractVars)
  BY <1>1, <1>8 DEF SkipFile, HashFile
<1>9. ASSUME NEW p \in Paths, NEW c \in Contents \cup {None}, WriteFile(p, c)
      PROVE  [Catalogue!Next]_(Catalogue!contractVars)
  BY <1>1, <1>9 DEF WriteFile
<1>10. CASE EndLoad \/ OpenDir \/ ReadMeta \/ StoreRecord
  <2>1. UNCHANGED table /\ (phase = "serve") = (phase' = "serve")
    BY <1>10 DEF EndLoad, OpenDir, ReadMeta, StoreRecord
  <2> QED BY <1>1, <2>1
<1> QED
  BY <1>2, <1>3, <1>4, <1>5, <1>6, <1>7, <1>8, <1>9, <1>10 DEF Next, Daemon

THEOREM ImplementsDmapDb == Spec => Contract
BY ContractInit, ContractStep, IdsInvariant, PTL
   DEF Spec, Contract, Catalogue!Contract

-----------------------------------------------------------------------------
(* The files that keep still while the daemon runs, whatever becomes of    *)
(* the others.  A record is added from the cache at most once for each     *)
(* entry, the entry of such a file is filed under the hash in its blob, so *)
(* no two of its entries are valid; the walk asks the table first.         *)
EntriesCoherent == CacheCoherent

TableFresh == FreshRecords

HandFresh == rec # None /\ rec.location \notin Moving =>
                /\ fs[rec.location] = rec.hash
                /\ ~Has(rec.location)
                /\ step # "read" => rec.meta = rec.hash

LoadedOnce == phase = "load" =>
                /\ \A id \in DOMAIN table :
                      table[id].location \notin Moving =>
                          table[id].hash \in Cached(store) \ names
                /\ rec # None /\ rec.location \notin Moving =>
                      rec.hash \in Cached(store) \ names

OneIdEach == ExactlyOnce

Steady == EntriesCoherent /\ TableFresh /\ HandFresh /\ LoadedOnce /\ OneIdEach

LEMMA SteadyInit == Init => Steady
BY DEF Init, Steady, EntriesCoherent, TableFresh, HandFresh, LoadedOnce, OneIdEach,
       CacheCoherent, FreshRecords, ExactlyOnce, Cached, EmptyTable

LEMMA SteadyStep == TypeInv /\ IdsInv /\ Steady /\ [Next]_vars => Steady'
<1> SUFFICES ASSUME TypeInv, IdsInv, Steady, [Next]_vars PROVE Steady'
  OBVIOUS
<1> USE DEF Steady, EntriesCoherent, TableFresh, OneIdEach, CacheCoherent, FreshRecords,
        ExactlyOnce, leftovers
<1>0. rec # None <=> step # "next"
  BY ConstantsAssumption DEF TypeInv, StepOK
<1>1. ASSUME NEW c \in Configs, Start(c) PROVE Steady'
  <2>1. table = EmptyTable /\ rec = None
    BY <1>1 DEF Start, TypeInv, StepOK, TypeOK
  <2> QED BY <1>1, <2>1 DEF Start, EntriesCoherent, TableFresh, HandFresh,
          LoadedOnce, OneIdEach, EmptyTable, Has
<1>2. ASSUME NEW k \in Contents, LoadEntry(k) PROVE Steady'
  <2>1. k \in Cached(store)
    BY <1>2 DEF LoadEntry, TypeInv, StepOK
  <2>2. rec' = RecordOf(store[k]) /\ names' = names \ {k} /\ step' = "store"
    BY <1>2 DEF LoadEntry
  <2>3. UNCHANGED <<fs, store, table, phase>>
    BY <1>2 DEF LoadEntry
  <2>4. /\ rec'.location = store[k].location /\ rec'.hash = store[k].hash
        /\ rec'.meta = store[k].meta
    BY <2>2 DEF RecordOf
  <2>5. CASE rec'.location \notin Moving
    <3>1. store[k].hash = k /\ store[k].meta = k
      BY <2>1, <2>4, <2>5
    <3>2. fs[store[k].location] = k
      BY <1>2, <3>1 DEF LoadEntry, Valid
    <3>3. ~Has(store[k].location)
      BY <1>2, <2>4, <2>5, <3>2 DEF LoadEntry, Has, LoadedOnce
    <3>4. HandFresh'
      BY <2>3, <2>4, <3>1, <3>2, <3>3 DEF HandFresh, Has
    <3>5. LoadedOnce'
      BY <2>1, <2>2, <2>3, <2>4, <3>1 DEF LoadedOnce, Cached
    <3> QED BY <2>3, <3>4, <3>5 DEF Cached
  <2>6. CASE rec'.location \in Moving
    BY <2>2, <2>3, <2>6 DEF HandFresh, LoadedOnce, Cached
  <2> QED BY <2>5, <2>6
<1>3. ASSUME NEW k \in Contents, UnlinkEntry(k) PROVE Steady'
  <2>1. rec = None
    BY <1>0, <1>3 DEF UnlinkEntry
  <2>2. /\ store' = [store EXCEPT ![k] = None] \/ store' = store
        /\ store \in [Contents -> Blobs \cup {None}]
    BY <1>3 DEF UnlinkEntry, TypeInv, TypeOK
  <2>3. EntriesCoherent'
    BY <2>2 DEF Cached
  <2>4. /\ names' = names \ {k} /\ k \in names
        /\ UNCHANGED <<fs, table, rec, phase>>
    BY <1>3 DEF UnlinkEntry
  <2>5. Cached(store) \ names \subseteq Cached(store') \ names'
    BY <2>2, <2>4 DEF Cached
  <2> QED BY <2>1, <2>3, <2>4, <2>5 DEF HandFresh, LoadedOnce
<1>15. ASSUME NEW k \in Contents, PassEntry(k) PROVE Steady'
  BY <1>15 DEF PassEntry, HandFresh, LoadedOnce, Cached, Has
<1>4. CASE EndLoad
  BY <1>4 DEF EndLoad, EntriesCoherent, TableFresh, HandFresh, LoadedOnce,
     OneIdEach, Cached, Has
<1>5. CASE OpenDir
  BY <1>5 DEF OpenDir, EntriesCoherent, TableFresh, HandFresh, LoadedOnce,
     OneIdEach, Cached, Has
<1>6. ASSUME NEW p \in Paths, SkipFile(p) PROVE Steady'
  BY <1>6 DEF SkipFile, EntriesCoherent, TableFresh, HandFresh, LoadedOnce,
     OneIdEach, Cached, Has
<1>7. ASSUME NEW p \in Paths, HashFile(p) PROVE Steady'
  <2>1. ~Has(p) /\ step' = "read" /\ phase' = "walk"
    BY <1>7 DEF HashFile, Skipped
  <2>2. rec' = [location |-> p, hash |-> fs[p], meta |-> None]
    BY <1>7 DEF HashFile
  <2>3. HandFresh'
    BY <1>7, <2>1, <2>2 DEF HashFile, HandFresh, Has
  <2> QED BY <1>7, <2>1, <2>3 DEF HashFile, EntriesCoherent, TableFresh,
          LoadedOnce, OneIdEach, Cached
<1>8. CASE ReadMeta
  <2>1. phase = "walk" /\ rec \in Records /\ rec # None
    BY <1>8, <1>0 DEF ReadMeta, TypeInv, StepOK
  <2>2. rec' = None \/ rec' = [rec EXCEPT !.meta = fs[rec.location]]
    BY <1>8 DEF ReadMeta
  <2>3. UNCHANGED <<fs, store, table, names, phase>>
    BY <1>8 DEF ReadMeta
  <2>4. HandFresh'
    <3> SUFFICES ASSUME rec' # None, rec'.location \notin Moving PROVE HandFresh'
      BY DEF HandFresh
    <3>1. /\ rec'.location = rec.location /\ rec'.hash = rec.hash
          /\ rec'.meta = fs[rec.location]
      BY <2>1, <2>2 DEF Records
    <3> QED BY <2>1, <2>3, <3>1 DEF HandFresh, Has
  <2> QED BY <2>1, <2>3, <2>4 DEF LoadedOnce, Cached
<1>9. CASE StoreRecord
  <2> DEFINE k == fs[rec.location]
  <2>1. rec \in Records /\ rec # None /\ step = "store" /\ rec.meta # None
    BY <1>9, <1>0 DEF StoreRecord, TypeInv, StepOK
  <2>2. rec.location \notin Moving => k = rec.hash /\ rec.meta = rec.hash
    BY <2>1 DEF HandFresh
  <2>3. UNCHANGED <<fs, table, phase, rec>> /\ step' = "insert"
    BY <1>9 DEF StoreRecord
  <2>4. TableFresh' /\ HandFresh' /\ OneIdEach'
    BY <2>1, <2>2, <2>3 DEF HandFresh, Has
  <2>5. CASE k # None /\ cfg.cache = "writable"
    <3>1. /\ store' = [store EXCEPT ![k] = BlobOf(rec)]
          /\ names' \subseteq names \cup ({k} \ Cached(store))
      BY <1>9, <2>5 DEF StoreRecord
    <3>2. /\ BlobOf(rec).hash = rec.hash /\ BlobOf(rec).meta = rec.meta
          /\ BlobOf(rec).location = rec.location
      BY DEF BlobOf
    <3>3. EntriesCoherent'
      BY <2>2, <3>1, <3>2 DEF Cached, TypeInv, TypeOK
    <3>4. BlobOf(rec) # None
      BY <2>1, BlobOfRecord, ConstantsAssumption DEF TypeInv, TypeOK, StepOK
    <3>5. Cached(store) \subseteq Cached(store')
      BY <3>1, <3>4 DEF Cached, TypeInv, TypeOK
    <3>6. LoadedOnce'
      BY <2>3, <3>1, <3>5 DEF LoadedOnce
    <3> QED BY <2>4, <3>3, <3>6
  <2>6. CASE ~(k # None /\ cfg.cache = "writable")
    <3>1. UNCHANGED <<store, names>>
      BY <1>9, <2>6 DEF StoreRecord
    <3> QED BY <2>3, <2>4, <3>1 DEF LoadedOnce, Cached
  <2> QED BY <2>5, <2>6
<1>10. CASE InsertRecord
  <2>1. rec # None /\ step = "insert" /\ rec' = None
    BY <1>10, <1>0 DEF InsertRecord
  <2>2. DOMAIN table' = DOMAIN table \cup {nextid}
    BY <1>10 DEF InsertRecord, Insertion, IssuedId
  <2>3. \A i \in DOMAIN table' : table'[i] = IF i = nextid THEN rec ELSE table[i]
    BY <1>10 DEF InsertRecord, Insertion, IssuedId
  <2>4. UNCHANGED <<fs, store, names, phase>>
    BY <1>10 DEF InsertRecord
  <2>5. TableFresh'
    BY <2>1, <2>2, <2>3, <2>4 DEF TableFresh, HandFresh
  <2>6. OneIdEach'
    BY <2>1, <2>2, <2>3 DEF OneIdEach, HandFresh, Has
  <2>7. LoadedOnce'
    BY <2>1, <2>2, <2>3, <2>4 DEF LoadedOnce, Cached
  <2> QED BY <2>1, <2>4, <2>5, <2>6, <2>7 DEF EntriesCoherent, HandFresh, Cached
<1>11. CASE Serve
  BY <1>11 DEF Serve, EntriesCoherent, TableFresh, HandFresh, LoadedOnce,
     OneIdEach, Cached, Has
<1>12. CASE Stop
  BY <1>12 DEF Stop, EntriesCoherent, TableFresh, HandFresh, LoadedOnce,
     OneIdEach, Cached, EmptyTable
<1>13. ASSUME NEW p \in Paths, NEW c \in Contents \cup {None}, WriteFile(p, c)
       PROVE Steady'
  <2>1. UNCHANGED <<store, table, rec, names, phase, step>>
    BY <1>13 DEF WriteFile
  <2>2. CASE phase = "down"
    <3>1. table = EmptyTable /\ rec = None
      BY <2>2 DEF TypeInv, StepOK
    <3> QED BY <2>1, <2>2, <3>1 DEF HandFresh, LoadedOnce, Cached, EmptyTable
  <2>3. CASE p \in Moving
    <3>1. \A q : q \notin Moving => fs'[q] = fs[q]
      BY <1>13, <2>3 DEF WriteFile, TypeInv, TypeOK
    <3> QED BY <2>1, <3>1 DEF HandFresh, LoadedOnce, Cached, Has
  <2> QED BY <1>13, <2>2, <2>3 DEF WriteFile
<1>14. CASE UNCHANGED vars
  BY <1>14 DEF vars, EntriesCoherent, TableFresh, HandFresh, LoadedOnce,
     OneIdEach, Cached, Has
<1> QED
  BY <1>1, <1>2, <1>3, <1>4, <1>5, <1>6, <1>7, <1>8, <1>9, <1>10, <1>11,
     <1>12, <1>13, <1>14, <1>15 DEF Next, Daemon

THEOREM SteadyInvariant == Spec => [](TypeInv /\ IdsInv /\ Steady)
BY TypeInit, TypeStep, IdsInit, IdsStep, SteadyInit, SteadyStep, PTL DEF Spec

(* No location that keeps still ever has two ids. *)
THEOREM EachFileOnce == Spec => []ExactlyOnce
<1>1. Steady => ExactlyOnce
  BY DEF Steady, OneIdEach
<1> QED BY <1>1, SteadyInvariant, PTL

(* Every record of a file that keeps still describes it as it is now.      *)
THEOREM RecordsAreFresh == Spec => []FreshRecords
<1>1. Steady => FreshRecords
  BY DEF Steady, TableFresh
<1> QED BY <1>1, SteadyInvariant, PTL

(* The cache never holds the record of such a file under another content   *)
(* than its own, nor does what other files do to the cache change that.    *)
THEOREM CacheStaysCoherent == Spec => []CacheCoherent
<1>1. Steady => CacheCoherent
  BY DEF Steady, EntriesCoherent
<1> QED BY <1>1, SteadyInvariant, PTL

-----------------------------------------------------------------------------
(* What has become of each cache entry since this run started: not come to *)
(* yet, or the record made of it is in the table or on its way there, or   *)
(* loading left it behind.  Those that could not be unlinked stay stale.   *)
OnItsWay(k) ==
    /\ step = "insert" \/ (step = "store" /\ phase = "load")
    /\ rec = RecordOf(store[k])

Kept ==
    phase # "down" /\ cfg.cache # "missing" =>
        \A k \in Cached(store) \ (unread \cup stuck) :
            \/ phase = "load" /\ k \in names
            \/ \E id \in DOMAIN table : table[id] = RecordOf(store[k])
            \/ OnItsWay(k)

StuckStale ==
    \A k \in stuck \cap Cached(store) :
        store[k].location \notin Moving => ~Valid(store[k])

LEMMA KeptStep ==
    TypeInv /\ IdsInv /\ Kept /\ [Next]_vars => Kept'
<1> SUFFICES ASSUME TypeInv, IdsInv, Kept, [Next]_vars,
                    phase' # "down", cfg'.cache # "missing",
                    NEW k \in Cached(store'), k \notin unread' \cup stuck'
             PROVE  \/ phase' = "load" /\ k \in names'
                    \/ \E id \in DOMAIN table' : table'[id] = RecordOf(store'[k])
                    \/ OnItsWay(k)'
  BY DEF Kept, Cached, RecordOf
<1> USE DEF leftovers
<1> DEFINE Goal == \/ phase' = "load" /\ k \in names'
                   \/ \E id \in DOMAIN table' : table'[id] = RecordOf(store'[k])
                   \/ OnItsWay(k)'
<1>0. store \in [Contents -> Blobs \cup {None}] /\ k \in Contents
  BY DEF TypeInv, TypeOK, Cached
<1>1. ASSUME NEW c \in Configs, Start(c) PROVE Goal
  BY <1>1 DEF Start, Cached
<1>2. ASSUME UNCHANGED <<store, cfg, table>>, phase # "down",
             phase' = "load" \/ phase = phase' \/ names = {},
             OnItsWay(k) => OnItsWay(k)',
             k \in names => k \in names' \/ OnItsWay(k)',
             unread \subseteq unread', stuck \subseteq stuck'
      PROVE  Goal
  BY <1>2 DEF Kept, Cached
<1>3. ASSUME NEW e \in Contents, LoadEntry(e) PROVE Goal
  BY <1>2, <1>3 DEF LoadEntry, OnItsWay
<1>4. ASSUME NEW e \in Contents, UnlinkEntry(e) PROVE Goal
  <2>1. k # e
    BY <1>0, <1>4 DEF UnlinkEntry, Cached, TypeInv, TypeOK
  <2>2. store'[k] = store[k] /\ k \in Cached(store)
    BY <1>0, <1>4, <2>1 DEF UnlinkEntry, Cached
  <2>3. k \notin unread \cup stuck /\ (k \in names => k \in names')
    BY <1>4, <2>1 DEF UnlinkEntry
  <2>4. phase = "load" /\ step = "next" /\ UNCHANGED <<phase, table, cfg>>
    BY <1>4 DEF UnlinkEntry
  <2> QED BY <2>2, <2>3, <2>4 DEF Kept, OnItsWay
<1>13. ASSUME NEW e \in Contents, PassEntry(e) PROVE Goal
  <2>1. k # e /\ k \notin unread \cup stuck /\ (k \in names => k \in names')
    BY <1>13 DEF PassEntry
  <2>2. phase = "load" /\ step = "next" /\ UNCHANGED <<phase, table, cfg, store>>
    BY <1>13 DEF PassEntry
  <2> QED BY <2>1, <2>2 DEF Kept, OnItsWay, Cached
<1>5. CASE EndLoad
  BY <1>2, <1>5 DEF EndLoad, OnItsWay
<1>6. ASSUME NEW p \in Paths, SkipFile(p) \/ HashFile(p) PROVE Goal
  BY <1>2, <1>6 DEF SkipFile, HashFile, OnItsWay
<1>7. CASE OpenDir \/ Serve \/ UNCHANGED vars
  <2>1. /\ UNCHANGED <<store, cfg, table, step, rec, names, unread, stuck>>
        /\ phase = phase' \/ (phase = "walk" /\ phase' = "serve" /\ step = "next")
    BY <1>7 DEF OpenDir, Serve, vars
  <2> QED BY <2>1 DEF OnItsWay, Kept
<1>8. CASE ReadMeta
  <2>1. /\ step = "read" /\ phase = "walk"
        /\ UNCHANGED <<store, cfg, table, phase, names, unread, stuck>>
    BY <1>8 DEF ReadMeta, TypeInv, StepOK
  <2> QED BY <2>1 DEF OnItsWay, Kept
<1>9. CASE StoreRecord
  <2> DEFINE e == fs[rec.location]
  <2>1. rec \in Records /\ step = "store" /\ step' = "insert"
    BY <1>9 DEF StoreRecord, TypeInv, StepOK
  <2>2. UNCHANGED <<cfg, table, phase, rec>> /\ phase # "down"
    BY <1>9, <2>1 DEF StoreRecord, TypeInv, StepOK
  <2>3. ASSUME store'[k] = store[k], k \in Cached(store), names \subseteq names',
               k \notin unread \cup stuck
        PROVE  Goal
    BY <2>1, <2>2, <2>3 DEF Kept, OnItsWay
  <2>4. CASE e # None /\ cfg.cache = "writable"
    <3>1. /\ store' = [store EXCEPT ![e] = BlobOf(rec)] /\ names \subseteq names'
          /\ unread' = unread \ {e} /\ stuck' = stuck \ {e}
      BY <1>9, <2>4 DEF StoreRecord
    <3>2. CASE k = e
      <4>1. store'[k] = BlobOf(rec)
        BY <1>0, <3>1, <3>2
      <4>2. RecordOf(BlobOf(rec)) = rec
        BY <2>1 DEF RecordOf, BlobOf, Records
      <4> QED BY <2>1, <2>2, <4>1, <4>2 DEF OnItsWay
    <3>3. CASE k # e
      BY <1>0, <2>3, <3>1, <3>3 DEF Cached
    <3> QED BY <3>2, <3>3
  <2>5. CASE ~(e # None /\ cfg.cache = "writable")
    BY <1>9, <2>3, <2>5 DEF StoreRecord
  <2> QED BY <2>4, <2>5
<1>10. CASE InsertRecord
  <2>1. nextid \notin DOMAIN table
    BY DEF IdsInv, IdsContiguous, TypeInv, TypeOK
  <2>2. /\ DOMAIN table' = DOMAIN table \cup {nextid} /\ table'[nextid] = rec
        /\ \A id \in DOMAIN table : table'[id] = table[id]
    BY <1>10, <2>1 DEF InsertRecord, Insertion, IssuedId
  <2>3. UNCHANGED <<store, cfg, phase, names, unread, stuck>>
    BY <1>10 DEF InsertRecord
  <2> QED BY <2>2, <2>3 DEF Kept, OnItsWay
<1>11. CASE Stop
  BY <1>11 DEF Stop
<1>12. ASSUME NEW p \in Paths, NEW c \in Contents \cup {None}, WriteFile(p, c) PROVE Goal
  BY <1>2, <1>12 DEF WriteFile, OnItsWay
<1> QED
  BY <1>1, <1>3, <1>4, <1>5, <1>6, <1>7, <1>8, <1>9, <1>10, <1>11, <1>12, <1>13
     DEF Next, Daemon

LEMMA StuckStep == TypeInv /\ StuckStale /\ [Next]_vars => StuckStale'
<1> SUFFICES ASSUME TypeInv, StuckStale, [Next]_vars PROVE StuckStale'
  OBVIOUS
<1> USE DEF leftovers
<1>1. ASSUME stuck' = {} PROVE StuckStale'
  BY <1>1 DEF StuckStale
<1>2. ASSUME UNCHANGED <<stuck, cfg, store>>,
             \A q : q \notin Moving => fs'[q] = fs[q]
      PROVE  StuckStale'
  BY <1>2 DEF StuckStale, Valid, Cached
<1>3. ASSUME NEW c \in Configs, Start(c) PROVE StuckStale'
  BY <1>1, <1>3 DEF Start, TypeInv, StepOK
<1>4. ASSUME NEW k \in Contents, UnlinkEntry(k) PROVE StuckStale'
  <2>1. UNCHANGED <<fs, cfg>> /\ ~Valid(store[k])
    BY <1>4 DEF UnlinkEntry
  <2>2. CASE store' = [store EXCEPT ![k] = None] /\ UNCHANGED stuck
    BY <2>1, <2>2 DEF StuckStale, Valid, Cached, TypeInv, TypeOK
  <2>3. CASE stuck' = stuck \cup {k} /\ UNCHANGED store
    BY <2>1, <2>3 DEF StuckStale, Valid, Cached
  <2> QED BY <1>4, <2>2, <2>3 DEF UnlinkEntry
<1>5. CASE StoreRecord
  <2> DEFINE e == fs[rec.location]
  <2>1. CASE e # None /\ cfg.cache = "writable"
    <3>1. /\ store' = [store EXCEPT ![e] = BlobOf(rec)] /\ stuck' = stuck \ {e}
          /\ UNCHANGED <<fs, cfg>>
      BY <1>5, <2>1 DEF StoreRecord
    <3> QED BY <3>1 DEF StuckStale, Valid, Cached, TypeInv, TypeOK
  <2>2. CASE ~(e # None /\ cfg.cache = "writable")
    BY <1>2, <1>5, <2>2 DEF StoreRecord
  <2> QED BY <2>1, <2>2
<1>6. CASE Stop
  BY <1>1, <1>6 DEF Stop
<1>7. ASSUME NEW p \in Paths, NEW c \in Contents \cup {None}, WriteFile(p, c)
      PROVE  StuckStale'
  <2>1. CASE phase = "down"
    BY <1>1, <1>7, <2>1 DEF WriteFile, TypeInv, StepOK
  <2>2. CASE p \in Moving
    <3>1. \A q : q \notin Moving => fs'[q] = fs[q]
      BY <1>7, <2>2 DEF WriteFile, TypeInv, TypeOK
    <3> QED BY <1>2, <1>7, <3>1 DEF WriteFile
  <2> QED BY <1>7, <2>1, <2>2 DEF WriteFile
<1>8. ASSUME NEW k \in Contents, LoadEntry(k) \/ PassEntry(k) PROVE StuckStale'
  BY <1>2, <1>8 DEF LoadEntry, PassEntry
<1>9. ASSUME NEW p \in Paths, SkipFile(p) \/ HashFile(p) PROVE StuckStale'
  BY <1>2, <1>9 DEF SkipFile, HashFile
<1>10. CASE EndLoad \/ OpenDir \/ Serve
  BY <1>2, <1>10 DEF EndLoad, OpenDir, Serve
<1>11. CASE ReadMeta \/ InsertRecord
  BY <1>2, <1>11 DEF ReadMeta, InsertRecord
<1>12. CASE UNCHANGED vars
  BY <1>2, <1>12 DEF vars
<1> QED
  BY <1>3, <1>4, <1>5, <1>6, <1>7, <1>8, <1>9, <1>10, <1>11, <1>12 DEF Next, Daemon

LEMMA KeptInvariant == Spec => [](TypeInv /\ IdsInv /\ Steady /\ Kept /\ StuckStale)
<1>1. Init => Kept /\ StuckStale
  BY DEF Init, Kept, StuckStale
<1> QED BY <1>1, KeptStep, StuckStep, SteadyInvariant, PTL DEF Spec

(* Nothing is left in the cache, once it is loaded, that is not served,    *)
(* but what could not be read or removed.                                  *)
THEOREM CacheAlwaysServed == Spec => []CacheServed
<1>1. TypeInv /\ Kept => CacheServed
  BY DEF CacheServed, Kept, OnItsWay
<1> QED BY <1>1, KeptInvariant, PTL

(* No file is read again whose record this run could load: neither another *)
(* file's change nor an entry that cannot be removed brings it about.      *)
THEOREM CacheAlwaysUsed == Spec => []CacheUsed
<1>1. TypeInv /\ Steady /\ Kept /\ StuckStale => CacheUsed
  <2> SUFFICES ASSUME TypeInv, Steady, Kept, StuckStale,
                      step = "read", cfg.cache # "missing",
                      rec.location \notin Moving, rec.hash \notin unread,
                      store[rec.hash] # None,
                      store[rec.hash].version = cfg.version,
                      store[rec.hash].location = rec.location
               PROVE  FALSE
    BY DEF CacheUsed
  <2>1. rec \in Records /\ phase = "walk"
    BY DEF TypeInv, StepOK
  <2>2. rec # None /\ rec.hash \in Cached(store)
    BY <2>1, ConstantsAssumption DEF Cached, Records
  <2>3. fs[rec.location] = rec.hash /\ ~Has(rec.location)
    BY <2>2 DEF Steady, HandFresh
  <2>4. store[rec.hash].hash = rec.hash
    BY <2>2 DEF Steady, EntriesCoherent, CacheCoherent
  <2>5. rec.hash \notin stuck
    BY <2>2, <2>3, <2>4 DEF StuckStale, Valid
  <2>6. PICK id \in DOMAIN table : table[id] = RecordOf(store[rec.hash])
    BY <2>1, <2>2, <2>5 DEF Kept, OnItsWay
  <2>7. table[id].location = rec.location
    BY <2>6 DEF RecordOf
  <2> QED BY <2>3, <2>7 DEF Has
<1> QED BY <1>1, KeptInvariant, PTL

-----------------------------------------------------------------------------
(* The walk: dirs is what is left of the directories of this run, and what *)
(* lay in those before it is in the table, or on its way there.            *)
Covered(p) == Has(p) \/ p \in files \/ (rec # None /\ rec.location = p)

Left ==
    /\ Len(dirs) <= Len(cfg.dirs)
    /\ \A n \in 1 .. Len(dirs) : dirs[n] = cfg.dirs[Len(cfg.dirs) - Len(dirs) + n]

Done ==
    \A n \in 1 .. Len(cfg.dirs) - Len(dirs) :
        \A p \in cfg.dirs[n] \ Moving : Accepted(fs[p]) => Covered(p)

Walked ==
    /\ phase # "down" => Left /\ Done
    /\ phase = "serve" => files = {} /\ dirs = <<>>

LEMMA WalkedStep ==
    TypeInv /\ IdsInv /\ Walked /\ [Next]_vars => Walked'
<1> SUFFICES ASSUME TypeInv, IdsInv, Walked, [Next]_vars PROVE Walked'
  OBVIOUS
<1>0. /\ cfg.dirs \in Seq(SUBSET Paths) /\ dirs \in Seq(SUBSET Paths)
      /\ \A p : Accepted(fs[p]) => fs[p] # None
  BY ConstantsAssumption DEF TypeInv, TypeOK, Accepted
<1>1. ASSUME NEW c \in Configs, Start(c) PROVE Walked'
  <2>1. /\ cfg' = c /\ dirs' = c.dirs /\ phase' = "load"
        /\ c.dirs \in Seq(SUBSET Paths)
    BY <1>1, ConstantsAssumption DEF Start
  <2>2. Left'
    BY <2>1 DEF Left
  <2>3. Done'
    BY <2>1 DEF Done
  <2> QED BY <2>1, <2>2, <2>3 DEF Walked
<1>2. ASSUME UNCHANGED <<cfg, dirs>>, phase # "down",
             phase' = "serve" => files' = {} /\ dirs' = <<>>,
             \A p : p \notin Moving => fs'[p] = fs[p],
             \A p : Accepted(fs[p]) /\ Covered(p) => Covered(p)'
      PROVE  Walked'
  <2>1. Left' /\ (\A p : p \notin Moving => (Accepted(fs[p])' => Accepted(fs[p])))
    BY <1>2 DEF Walked, Left, Accepted
  <2>2. Done'
    BY <1>2, <2>1 DEF Walked, Done
  <2> QED BY <1>2, <2>1, <2>2 DEF Walked
<1>3. ASSUME NEW k \in Contents, LoadEntry(k) \/ UnlinkEntry(k) \/ PassEntry(k) PROVE Walked'
  <2>1. rec = None
    BY <1>3 DEF LoadEntry, UnlinkEntry, PassEntry, TypeInv, StepOK
  <2> QED BY <1>2, <1>3, <2>1 DEF LoadEntry, UnlinkEntry, PassEntry, Covered, Has
<1>4. CASE EndLoad
  BY <1>2, <1>4 DEF EndLoad, Covered, Has
<1>5. CASE OpenDir
  <2> DEFINE n == Len(cfg.dirs) - Len(dirs) + 1
  <2>1. /\ phase = "walk" /\ dirs # <<>> /\ files = {} /\ rec = None
        /\ files' = {p \in Head(dirs) : fs[p] # None} /\ dirs' = Tail(dirs)
        /\ UNCHANGED <<fs, cfg, table, phase, rec>>
    BY <1>5 DEF OpenDir, TypeInv, StepOK
  <2>2. Left /\ Done
    BY <2>1 DEF Walked
  <2>3. /\ Head(dirs) = dirs[1] /\ Len(dirs) \in Nat \ {0} /\ Len(dirs') = Len(dirs) - 1
        /\ \A i \in 1 .. Len(dirs') : dirs'[i] = dirs[i + 1]
    BY <1>0, <2>1
  <2>4. Head(dirs) = cfg.dirs[n]
    BY <1>0, <2>2, <2>3 DEF Left
  <2>5. Left'
    BY <1>0, <2>1, <2>2, <2>3 DEF Left
  <2>6. Len(cfg'.dirs) - Len(dirs') = n
    BY <1>0, <2>1, <2>3
  <2>7. ASSUME NEW i \in 1 .. n, NEW p \in cfg.dirs[i] \ Moving, Accepted(fs[p])
        PROVE  Covered(p)'
    <3>1. CASE i = n
      BY <1>0, <2>1, <2>4, <2>7, <3>1 DEF Covered
    <3>2. CASE i # n
      <4>1. i \in 1 .. Len(cfg.dirs) - Len(dirs)
        <5>1. Len(cfg.dirs) - Len(dirs) \in Nat
          BY <1>0, <2>2, <2>3 DEF Left
        <5> QED BY <3>2, <5>1
      <4> QED BY <2>1, <2>2, <2>7, <4>1 DEF Done, Covered, Has
    <3> QED BY <3>1, <3>2
  <2>8. Done'
    BY <2>1, <2>6, <2>7 DEF Done, Accepted
  <2> QED BY <2>1, <2>5, <2>8 DEF Walked
<1>6. ASSUME NEW p \in Paths, SkipFile(p) PROVE Walked'
  BY <1>0, <1>2, <1>6 DEF SkipFile, Skipped, Covered, Has
<1>7. ASSUME NEW p \in Paths, HashFile(p) PROVE Walked'
  <2>1. rec = None /\ rec'.location = p
    BY <1>7 DEF HashFile, TypeInv, StepOK
  <2>2. rec' # None
    <3>1. fs[p] \in Contents
      BY <1>7 DEF HashFile, Skipped, TypeInv, TypeOK
    <3> QED BY <1>7, <3>1, ConstantsAssumption DEF HashFile, Records
  <2> QED BY <1>2, <1>7, <2>1, <2>2 DEF HashFile, Covered, Has
<1>8. CASE ReadMeta
  <2> DEFINE c == fs[rec.location]
  <2>1. /\ rec \in Records /\ phase = "walk"
        /\ UNCHANGED <<fs, cfg, table, dirs, files, phase>>
    BY <1>8 DEF ReadMeta, TypeInv, StepOK
  <2>2. CASE Accepted(c)
    <3>1. c \in Contents /\ rec' = [rec EXCEPT !.meta = c]
      BY <1>8, <2>2, ConstantsAssumption DEF ReadMeta, Accepted
    <3>2. rec' \in Records /\ rec'.location = rec.location
      BY <2>1, <3>1 DEF Records
    <3>3. rec' # None
      BY <3>2, ConstantsAssumption
    <3> QED BY <1>2, <2>1, <3>2, <3>3 DEF Covered, Has
  <2>3. CASE ~Accepted(c)
    BY <1>2, <1>8, <2>1, <2>3 DEF ReadMeta, Covered, Has
  <2> QED BY <2>2, <2>3
<1>9. CASE StoreRecord
  BY <1>2, <1>9 DEF StoreRecord, Covered, Has, TypeInv, StepOK
<1>10. CASE InsertRecord
  <2>1. nextid \notin DOMAIN table
    BY DEF IdsInv, IdsContiguous, TypeInv, TypeOK
  <2>2. /\ DOMAIN table' = DOMAIN table \cup {nextid} /\ table'[nextid] = rec
        /\ \A id \in DOMAIN table : table'[id] = table[id]
    BY <1>10, <2>1 DEF InsertRecord, Insertion, IssuedId
  <2>3. phase \in {"load", "walk"} /\ UNCHANGED <<fs, cfg, dirs, files, phase>>
    BY <1>10 DEF InsertRecord, TypeInv, StepOK
  <2> QED BY <1>2, <2>2, <2>3 DEF Covered, Has
<1>11. CASE Serve
  <2>1. /\ phase = "walk" /\ files' = {} /\ dirs' = <<>>
        /\ UNCHANGED <<fs, cfg, table, dirs, files, rec>>
    BY <1>11 DEF Serve
  <2> QED BY <2>1 DEF Walked, Left, Done, Covered, Has, Accepted
<1>12. CASE Stop
  BY <1>12 DEF Stop, Walked
<1>13. ASSUME NEW p \in Paths, NEW c \in Contents \cup {None}, WriteFile(p, c) PROVE Walked'
  <2>1. UNCHANGED <<cfg, dirs, table, rec, phase>> /\ files \subseteq files'
    BY <1>13 DEF WriteFile
  <2>2. CASE phase = "down"
    BY <2>1, <2>2 DEF Walked
  <2>3. CASE phase # "down" /\ p \in Moving
    <3>1. \A q : q \notin Moving => fs'[q] = fs[q]
      BY <1>13, <2>3 DEF WriteFile, TypeInv, TypeOK
    <3>2. phase' = "serve" => files' = {} /\ dirs' = <<>>
      BY <1>13, <2>1 DEF WriteFile, OpenFiles, Walked
    <3> QED BY <1>2, <2>1, <2>3, <3>1, <3>2 DEF Covered, Has
  <2> QED BY <1>13, <2>2, <2>3 DEF WriteFile
<1>14. CASE UNCHANGED vars
  BY <1>14 DEF vars, Walked, Left, Done, Covered, Has, Accepted
<1> QED
  BY <1>1, <1>3, <1>4, <1>5, <1>6, <1>7, <1>8, <1>9, <1>10, <1>11, <1>12, <1>13, <1>14
     DEF Next, Daemon

(* A share that is published lacks no file that can be read and that keeps *)
(* still, whatever files come and go in the same directories meanwhile.    *)
THEOREM SharesAreComplete == Spec => []Complete
<1>1. Init => Walked
  BY DEF Init, Walked
<1>2. TypeInv /\ Walked => Complete
  <2> SUFFICES ASSUME TypeInv, Walked, phase = "serve", NEW d \in DOMAIN cfg.dirs,
                      NEW p \in cfg.dirs[d] \ Moving, Accepted(fs[p])
               PROVE  Has(p)
    BY DEF Complete
  <2>1. rec = None /\ files = {} /\ dirs = <<>> /\ Done
    BY DEF TypeInv, StepOK, Walked
  <2>2. cfg.dirs \in Seq(SUBSET Paths)
    BY ConstantsAssumption DEF TypeInv, TypeOK
  <2>3. d \in 1 .. Len(cfg.dirs) - Len(dirs)
    BY <2>1, <2>2
  <2> QED BY <2>1, <2>3 DEF Done, Covered
<1> QED BY <1>1, <1>2, WalkedStep, IdsInvariant, PTL DEF Spec
=============================================================================
