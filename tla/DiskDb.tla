-------------------------------- MODULE DiskDb --------------------------------
(***************************************************************************)
(* The disk database module (dmapd-dmap-db-disk.c).  Of a record it keeps  *)
(* in memory, under the id, the hash of its location; the record itself    *)
(* goes to db-dir, and nextid is a static variable, as in BdbDb.           *)
(*                                                                         *)
(* The hash of a location is looked up as if the location had been kept,   *)
(* and a record is read from db-dir under that hash, while cache_store     *)
(* names it after what the file contains.  So neither lookup ever finds    *)
(* anything, and what is in db-dir makes no difference.                    *)
(***************************************************************************)
EXTENDS Naturals, Sequences

CONSTANTS
    Files,      \* the media files
    Versions,   \* what a file can contain
    DbOf,       \* file -> the database it belongs to
    Dbs,        \* the databases: "DAAP", "DPAP"
    Shares,     \* what a process can be started to serve: sequences of databases
    Base,       \* G_MAXINT
    None        \* no file; no database

VARIABLES
    fs,         \* file -> its version, or None
    up,         \* is there a process?
    left,       \* the databases it has not opened yet
    db,         \* the one that is being filled, or None
    todo,       \* the files its walk comes to; again, if under two directories
    nextid,     \* the static variable
    table       \* database -> its hash table: id -> hash of a location

diskVars == <<fs, up, left, db, todo, nextid, table>>

-----------------------------------------------------------------------------
(* A slip: the counter is read and not moved. *)
Slip_NextId == nextid

-----------------------------------------------------------------------------
(* dmap_hash_generate: no hash is a location.                              *)
Hash(location) == <<"hash", location>>

(* dmapd_dmap_db_disk_lookup_id_by_location.                               *)
Found(f) == \E id \in DOMAIN table[db] : table[db][id] = f

(* nextid--, as an effect.                                                 *)
NextId == nextid - 1

Nothing == [d \in Dbs |-> [id \in {} |-> 0]]

Init ==
    /\ fs \in [Files -> Versions \cup {None}]
    /\ up = FALSE /\ left = <<>> /\ db = None /\ todo = {}
    /\ nextid = Base /\ table = Nothing

Start(share) ==
    /\ ~up
    /\ up' = TRUE /\ left' = share
    /\ UNCHANGED <<fs, db, todo, nextid, table>>

(* dmapd_dmap_db_disk_init; then the walk of its directories begins.       *)
Open ==
    /\ up /\ db = None /\ left # <<>>
    /\ db' = Head(left) /\ left' = Tail(left)
    /\ todo' = {f \in Files : DbOf[f] = Head(left) /\ fs[f] # None}
    /\ UNCHANGED <<fs, up, nextid, table>>

(* A file that is found by its location, or that cannot be read.           *)
PassOver(f) ==
    /\ db # None /\ f \in todo
    /\ todo' = todo \ {f}
    /\ UNCHANGED <<fs, up, left, db, nextid, table>>

(* dmapd_dmap_db_disk_add_path, which any format will do for.              *)
AddPath(f) ==
    /\ db # None /\ f \in todo /\ ~Found(f) /\ nextid > 0
    /\ table' = [table EXCEPT ![db] =
                    [id \in DOMAIN @ \cup {nextid} |-> IF id = nextid THEN Hash(f) ELSE @[id]]]
    /\ nextid' = NextId
    /\ todo' \in {todo, todo \ {f}}
    /\ UNCHANGED <<fs, up, left, db>>

(* The walk is over, and the share is created.                             *)
Publish ==
    /\ db # None /\ todo = {}
    /\ db' = None
    /\ UNCHANGED <<fs, up, left, todo, nextid, table>>

(* The process ends, at any time; what it had in memory is gone.           *)
Stop ==
    /\ up
    /\ up' = FALSE /\ left' = <<>> /\ db' = None /\ todo' = {}
    /\ nextid' = Base /\ table' = Nothing
    /\ UNCHANGED fs

WriteFile(f, v) ==
    /\ ~up
    /\ fs' = [fs EXCEPT ![f] = v]
    /\ UNCHANGED <<up, left, db, todo, nextid, table>>

Next ==
    \/ \E share \in Shares : Start(share)
    \/ Open \/ Publish \/ Stop
    \/ \E f \in Files : PassOver(f) \/ AddPath(f)
    \/ \E f \in Files, v \in Versions \cup {None} : WriteFile(f, v)

-----------------------------------------------------------------------------
(* Both databases as one catalogue: id -> the places it names.             *)
Catalogue == [id \in UNION {DOMAIN table[d] : d \in Dbs} |->
    {<<d, table[d][id]>> : d \in {e \in Dbs : id \in DOMAIN table[e]}}]

Abstract == INSTANCE DmapDb WITH
    Ids <- 1 .. Base, Records <- {{<<DbOf[f], Hash(f)>>} : f \in Files},
    catalogue <- Catalogue, published <- up /\ left = <<>> /\ db = None

(* Of the contract of a database it keeps, even with two that share the    *)
(* counter, what is about ids: each is new to both, and names one location *)
(* of one of them until the process ends.                                  *)
Contract == Abstract!Contract
=============================================================================
