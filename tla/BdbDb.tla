-------------------------------- MODULE BdbDb --------------------------------
(***************************************************************************)
(* The Berkeley DB database module (dmapd-dmap-db-bdb.c).  Records are     *)
(* written to a file under their ids.  Which ids there are is not kept in  *)
(* the file: all that is looked up is what lies between G_MAXINT and       *)
(* nextid, a static variable of the process.  A process serves music,      *)
(* pictures or both, each from a database of its own, built one after the  *)
(* other by the walk of db-builder-gdir.c; nextid is theirs in common.     *)
(***************************************************************************)
EXTENDS Naturals, Sequences, FiniteSets

CONSTANTS
    Files,      \* the media files
    Versions,   \* what a file can contain
    DbOf,       \* file -> the database it belongs to
    Dbs,        \* the databases: "DAAP", "DPAP"
    Shares,     \* what a process can be started to serve: sequences of databases
    Base,       \* G_MAXINT
    None        \* no file; no database

ASSUME ConstantsAssumption ==
    /\ DbOf \in [Files -> Dbs] /\ IsFiniteSet(Files)
    /\ Shares \subseteq Seq(Dbs)
    /\ \A share \in Shares : \A i, j \in 1 .. Len(share) : share[i] = share[j] => i = j
    /\ Base \in Nat
    /\ None \notin Versions /\ None \notin Dbs

VARIABLES
    fs,       \* file -> its version, or None
    store,    \* database -> what it holds: id -> record
    file,     \* database -> what its file held when the process started
    up,       \* is there a process?
    left,     \* the databases it has not opened yet
    open,     \* those it has
    db,       \* the one that is being filled, or None
    todo,     \* the files its walk has not come to
    nextid,   \* the static variable
    issued    \* database -> what was added by this process: id -> record

vars == <<fs, store, file, up, left, open, db, todo, nextid, issued>>

(* A record: its location, and what was read from the file.                *)
Records == [location : Files, meta : Versions]

-----------------------------------------------------------------------------
(* Slips. *)

(* The counter starts anew with each database. *)
Slip_Opened(numrec) == Base

(* id >= nextid; the scan ends one id early. *)
Slip_Scanned == nextid .. Base
Slip_ScannedShort == nextid + 2 .. Base

-----------------------------------------------------------------------------
Empty == [id \in {} |-> 0]

With(table, id, record) ==
    [i \in DOMAIN table \cup {id} |-> IF i = id THEN record ELSE table[i]]

Merged(old, new) ==
    [i \in DOMAIN old \cup DOMAIN new |-> IF i \in DOMAIN new THEN new[i] ELSE old[i]]

Kept(table, ids) == [i \in DOMAIN table \cap ids |-> table[i]]

(* for (id = G_MAXINT; id > nextid; id--)                                  *)
Scanned == nextid + 1 .. Base

(* The blobs that the scans of a database come across.                     *)
Visible(d) == Kept(store[d], Scanned)

(* lookup_by_id makes the record of its blob, which set_from_blob refuses  *)
(* when the file is no longer what it was: the record then has no location.*)
Stale(blob) == fs[blob.location] # blob.meta

(* lookup_id_by_location, which asserts that each record it comes to has   *)
(* a location, until it finds the file.                                    *)
Known(d, f) == \E id \in DOMAIN Visible(d) : Visible(d)[id].location = f

Trips(d, f) ==
    \E id \in DOMAIN Visible(d) :
        /\ Stale(Visible(d)[id])
        /\ \A i \in DOMAIN Visible(d) : i > id => Visible(d)[i].location # f

(* dmapd_dmap_db_bdb_count, for whichever database.                        *)
Count == Base - nextid

(* nextid when a database has been opened that counts numrec records.      *)
Opened(numrec) == Base - numrec

(* nextid--, as a value.                                                   *)
NewId == nextid

Init ==
    /\ fs \in [Files -> Versions \cup {None}]
    /\ store = [d \in Dbs |-> Empty] /\ file = store /\ issued = [d \in Dbs |-> Empty]
    /\ up = FALSE /\ left = <<>> /\ open = {} /\ db = None /\ todo = {}
    /\ nextid = Base

Start(share) ==
    /\ ~up
    /\ up' = TRUE /\ left' = share /\ file' = store
    /\ UNCHANGED <<fs, store, open, db, todo, nextid, issued>>

(* dmapd_dmap_db_bdb_constructor; then the walk of its directories begins. *)
Open ==
    /\ up /\ db = None /\ left # <<>>
    /\ db' = Head(left) /\ left' = Tail(left) /\ open' = open \cup {Head(left)}
    /\ todo' = {f \in Files : DbOf[f] = Head(left) /\ fs[f] # None}
    /\ nextid' = Opened(Count)
    /\ UNCHANGED <<fs, store, file, up, issued>>

(* A file that is found by its location, or that cannot be read.           *)
PassOver(f) ==
    /\ db # None /\ f \in todo /\ ~Trips(db, f)
    /\ todo' = todo \ {f}
    /\ UNCHANGED <<fs, store, file, up, left, open, db, nextid, issued>>

(* dmapd_dmap_db_bdb_add_path.  What the file had under that id is         *)
(* overwritten.                                                            *)
AddPath(f) ==
    /\ db # None /\ f \in todo /\ ~Trips(db, f) /\ ~Known(db, f) /\ nextid > 0
    /\ LET record == [location |-> f, meta |-> fs[f]] IN
       /\ store' = [store EXCEPT ![db] = With(@, NewId, record)]
       /\ issued' = [issued EXCEPT ![db] = With(@, NewId, record)]
    /\ nextid' = nextid - 1
    /\ todo' = todo \ {f}
    /\ UNCHANGED <<fs, file, up, left, open, db>>

(* The walk is over, and the share is created.                             *)
Publish ==
    /\ db # None /\ todo = {}
    /\ db' = None
    /\ UNCHANGED <<fs, store, file, up, left, open, todo, nextid, issued>>

(* The process ends, at any time.  The databases are never closed: each    *)
(* record put since they were opened may have reached the file or not.     *)
Stop ==
    /\ up
    /\ \E ids \in SUBSET (nextid + 1 .. Base) :
         store' = [d \in Dbs |-> Merged(file[d], Kept(issued[d], ids))]
    /\ up' = FALSE /\ left' = <<>> /\ open' = {} /\ db' = None /\ todo' = {}
    /\ nextid' = Base /\ issued' = [d \in Dbs |-> Empty]
    /\ UNCHANGED <<fs, file>>

(* The assertion of lookup_id_by_location ends it, when what an earlier    *)
(* process left under an id that the other database has now issued is      *)
(* stale.                                                                  *)
LookupAborts(f) == db # None /\ f \in todo /\ Trips(db, f) /\ Stop

(* Files change while there is no process (what changes under a walk is    *)
(* the subject of MediaDb).                                                *)
WriteFile(f, v) ==
    /\ ~up
    /\ fs' = [fs EXCEPT ![f] = v]
    /\ UNCHANGED <<store, file, up, left, open, db, todo, nextid, issued>>

Next ==
    \/ \E share \in Shares : Start(share)
    \/ Open \/ Publish \/ Stop
    \/ \E f \in Files : PassOver(f) \/ AddPath(f) \/ LookupAborts(f)
    \/ \E f \in Files, v \in Versions \cup {None} : WriteFile(f, v)

Spec == Init /\ [][Next]_vars

-----------------------------------------------------------------------------
TypeOK ==
    /\ fs \in [Files -> Versions \cup {None}]
    /\ \A d \in Dbs : 
         /\ DOMAIN store[d] \subseteq 1 .. Base
         /\ \A id \in DOMAIN store[d] : store[d][id] \in Records
    /\ up \in BOOLEAN /\ left \in Seq(Dbs) /\ open \subseteq Dbs
    /\ db \in Dbs \cup {None} /\ todo \subseteq Files
    /\ nextid \in 0 .. Base

(* What this process has added keeps its id, in sight of foreach and of    *)
(* the lookups, whatever else it adds and to which database; no id is in   *)
(* two databases.                                                          *)
IssuedKept ==
    /\ \A d \in Dbs : \A id \in DOMAIN issued[d] :
         id \in DOMAIN Visible(d) /\ Visible(d)[id] = issued[d][id]
    /\ \A d, e \in Dbs : d # e => DOMAIN issued[d] \cap DOMAIN issued[e] = {}

(* Has the process opened at most one database so far?                     *)
Single == \A d, e \in open : d = e

(* In a process with one database nothing an earlier process stored is     *)
(* seen, so that no record is out of date (the one on which a lookup would *)
(* trip), and no file is there twice; and there is a record for every id   *)
(* that is counted: foreach never has NULL for a client.                   *)
OnlyFresh == Single => \A d \in open :
    /\ Visible(d) = issued[d]
    /\ Count = Cardinality(DOMAIN Visible(d))
    /\ \A i, j \in DOMAIN Visible(d) :
         Visible(d)[i].location = Visible(d)[j].location => i = j
    /\ \A id \in DOMAIN Visible(d) : Visible(d)[id].meta = fs[Visible(d)[id].location]

(* With one database, the contract of a database, as seen through lookups; *)
(* a process that opens another starts anew and promises nothing.          *)
Catalogue == IF Single /\ open # {} THEN Visible(CHOOSE d \in open : TRUE) ELSE Empty

Abstract == INSTANCE DmapDb WITH
    Ids <- 1 .. Base, catalogue <- Catalogue,
    published <- Single /\ open # {} /\ db = None

Contract == Abstract!Contract
=============================================================================
