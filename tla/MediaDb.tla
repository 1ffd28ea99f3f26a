------------------------------- MODULE MediaDb -------------------------------
(***************************************************************************)
(* How one share of dmapd comes into being: serve () in dmapd.c opens a    *)
(* database (dmapd-dmap-db-ghashtable.c), whose constructor loads the      *)
(* records cached by earlier runs; it then walks the media directories     *)
(* (db-builder-gdir.c), adds each file that is not yet in the database,    *)
(* and publishes the share.  A record is built from a file in steps        *)
(* (dmapd-daap-record.c, dmapd-dpap-record.c), and is stored in the cache  *)
(* directory (util.c) under the hash of the file's content before it gets  *)
(* its id.  Some files may change between any two steps, the others only   *)
(* while the daemon is down, and the daemon may stop at any step and be     *)
(* started again with another configuration.                               *)
(*                                                                         *)
(* A file is its content, and a content is its own hash: what is read from *)
(* a content (format, tags, size) is determined by it, so a record's       *)
(* metadata is the content it was read from.                               *)
(***************************************************************************)
EXTENDS Naturals, Sequences

CONSTANTS
    Paths,     \* the "location"s of media files: URIs as the builder spells
               \* them; one file reached by two spellings is two of them
    Contents,  \* what a file can contain
    Media,     \* the contents the metadata reader accepts
    FormatOf,  \* the format the metadata reader finds in each of them
    Configs,   \* the configurations the daemon is started with
    FirstIds,  \* values of nextid when this share is built: G_MAXINT, or less
               \* when the other share took ids from the same counter first
    Moving,    \* the files that may also change while the daemon runs
    None       \* no file, no cached record, no record in hand

(* A cached record: dmapd_*_record_to_blob writes the version first. *)
Blobs == [version  : {c.version : c \in Configs},
          location : Paths,
          hash     : Contents,
          meta     : Contents]

(* The properties of a DmapdDAAPRecord or DmapdDPAPRecord that matter here; *)
(* meta is None until the metadata reader has run.                          *)
Records == [location : Paths, hash : Contents, meta : Contents \cup {None}]

(***************************************************************************)
(* A configuration: the directories, in order, each with the files it can  *)
(* hold (one directory may lie inside another); the acceptable formats,    *)
(* none meaning any; the version of dmapd; and whether the cache directory *)
(* can be written, can only be read (a full or read-only disk) or is not   *)
(* there.                                                                  *)
(***************************************************************************)
CacheModes == {"writable", "full", "missing"}

ASSUME ConstantsAssumption ==
    /\ Media \subseteq Contents
    /\ Moving \subseteq Paths
    /\ FirstIds \subseteq Nat
    /\ \A c \in Configs : /\ c.dirs \in Seq(SUBSET Paths)
                          /\ c.cache \in CacheModes
    /\ None \notin Contents
    /\ None \notin Blobs
    /\ None \notin Records

VARIABLES
    fs,      \* Paths -> content, or None: the media files
    store,   \* content hash -> blob, or None: the *.record files of db_dir
    cfg,     \* the configuration of this run
    table,   \* priv->db: id -> record
    base,    \* the value of nextid when this run started to add
    nextid,  \* the next id to issue
    phase,   \* "down", "load" (constructor), "walk" (builder), "serve"
    step,    \* where the addition in progress is: "next", "read", "store", "insert"
    names,   \* cache entries g_dir_read_name has yet to return (load)
    dirs,    \* directories not yet opened (walk)
    files,   \* entries of the open directory yet to be returned (walk)
    rec,     \* the record being added
    unread,  \* history: the entries this run could not read (load)
    stuck    \* history: the stale entries this run could not unlink (load)

vars == <<fs, store, cfg, table, base, nextid, phase, step, names, dirs, files, rec,
          unread, stuck>>

(* What loading left behind.  Both only record: no step depends on them.   *)
leftovers == <<unread, stuck>>

-----------------------------------------------------------------------------
(* Slips: what a definition below would be after a plausible mistake.  No  *)
(* definition uses them; each shows that some property would notice.       *)

(* The content of the file is not compared. *)
Slip_Valid(b) == b.version = cfg.version /\ fs[b.location] # None

(* The database is not asked first; or is asked for the content. *)
Slip_SkippedAlways(p) == fs[p] = None
Slip_SkippedContent(p) ==
    fs[p] = None \/ \E id \in DOMAIN table : table[id].hash = fs[p]

(* --nextid for nextid--; one record object for all. *)
Slip_IssuedId == nextid - 1
Slip_Insertion(id, r) == [i \in DOMAIN table \cup {id} |-> r]

-----------------------------------------------------------------------------
(* The ids this share can issue. *)
Ids == UNION {1 .. n : n \in FirstIds}

EmptyTable == [id \in {} |-> None]

Has(p) == \E id \in DOMAIN table : table[id].location = p

Cached(s) == {k \in Contents : s[k] # None}

(* dmapd_*_record_set_from_blob: written by this version, the file can be  *)
(* read, and it still has the content the record was made from.            *)
Valid(b) == b.version = cfg.version /\ fs[b.location] = b.hash

RecordOf(b) == [location |-> b.location, hash |-> b.hash, meta |-> b.meta]

BlobOf(r) == [version |-> cfg.version, location |-> r.location,
              hash |-> r.hash, meta |-> r.meta]

(* add_path: no acceptable formats, or the record's format among them. *)
Accepted(c) == c \in Media /\ (cfg.accept = {} \/ FormatOf[c] \in cfg.accept)

(* A file add_path is not called for: the database has its location. One   *)
(* that went away before it could be hashed is passed over as well.        *)
Skipped(p) == Has(p) \/ fs[p] = None

IssuedId == nextid

(* g_hash_table_insert: would replace the record of an id already in use.  *)
Insertion(id, r) ==
    [i \in DOMAIN table \cup {id} |-> IF i = id THEN r ELSE table[i]]

-----------------------------------------------------------------------------
(* Slips in the steps. *)

(* A stale entry is passed over and left where it is. *)
Slip_UnlinkEntry(k) ==
    /\ phase = "load" /\ step = "next" /\ k \in names /\ ~Valid(store[k])
    /\ names' = names \ {k}
    /\ UNCHANGED <<fs, store, cfg, table, base, nextid, phase, step, dirs, files, rec, leftovers>>

(* The loop ends at some entry, not at the last. *)
Slip_EndLoad ==
    /\ phase = "load" /\ step = "next" /\ phase' = "walk"
    /\ UNCHANGED <<fs, store, cfg, table, base, nextid, step, names, dirs, files, rec, leftovers>>

(* l = l->next is forgotten. *)
Slip_OpenDir ==
    /\ phase = "walk" /\ step = "next" /\ files = {} /\ dirs # <<>>
    /\ files' = {p \in Head(dirs) : fs[p] # None}
    /\ UNCHANGED <<fs, store, cfg, table, base, nextid, phase, step, names, dirs, rec, leftovers>>

-----------------------------------------------------------------------------
Init ==
    /\ fs \in [Paths -> Contents \cup {None}]
    /\ store = [k \in Contents |-> None]
    /\ cfg \in Configs
    /\ phase = "down" /\ step = "next"
    /\ table = EmptyTable /\ base = 0 /\ nextid = 0
    /\ names = {} /\ dirs = <<>> /\ files = {} /\ rec = None
    /\ unread = {} /\ stuck = {}

(* main () calls serve (): the database is created and its cache directory *)
(* opened; the acceptable formats are set only after that.                 *)
Start(c) ==
    /\ phase = "down"
    /\ cfg' = c
    /\ \E id \in FirstIds : base' = id /\ nextid' = id
    /\ phase' = "load"
    /\ names' = IF c.cache = "missing" THEN {} ELSE Cached(store)
    /\ dirs' = c.dirs
    /\ UNCHANGED <<fs, store, table, step, files, rec, leftovers>>

(* One entry of load_cached_records whose blob makes a record: add it.     *)
LoadEntry(k) ==
    /\ phase = "load" /\ step = "next" /\ k \in names
    /\ Valid(store[k])
    /\ names' = names \ {k}
    /\ rec' = RecordOf(store[k])
    /\ step' = "store"
    /\ UNCHANGED <<fs, store, cfg, table, base, nextid, phase, dirs, files, leftovers>>

(* One that does not: the entry is stale and is unlinked.  Nobody looks at *)
(* what g_unlink returns: an entry it cannot remove stays.                 *)
UnlinkEntry(k) ==
    /\ phase = "load" /\ step = "next" /\ k \in names
    /\ ~Valid(store[k])
    /\ names' = names \ {k}
    /\ \/ store' = [store EXCEPT ![k] = None] /\ UNCHANGED stuck
       \/ stuck' = stuck \cup {k} /\ UNCHANGED store
    /\ UNCHANGED <<fs, cfg, table, base, nextid, phase, step, dirs, files, rec, unread>>

(* One that cache_read cannot read: it is passed over, and stays.          *)
PassEntry(k) ==
    /\ phase = "load" /\ step = "next" /\ k \in names
    /\ names' = names \ {k}
    /\ unread' = unread \cup {k}
    /\ UNCHANGED <<fs, store, cfg, table, base, nextid, phase, step, dirs, files, rec,
                   stuck>>

EndLoad ==
    /\ phase = "load" /\ step = "next" /\ names = {}
    /\ phase' = "walk"
    /\ UNCHANGED <<fs, store, cfg, table, base, nextid, step, names, dirs, files, rec, leftovers>>

(* The loop over media_dirs in serve (), and g_dir_open in the builder.    *)
OpenDir ==
    /\ phase = "walk" /\ step = "next" /\ files = {} /\ dirs # <<>>
    /\ files' = {p \in Head(dirs) : fs[p] # None}
    /\ dirs' = Tail(dirs)
    /\ UNCHANGED <<fs, store, cfg, table, base, nextid, phase, step, names, rec, leftovers>>

SkipFile(p) ==
    /\ phase = "walk" /\ step = "next" /\ p \in files
    /\ Skipped(p)
    /\ files' = files \ {p}
    /\ UNCHANGED <<fs, store, cfg, table, base, nextid, phase, step, names, dirs, rec, leftovers>>

(* add_path makes a record of any other file, hashing the file first.      *)
HashFile(p) ==
    /\ phase = "walk" /\ step = "next" /\ p \in files
    /\ ~Skipped(p)
    /\ files' = files \ {p}
    /\ rec' = [location |-> p, hash |-> fs[p], meta |-> None]
    /\ step' = "read"
    /\ UNCHANGED <<fs, store, cfg, table, base, nextid, phase, names, dirs, leftovers>>

(* The metadata reader opens the file again.  The record is dropped if it  *)
(* cannot be read or its format is not acceptable.                         *)
ReadMeta ==
    /\ step = "read"
    /\ LET c == fs[rec.location] IN
       IF Accepted(c)
       THEN rec' = [rec EXCEPT !.meta = c] /\ step' = "store"
       ELSE rec' = None /\ step' = "next"
    /\ UNCHANGED <<fs, store, cfg, table, base, nextid, phase, names, dirs, files, leftovers>>

(* cache_store hashes the file once more to name the entry, and writes the *)
(* blob to it in one go.  A name that is new to the directory may still be *)
(* returned to the loop that is reading it.                                *)
StoreRecord ==
    /\ step = "store"
    /\ LET k == fs[rec.location] IN
       IF k # None /\ cfg.cache = "writable"
       THEN /\ store' = [store EXCEPT ![k] = BlobOf(rec)]
            /\ unread' = unread \ {k} /\ stuck' = stuck \ {k}
            /\ \E seen \in SUBSET ({k} \ Cached(store)) :
                  names' = IF phase = "load" THEN names \cup seen ELSE names
       ELSE UNCHANGED <<store, names, leftovers>>
    /\ step' = "insert"
    /\ UNCHANGED <<fs, cfg, table, base, nextid, phase, dirs, files, rec>>

(* add_with_id (db, record, nextid--).  The bound of the model is that ids *)
(* do not run out.                                                         *)
InsertRecord ==
    /\ step = "insert" /\ nextid > 0
    /\ table' = Insertion(IssuedId, rec)
    /\ nextid' = nextid - 1
    /\ step' = "next" /\ rec' = None
    /\ UNCHANGED <<fs, store, cfg, base, phase, names, dirs, files, leftovers>>

(* create_share: from here on the table is what clients see.               *)
Serve ==
    /\ phase = "walk" /\ step = "next" /\ files = {} /\ dirs = <<>>
    /\ phase' = "serve"
    /\ UNCHANGED <<fs, store, cfg, table, base, nextid, step, names, dirs, files, rec, leftovers>>

(* The process ends, wherever it is: only the disk is left.                *)
Stop ==
    /\ phase # "down"
    /\ phase' = "down" /\ step' = "next"
    /\ table' = EmptyTable /\ base' = 0 /\ nextid' = 0
    /\ names' = {} /\ dirs' = <<>> /\ files' = {} /\ rec' = None
    /\ unread' = {} /\ stuck' = {}
    /\ UNCHANGED <<fs, store, cfg>>

(* The directory the builder is reading.                                   *)
OpenFiles == IF phase = "walk" /\ Len(dirs) < Len(cfg.dirs)
             THEN cfg.dirs[Len(cfg.dirs) - Len(dirs)] ELSE {}

(* Somebody writes a file; if it is put into the directory being read, the *)
(* builder may or may not still come across it.                            *)
WriteFile(p, c) ==
    /\ p \in Moving \/ phase = "down"
    /\ fs[p] # c
    /\ fs' = [fs EXCEPT ![p] = c]
    /\ \E seen \in SUBSET ({p} \cap OpenFiles) :
          files' = IF c = None THEN files ELSE files \cup seen
    /\ UNCHANGED <<store, cfg, table, base, nextid, phase, step, names, dirs, rec, leftovers>>

Daemon ==
    \/ \E k \in Contents : LoadEntry(k) \/ UnlinkEntry(k) \/ PassEntry(k)
    \/ EndLoad \/ OpenDir
    \/ \E p \in Paths : SkipFile(p) \/ HashFile(p)
    \/ ReadMeta \/ StoreRecord \/ InsertRecord \/ Serve

Next ==
    \/ Daemon
    \/ \E c \in Configs : Start(c)
    \/ Stop
    \/ \E p \in Paths, c \in Contents \cup {None} : WriteFile(p, c)

Spec == Init /\ [][Next]_vars

(* The daemon is one thread that is never blocked for ever while it builds *)
(* its database; nobody has to start, stop or change anything.             *)
FairSpec == Spec /\ WF_vars(Daemon)

-----------------------------------------------------------------------------
TypeOK ==
    /\ fs \in [Paths -> Contents \cup {None}]
    /\ store \in [Contents -> Blobs \cup {None}]
    /\ cfg \in Configs
    /\ DOMAIN table \subseteq Nat
    /\ \A id \in DOMAIN table : /\ table[id] \in Records
                                /\ table[id].meta # None
    /\ base \in Nat /\ nextid \in Nat
    /\ phase \in {"down", "load", "walk", "serve"}
    /\ step \in {"next", "read", "store", "insert"}
    /\ names \subseteq Contents
    /\ dirs \in Seq(SUBSET Paths)
    /\ files \subseteq Paths
    /\ rec \in Records \cup {None}
    /\ unread \subseteq Contents /\ stuck \subseteq Contents

(* The ids in use are those between the first this share was given and     *)
(* nextid, so that count () is the number of additions and the other share *)
(* of the process never meets an id of this one.                           *)
IdsContiguous == DOMAIN table = nextid + 1 .. base

(* lookup_id_by_location can only be right when no location has two ids:   *)
(* the records loaded from the cache, the overlapping directories and the  *)
(* walk never add a file twice, however often the daemon died half-way and *)
(* whatever becomes of other files meanwhile.                              *)
ExactlyOnce ==
    \A i, j \in DOMAIN table :
        table[i].location = table[j].location /\ table[i].location \notin Moving => i = j

(* A record, loaded or newly read, describes the file as it is.            *)
FreshRecords ==
    \A id \in DOMAIN table :
        table[id].location \notin Moving =>
            /\ table[id].hash = table[id].meta
            /\ fs[table[id].location] = table[id].hash

(* What the cache says of a file was made from the content it is filed     *)
(* under, after any sequence of changes, crashes and restarts, though the  *)
(* same entry may hold the record of one file today and of another later:  *)
(* set_from_blob compares the blob's own hash with the file, and never     *)
(* looks at the entry's name.                                              *)
CacheCoherent ==
    \A k \in Cached(store) :
        store[k].location \notin Moving => store[k].hash = k /\ store[k].meta = k

(* Once loading is over the cache holds no entry but those of the records  *)
(* that are being served, and those that could not be read or removed:     *)
(* whatever was stale and could be removed is gone.                        *)
CacheServed ==
    phase \in {"walk", "serve"} /\ cfg.cache # "missing" =>
        \A k \in Cached(store) \ (unread \cup stuck) :
            \/ \E id \in DOMAIN table : table[id] = RecordOf(store[k])
            \/ step = "insert" /\ rec = RecordOf(store[k])

(* A file whose record is in the cache, and could be read there, is not    *)
(* read again (its thumbnail is not made again) when the daemon restarts.  *)
CacheUsed ==
    step = "read" /\ cfg.cache # "missing"
        /\ rec.location \notin Moving /\ rec.hash \notin unread =>
            LET blob == store[rec.hash] IN
            blob # None =>
                ~(blob.version = cfg.version /\ blob.location = rec.location)

(* When the share is published every file of the directories that can be   *)
(* read and has an acceptable format is in it.                             *)
Complete ==
    phase = "serve" =>
        \A d \in DOMAIN cfg.dirs : \A p \in cfg.dirs[d] \ Moving :
            Accepted(fs[p]) => Has(p)

(* The catalogue behaves as DmapDb promises to the rest of the daemon.     *)
Catalogue == INSTANCE DmapDb WITH
    Ids <- Ids, catalogue <- table, published <- phase = "serve"
Contract == Catalogue!Contract

(* A daemon that is started gets to serve its share, unless it is stopped, *)
(* or its directories never stop changing while it reads them.             *)
Started ==
    \/ phase = "load" ~> phase \in {"serve", "down"}
    \/ []<><<fs' # fs>>_fs
=============================================================================
