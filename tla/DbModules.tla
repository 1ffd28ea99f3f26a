------------------------------- MODULE DbModules -------------------------------
(***************************************************************************)
(* The database modules that are loaded (dmapd-module.c, and               *)
(* object_from_module in util.c), DMAPD_DB_MODULE says which: bdb or disk. *)
(* serve () makes a database of it for each share.  The GTypeModule is     *)
(* made once for its file and loaded again by name from a table.  If it    *)
(* cannot be loaded, or does not bring exactly one type of database,       *)
(* serve () ends the process by an assertion.                              *)
(***************************************************************************)
EXTENDS BdbDb

VARIABLES
    module,     \* DMAPD_DB_MODULE
    modules,    \* the table of dmapd-module.c, and what is in use
    table       \* of the disk module

Disk == INSTANCE DiskDb

bdbOnly  == <<store, file, open, issued>>
diskOnly == <<table>>
moduleVars == <<fs, store, file, up, left, open, db, todo, nextid, issued,
                module, modules, table>>

-----------------------------------------------------------------------------
(* dmapd_module_new and g_type_module_use, when a database is opened: a    *)
(* file that is in the table is not opened again.                          *)
UseModule ==
    modules' = CASE ~up' -> {}
                 [] up' /\ db' # None -> modules \cup {module}
                 [] OTHER -> modules

Bdb  == module = "bdb" /\ Next /\ UNCHANGED diskOnly
Disks == module = "disk" /\ Disk!Next /\ UNCHANGED bdbOnly

(* g_module_open, or one of the two symbols, fails before the first        *)
(* database is there: the assertion in serve () ends the process.          *)
LoadFails ==
    /\ up /\ left # <<>> /\ modules = {}
    /\ IF module = "bdb" THEN Stop /\ UNCHANGED diskOnly
                         ELSE Disk!Stop /\ UNCHANGED bdbOnly

ModulesInit ==
    /\ Init /\ table = Disk!Nothing
    /\ module \in {"bdb", "disk"} /\ modules = {}

ModulesNext == (Bdb \/ Disks \/ LoadFails) /\ UseModule /\ UNCHANGED module

ModulesSpec == ModulesInit /\ [][ModulesNext]_moduleVars

-----------------------------------------------------------------------------
(* What the disk module keeps of the contract of a database.               *)
DiskContract == Disk!Contract
=============================================================================
