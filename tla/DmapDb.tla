------------------------------- MODULE DmapDb -------------------------------
(***************************************************************************)
(* What every client of a DMAPDb relies on (dmapd-dmap-db.c gives the      *)
(* interface, dmapd.c fills it in serve () and then publishes it as a      *)
(* share): a catalogue that starts empty, to which each add gives a new    *)
(* id, in which an issued id keeps naming the same record, and which no    *)
(* longer changes once the share is published.  A restart of the daemon    *)
(* starts a new catalogue.                                                 *)
(***************************************************************************)
EXTENDS Naturals

CONSTANTS Ids,      \* the ids a database can issue: G_MAXINT downwards
          Records   \* the records a database can hold

VARIABLES catalogue, \* partial function from the issued ids to their records
          published  \* has the share been created over this catalogue?

contractVars == <<catalogue, published>>

Empty == [id \in {} |-> {}]

Init == catalogue = Empty /\ published = FALSE

(* dmap_db_add and dmap_db_add_path: the id is new, every other is kept. *)
Add(id, record) ==
    /\ ~published
    /\ id \in Ids \ DOMAIN catalogue
    /\ catalogue' = [i \in DOMAIN catalogue \cup {id} |->
                        IF i = id THEN record ELSE catalogue[i]]
    /\ UNCHANGED published

Publish == ~published /\ published' = TRUE /\ UNCHANGED catalogue

Restart == catalogue' = Empty /\ published' = FALSE

Next == \/ \E id \in Ids, record \in Records : Add(id, record)
        \/ Publish
        \/ Restart

Contract == Init /\ [][Next]_contractVars
=============================================================================
