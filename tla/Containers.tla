------------------------------ MODULE Containers ------------------------------
(***************************************************************************)
(* The containers of a share (dmapd-dmap-container-record.c and            *)
(* dmapd-dmap-container-db.c): with -c each directory below a media        *)
(* directory becomes a container of the files that lie directly in it.     *)
(* The walk of db-builder-gdir.c calls itself for a directory inside a     *)
(* directory and fills one container record at each level; a media         *)
(* directory may be given twice, or lie inside another.  A client asks a   *)
(* container how many entries it has, and for a database of them.          *)
(***************************************************************************)
EXTENDS Naturals, Sequences, FiniteSets

CONSTANTS
    Dirs,            \* the directories
    Files,           \* the files in them, by location
    Home,            \* file -> the directory it lies in
    Parent,          \* directory -> the one it lies in, or None
    Unreadable,      \* the directories g_dir_open fails for
    Refused,         \* the files dmap_db_add_path returns 0 for
    StartLists,      \* what -m can be: sequences of directories
    WithContainers,  \* is -c given?
    Base,            \* the first media id, G_MAXINT; they go down from it
    None             \* no directory; no container record

(* 1 is reserved for the primary container. *)
FirstContainer == 2

ASSUME ConstantsAssumption ==
    /\ Home \in [Files -> Dirs] /\ Parent \in [Dirs -> Dirs \cup {None}]
    /\ Refused \subseteq Files /\ Dirs \cap Files = {}
    /\ StartLists \subseteq Seq(Dirs)
    /\ WithContainers \in BOOLEAN
    /\ Base \in Nat
    /\ None \notin Dirs /\ None \notin Nat

VARIABLES
    starts,      \* the media directories
    walked,      \* how many of them have been come to
    stack,       \* one frame for each call of the walk, the outermost first
    media,       \* the database: file -> its id
    nextmedia,   \* the last media id less one
    nextid,      \* the next container id
    containers,  \* the container database: id -> [dir, entries]
    published    \* has the share been created?

vars == <<starts, walked, stack, media, nextmedia, nextid, containers, published>>

(* One call: its directory, what it has not read yet, and the container    *)
(* record it was given, the id of which is None if there is none.          *)
Frames == [dir : Dirs, todo : SUBSET (Dirs \cup Files),
           id : Nat \cup {None}, entries : Seq(Nat)]

-----------------------------------------------------------------------------
(* Slips. *)

(* Only a file that is new is made an entry. *)
Slip_ReadKnown(f) ==
    /\ stack # <<>> /\ f \in stack[Len(stack)].todo \cap DOMAIN media
    /\ stack' = [stack EXCEPT ![Len(stack)].todo = @ \ {f}]
    /\ UNCHANGED <<starts, walked, media, nextmedia, nextid, containers, published>>

(* The container that is being filled is handed down instead of a new one. *)
Slip_Frame(d, id) ==
    [dir |-> d, todo |-> {e \in Dirs \cup Files :
                            IF e \in Files THEN Home[e] = d ELSE Parent[e] = d},
     id |-> id,
     entries |-> IF stack = <<>> THEN <<>> ELSE stack[Len(stack)].entries]

(* An empty container is kept. *)
Slip_IsKept(frame) == WithContainers /\ frame.id # None

(* The id is taken before it is known whether the file is refused. *)
Slip_ReadRefused(f) ==
    /\ stack # <<>> /\ f \in (stack[Len(stack)].todo \cap Refused) \ DOMAIN media
    /\ nextmedia > 0 /\ nextmedia' = nextmedia - 1
    /\ stack' = [stack EXCEPT ![Len(stack)].todo = @ \ {f}]
    /\ UNCHANGED <<starts, walked, media, nextid, containers, published>>

-----------------------------------------------------------------------------
Top == stack[Len(stack)]

(* The static counter of the database gives ids downwards.                 *)
Lower(id) == id - 1

(* What g_dir_read_name yields, in any order: nothing if it cannot be open.*)
Children(d) ==
    IF d \in Unreadable THEN {}
    ELSE {f \in Files : Home[f] = d} \cup {c \in Dirs : Parent[c] = d}

Frame(d, id) == [dir |-> d, todo |-> Children(d), id |-> id, entries |-> <<>>]

(* The container is added to the container database, not skipped as empty. *)
IsKept(frame) == WithContainers /\ frame.id # None /\ frame.entries # <<>>

(* The innermost call has dealt with e; entries are its record's now.      *)
Read(e, entries) ==
    stack' = [stack EXCEPT ![Len(stack)].todo = @ \ {e},
                           ![Len(stack)].entries = entries]

(* The entries of the innermost call's record, with id added if there is a *)
(* record.                                                                 *)
WithEntry(id) == IF Top.id = None THEN Top.entries ELSE Append(Top.entries, id)

Init ==
    /\ starts \in StartLists
    /\ walked = 0 /\ stack = <<>> /\ media = [f \in {} |-> 0]
    /\ nextmedia = Base /\ nextid = FirstContainer
    /\ containers = [c \in {} |-> 0]
    /\ published = FALSE

(* A media directory: no container record is given.                        *)
OpenStart ==
    /\ stack = <<>> /\ walked < Len(starts)
    /\ stack' = <<Frame(starts[walked + 1], None)>>
    /\ walked' = walked + 1
    /\ UNCHANGED <<starts, media, nextmedia, nextid, containers, published>>

(* A directory inside: a record is made for it before anything is known of *)
(* its files, also without -c.                                             *)
EnterDir(d) ==
    /\ stack # <<>> /\ d \in Top.todo
    /\ stack' = Append([stack EXCEPT ![Len(stack)].todo = @ \ {d}], Frame(d, nextid))
    /\ nextid' = nextid + 1
    /\ UNCHANGED <<starts, walked, media, nextmedia, containers, published>>

(* A file that the database knows by its location.                         *)
ReadKnown(f) ==
    /\ stack # <<>> /\ f \in Top.todo \cap DOMAIN media
    /\ Read(f, WithEntry(media[f]))
    /\ UNCHANGED <<starts, walked, media, nextmedia, nextid, containers, published>>

ReadNew(f) ==
    /\ stack # <<>> /\ f \in Top.todo \ (DOMAIN media \cup Refused)
    /\ nextmedia > 0
    /\ media' = [g \in DOMAIN media \cup {f} |-> IF g = f THEN nextmedia ELSE media[g]]
    /\ nextmedia' = Lower(nextmedia)
    /\ Read(f, WithEntry(nextmedia))
    /\ UNCHANGED <<starts, walked, nextid, containers, published>>

ReadRefused(f) ==
    /\ stack # <<>> /\ f \in (Top.todo \cap Refused) \ DOMAIN media
    /\ Read(f, Top.entries)
    /\ UNCHANGED <<starts, walked, media, nextmedia, nextid, containers, published>>

(* A call returns; its caller keeps the container record or drops it.      *)
CloseDir ==
    /\ stack # <<>> /\ Top.todo = {}
    /\ stack' = SubSeq(stack, 1, Len(stack) - 1)
    /\ containers' =
         IF IsKept(Top)
         THEN [c \in DOMAIN containers \cup {Top.id} |->
                 IF c = Top.id THEN [dir |-> Top.dir, entries |-> Top.entries]
                 ELSE containers[c]]
         ELSE containers
    /\ UNCHANGED <<starts, walked, media, nextmedia, nextid, published>>

Publish ==
    /\ stack = <<>> /\ walked = Len(starts) /\ ~published
    /\ published' = TRUE
    /\ UNCHANGED <<starts, walked, stack, media, nextmedia, nextid, containers>>

Walk ==
    \/ OpenStart \/ CloseDir \/ Publish
    \/ \E d \in Dirs : EnterDir(d)
    \/ \E f \in Files : ReadKnown(f) \/ ReadNew(f) \/ ReadRefused(f)

(* A share that is published does not change.                              *)
Served == published /\ UNCHANGED vars

Next == Walk \/ Served

Spec == Init /\ [][Next]_vars

-----------------------------------------------------------------------------
ToSet(s) == {s[i] : i \in DOMAIN s}

(* get_entries: a new database of the entries, each under its own id.      *)
EntriesOf(c) == ToSet(containers[c].entries)

TypeOK ==
    /\ starts \in Seq(Dirs) /\ walked \in 0 .. Len(starts)
    /\ stack \in Seq(Frames)
    /\ DOMAIN media \subseteq Files /\ \A f \in DOMAIN media : media[f] \in 1 .. Base
    /\ nextmedia \in 0 .. Base /\ nextid \in Nat
    /\ \A c \in DOMAIN containers :
         /\ containers[c].dir \in Dirs
         /\ containers[c].entries \in Seq(Nat)
    /\ published \in BOOLEAN

(* A container shows files of its own directory and nothing else, though   *)
(* the calls that fill containers nest and use one database.               *)
EntriesInPlace ==
    \A c \in DOMAIN containers : \A id \in EntriesOf(c) :
        \E f \in DOMAIN media : media[f] = id /\ Home[f] = containers[c].dir

(* A container never has an empty database to show (get_entries asserts    *)
(* it), and a client is shown as many items as it is told there are.       *)
CountsAgree ==
    \A c \in DOMAIN containers :
        LET entries == containers[c].entries IN
        /\ entries # <<>>
        /\ \A i, j \in DOMAIN entries : entries[i] = entries[j] => i = j

(* The directories the walk comes to: those it starts at, and those in     *)
(* directories it comes to and can read.                                   *)
Closed(R) == \A d \in Dirs : Parent[d] \in R \ Unreadable => d \in R

Below(S) == {d \in Dirs : \A R \in SUBSET Dirs : S \subseteq R /\ Closed(R) => d \in R}

Reached == Below(ToSet(starts))

(* Every file that is served and lies in a directory below one that was    *)
(* walked is in a container of that directory, whichever media directory   *)
(* it was found through first.                                             *)
AllContained ==
    published /\ WithContainers =>
        \A f \in DOMAIN media :
            Parent[Home[f]] \in Reached \ Unreadable =>
                \E c \in DOMAIN containers :
                    /\ containers[c].dir = Home[f]
                    /\ media[f] \in EntriesOf(c)

(* The ids of containers, kept or being filled. *)
ContainerIds ==
    DOMAIN containers \cup {stack[n].id : n \in DOMAIN stack}

(* Media and containers share one space of ids: media take them from the   *)
(* top downwards, containers from 2 upwards, and 1 is the primary          *)
(* container's.  No id is issued twice on either side, and the sides do    *)
(* not meet as long as all that were needed fit: a directory that is       *)
(* walked again takes a new id each time, but no file that is refused or   *)
(* met again may take one.                                                 *)
IdsApart ==
    /\ \A f, g \in DOMAIN media : media[f] = media[g] => f = g
    /\ \A m, n \in DOMAIN stack : stack[m].id = stack[n].id /\ stack[m].id # None => m = n
    /\ \A n \in DOMAIN stack : stack[n].id \notin DOMAIN containers
    /\ 1 \notin ContainerIds
    /\ (nextid - FirstContainer) + Cardinality(DOMAIN media) < Base =>
           \A f \in DOMAIN media : media[f] \notin ContainerIds \cup {1}
=============================================================================
