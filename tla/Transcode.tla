------------------------------ MODULE Transcode ------------------------------
(***************************************************************************)
(* Transcoding ahead of time (util-gst.c).  When a target MIME type is     *)
(* configured, serve () in dmapd.c calls transcode_cache for each record   *)
(* before it publishes the share: unless the record has the target format, *)
(* the file's content is hashed, <hash>.data in the cache directory is     *)
(* made from it unless it exists, and the record in memory is pointed at   *)
(* that.  The file is written in place, block by block, so an error or the *)
(* end of the process leaves what has been written so far; the records of  *)
(* the next run start again from the original files.                       *)
(*                                                                         *)
(* The tool dmapd-transcode does the same for the music directories it is  *)
(* given, and ends.  Its output directory is taken to be the daemon's      *)
(* cache directory, and the two not to run at one time.                    *)
(***************************************************************************)
EXTENDS Naturals

CONSTANTS
    Paths,     \* the music files
    Contents,  \* what they can contain
    FormatOf,  \* the format of each content
    Targets,   \* target formats the daemon is configured with, None for no
               \* transcoding
    Formless,  \* targets that are MIME types dmap_mime_to_format has no format for
    Blocks,    \* the number of blocks a transcoded file has
    Frozen,    \* TRUE: files change only while the daemon is down
    None       \* no file, no data, no target

Known == Targets \ (Formless \cup {None})

Formats == {FormatOf[c] : c \in Contents} \cup Known

(* <hash>.data: the content it was made from, its format, how much of it   *)
(* there is.                                                               *)
Data == [of : Contents, format : Formats, size : 0 .. Blocks]

(* The properties transcode_cache reads and sets.  The location is the URI *)
(* of the original or that of the .data file of a hash; size is None for   *)
(* the original's.                                                         *)
Originals == [location : Paths, format : Formats, size : {None}]
Replaced  == [location : Contents, format : Formats, size : 0 .. Blocks]

ASSUME ConstantsAssumption ==
    /\ Blocks \in Nat
    /\ Frozen \in BOOLEAN
    /\ Formless \subseteq Targets
    /\ Paths \cap Contents = {}
    /\ None \notin Contents /\ None \notin Data /\ None \notin Nat
    /\ None \notin Originals \cup Replaced

VARIABLES
    fs,      \* Paths -> content, or None: the music files
    data,    \* content hash -> Data, or None: the *.data files of db_dir
    tool,    \* is it dmapd-transcode that runs?
    target,  \* the format of the target MIME type
    phase,   \* "down", "transcode" (dmap_db_foreach), "serve"
    step,    \* in transcode_cache: "next", "open", "copy", "replace"
    todo,    \* records dmap_db_foreach has yet to visit
    path,    \* the record being visited
    key,     \* the hash that names its cachepath
    recs,    \* path -> its record, or None: the database
    clean    \* so far nothing has failed and no run was cut short (a history)

vars == <<fs, data, tool, target, phase, step, todo, path, key, recs, clean>>

-----------------------------------------------------------------------------
(* Slips: what a definition below would be after a plausible mistake. *)

(* An existing file is made afresh if it looks too short. *)
Slip_Made(k) == data[k] # None /\ data[k].size = Blocks

(* The filesize is left out. *)
Slip_Replacement(k) == [location |-> k, format |-> target, size |-> None]

(* The hash is not finished: all files get one name. *)
Slip_KeyOf(p) == CHOOSE k \in Contents : TRUE

(* The loop over the stream ends too early. *)
Slip_FinishCopy ==
    /\ step = "copy"
    /\ step' = "replace"
    /\ UNCHANGED <<fs, data, tool, target, phase, todo, path, key, recs, clean>>

(* A record that is passed over is visited again. *)
Slip_PassOver(p) ==
    /\ phase = "transcode" /\ step = "next" /\ p \in todo
    /\ target # None /\ (target \in Formless \/ recs[p].format = target \/ fs[p] = None)
    /\ UNCHANGED vars

-----------------------------------------------------------------------------
(* cache_path: the name of the .data file is the hash of the content.      *)
KeyOf(p) == fs[p]

(* g_file_test (cachepath, G_FILE_TEST_EXISTS): it exists, whole or not.   *)
Made(k) == data[k] # None

Unneeded(p) == recs[p].format = target

Block(d) == [d EXCEPT !.size = d.size + 1]

(* g_object_set (record, "location", ... "format", ... "filesize", ...).    *)
Replacement(k) == [location |-> k, format |-> target, size |-> data[k].size]

OriginalOf(p) == [location |-> p, format |-> FormatOf[fs[p]], size |-> None]

Init ==
    /\ fs \in [Paths -> Contents \cup {None}]
    /\ data = [k \in Contents |-> None]
    /\ tool = FALSE /\ target \in Targets
    /\ phase = "down" /\ step = "next"
    /\ todo = {} /\ path = None /\ key = None
    /\ recs = [p \in Paths |-> None]
    /\ clean = TRUE

(* The database has been built: a record for each file that is there.  The *)
(* daemon enters the loop only with a target.                              *)
Start(program, t) ==
    /\ phase = "down"
    /\ tool' = program /\ target' = t /\ phase' = "transcode"
    /\ recs' = [p \in Paths |-> IF fs[p] = None THEN None ELSE OriginalOf(p)]
    /\ todo' = IF t = None /\ ~program THEN {} ELSE {p \in Paths : fs[p] # None}
    /\ UNCHANGED <<fs, data, step, path, key, clean>>

(* Nothing can be made of it, the record has the target format already, or *)
(* its file went away.                                                     *)
PassOver(p) ==
    /\ phase = "transcode" /\ step = "next" /\ p \in todo
    /\ target # None /\ (target \in Formless \/ Unneeded(p) \/ fs[p] = None)
    /\ todo' = todo \ {p}
    /\ UNCHANGED <<fs, data, tool, target, phase, step, path, key, recs, clean>>

(* cache_path hashes the file; then the .data file is looked for.          *)
Visit(p) ==
    /\ phase = "transcode" /\ step = "next" /\ p \in todo
    /\ target \in Known /\ ~Unneeded(p) /\ fs[p] # None
    /\ todo' = todo \ {p}
    /\ path' = p /\ key' = KeyOf(p)
    /\ step' = IF Made(KeyOf(p)) THEN "replace" ELSE "open"
    /\ UNCHANGED <<fs, data, tool, target, phase, recs, clean>>

(* do_transcode: the original, the decoder and the output are opened.      *)
OpenStreams ==
    /\ step = "open" /\ fs[path] # None
    /\ data' = [data EXCEPT ![key] = [of |-> fs[path], format |-> target, size |-> 0]]
    /\ step' = "copy"
    /\ UNCHANGED <<fs, tool, target, phase, todo, path, key, recs, clean>>

(* One of them cannot be.  There is no file to stat: the record is left    *)
(* alone.                                                                  *)
OpenFails ==
    /\ step = "open"
    /\ step' = "next" /\ path' = None /\ key' = None
    /\ clean' = FALSE
    /\ UNCHANGED <<fs, data, tool, target, phase, todo, recs>>

CopyBlock ==
    /\ step = "copy" /\ data[key].size < Blocks
    /\ data' = [data EXCEPT ![key] = Block(data[key])]
    /\ UNCHANGED <<fs, tool, target, phase, step, todo, path, key, recs, clean>>

(* do_transcode returns nothing, so its caller goes on in the same way     *)
(* after the last block and after an error in reading or writing any.      *)
FinishCopy ==
    /\ step = "copy"
    /\ step' = "replace"
    /\ clean' = (clean /\ data[key].size = Blocks)
    /\ UNCHANGED <<fs, data, tool, target, phase, todo, path, key, recs>>

ReplaceLocation ==
    /\ step = "replace"
    /\ recs' = [recs EXCEPT ![path] = Replacement(key)]
    /\ step' = "next" /\ path' = None /\ key' = None
    /\ UNCHANGED <<fs, data, tool, target, phase, todo, clean>>

(* create_share, when every record has been visited. *)
Serve ==
    /\ phase = "transcode" /\ step = "next" /\ todo = {} /\ ~tool
    /\ phase' = "serve"
    /\ UNCHANGED <<fs, data, tool, target, step, todo, path, key, recs, clean>>

(* The tool ends there.                                                    *)
ToolEnds ==
    /\ phase = "transcode" /\ step = "next" /\ todo = {} /\ tool
    /\ phase' = "down" /\ recs' = [p \in Paths |-> None]
    /\ UNCHANGED <<fs, data, tool, target, step, todo, path, key, clean>>

(* The process ends: while serving, or at any step before, be it that it is *)
(* killed or that an original cannot be opened, for do_transcode then jumps *)
(* over the initialisation of outfile and may close whatever it holds.      *)
Stop ==
    /\ phase # "down"
    /\ phase' = "down" /\ step' = "next"
    /\ clean' = (clean /\ phase = "serve")
    /\ todo' = {} /\ path' = None /\ key' = None
    /\ recs' = [p \in Paths |-> None]
    /\ UNCHANGED <<fs, data, tool, target>>

(* The tool is run without a target: transcode_cache asserts that there is *)
(* one, as soon as there is a record.                                      *)
NoTarget == todo # {} /\ target = None /\ Stop

WriteFile(p, c) ==
    /\ Frozen => phase = "down"
    /\ fs[p] # c
    /\ fs' = [fs EXCEPT ![p] = c]
    /\ UNCHANGED <<data, tool, target, phase, step, todo, path, key, recs, clean>>

Daemon == \/ \E p \in Paths : PassOver(p) \/ Visit(p)
          \/ OpenStreams \/ OpenFails \/ CopyBlock \/ FinishCopy
          \/ ReplaceLocation \/ Serve \/ ToolEnds \/ NoTarget

Next == \/ Daemon
        \/ \E program \in BOOLEAN, t \in Targets : Start(program, t)
        \/ Stop
        \/ \E p \in Paths, c \in Contents \cup {None} : WriteFile(p, c)

Spec == Init /\ [][Next]_vars

(* One thread runs the loop, and each step of it ends. *)
FairSpec == Spec /\ WF_vars(Daemon)

-----------------------------------------------------------------------------
TypeOK ==
    /\ fs \in [Paths -> Contents \cup {None}]
    /\ data \in [Contents -> Data \cup {None}]
    /\ tool \in BOOLEAN /\ target \in Targets
    /\ phase \in {"down", "transcode", "serve"}
    /\ step \in {"next", "open", "copy", "replace"}
    /\ todo \subseteq Paths
    /\ path \in Paths \cup {None} /\ key \in Contents \cup {None}
    /\ recs \in [Paths -> Originals \cup Replaced \cup {None}]
    /\ clean \in BOOLEAN

Points(p, k) == recs[p] # None /\ recs[p].location = k

(* What is filed under a hash was made from that content, in every run, as *)
(* long as files keep still between the hashing and the decoding.          *)
DataCoherent == Frozen => \A k \in Contents : data[k] # None => data[k].of = k

(* A record that was replaced names an existing file of its own content,   *)
(* and has the length a client will be given.                              *)
LengthsAgree ==
    \A p \in Paths, k \in Contents :
        Points(p, k) => /\ data[k] # None
                        /\ recs[p].size = data[k].size
                        /\ Frozen => fs[p] = k

(* A .data file is never touched again once its making has ended, by this  *)
(* or a later run: a client that is being sent it, or a second record with *)
(* the same content, sees one file.                                        *)
NeverRewritten ==
    [][\A k \in Contents :
          data[k] # None /\ ~(step = "copy" /\ key = k) => data'[k] = data[k]]_vars

(* Is there never another target?                                          *)
OneTarget == \A t, u \in Known : t = u

(* With one target, and as long as nothing has failed, everything that is  *)
(* served is whole and in the target format, in this run and in those      *)
(* after it, and after every run of the tool.                              *)
AllTranscoded ==
    Frozen /\ OneTarget /\ clean /\ phase = "serve" /\ target \in Known =>
        \A p \in Paths : recs[p] # None =>
            /\ recs[p].format = target
            /\ \A k \in Contents :
                  Points(p, k) => data[k].format = target /\ data[k].size = Blocks

(* util-gst.c: "Replace previous location with URI to transcoded file".    *)
(* The file a record is pointed at is a transcoded one, not a piece of it. *)
ReplacedByWhole ==
    \A p \in Paths, k \in Contents : Points(p, k) => data[k].size = Blocks

(* The loop comes to its end, and the share is published. *)
Published == phase = "transcode" ~> phase \in {"serve", "down"}
=============================================================================
