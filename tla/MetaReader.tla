------------------------------ MODULE MetaReader ------------------------------
(***************************************************************************)
(* Reading the tags of one file after another with GStreamer               *)
(* (av-meta-reader-gst.c).  A read makes a pipeline and runs the reader's  *)
(* main loop: an idle source pauses the pipeline, whose decoder finds the  *)
(* streams and announces from its own thread that there are no more pads;  *)
(* that, or a timer of one second, adds another idle source that quits     *)
(* the loop.  Neither the timer nor a quit that comes too late is taken    *)
(* back when a read is over, so they meet the reads that follow.           *)
(*                                                                         *)
(* An iteration of the loop dispatches the timers that are due, or if      *)
(* there are none, all the idle sources there are at that moment, oldest   *)
(* first; is_running is looked at between iterations.                      *)
(***************************************************************************)
EXTENDS Naturals, Sequences, SequencesExt

CONSTANTS
    Reads,      \* how many files are read
    Hangs,      \* TRUE: the wait for the paused state can last for ever
    QuitStays   \* a subset of BOOLEAN: what g_main_loop_quit, which returns
                \* nothing, is taken to return as an idle callback

VARIABLES
    read,      \* the number of the read in progress, or of the last
    phase,     \* "idle", "loop" (inside g_main_loop_run), "hung", "aborted"
    running,   \* is_running
    idles,     \* the idle sources, in the order they were added
    here, last,  \* this iteration has still to dispatch those from here to last
    timers,    \* the reads whose timer has not fired
    paused,    \* this read's pipeline: "no", "ok", "failed"
    lost,      \* the reads whose pipeline failed to pause: they are unreffed
               \* without being stopped
    padded     \* the reads whose decoder has announced no more pads

vars == <<read, phase, running, idles, here, last, timers, paused, lost, padded>>

Dispatching == here <= last

-----------------------------------------------------------------------------
(* Slips. *)

(* The timer quits the loop by itself instead of adding an idle source. *)
Slip_FireTimer(r) ==
    /\ phase = "loop" /\ running /\ ~Dispatching /\ r \in timers
    /\ timers' = timers \ {r}
    /\ running' = FALSE
    /\ UNCHANGED <<read, phase, idles, here, last, paused, lost, padded>>

(* No timer is set. *)
Slip_Begin ==
    /\ phase = "idle" /\ read < Reads
    /\ read' = read + 1 /\ phase' = "loop" /\ running' = TRUE /\ paused' = "no"
    /\ idles' = Append(idles, "pause")
    /\ UNCHANGED <<here, last, timers, lost, padded>>

-----------------------------------------------------------------------------
Init ==
    /\ read = 0 /\ phase = "idle" /\ running = FALSE
    /\ idles = <<>> /\ here = 1 /\ last = 0 /\ timers = {}
    /\ paused = "no" /\ lost = {} /\ padded = {}

(* av_meta_reader_gst_read, as far as g_main_loop_run.                     *)
Begin ==
    /\ phase = "idle" /\ read < Reads
    /\ read' = read + 1 /\ phase' = "loop" /\ running' = TRUE /\ paused' = "no"
    /\ idles' = Append(idles, "pause")
    /\ timers' = timers \cup {read + 1}
    /\ UNCHANGED <<here, last, lost, padded>>

(* No pipeline can be made.                                                *)
SetupFails ==
    /\ phase = "idle" /\ read < Reads
    /\ read' = read + 1
    /\ UNCHANGED <<phase, running, idles, here, last, timers, paused, lost, padded>>

(* quit_mainloop, when a timer, of this or an earlier read, is due.        *)
FireTimer(r) ==
    /\ phase = "loop" /\ running /\ ~Dispatching /\ r \in timers
    /\ timers' = timers \ {r}
    /\ idles' = Append(idles, "quit")
    /\ UNCHANGED <<read, phase, running, here, last, paused, lost, padded>>

(* An iteration in which no timer is due.                                  *)
Collect ==
    /\ phase = "loop" /\ running /\ ~Dispatching /\ idles # <<>>
    /\ here' = 1 /\ last' = Len(idles)
    /\ UNCHANGED <<read, phase, running, idles, timers, paused, lost, padded>>

(* The source that is being dispatched returns FALSE.                      *)
RemoveHere ==
    /\ idles' = RemoveAt(idles, here)
    /\ here' = here /\ last' = last - 1

(* pause_pipeline, which is removed; it returns with the state reached or  *)
(* refused.                                                                *)
DispatchPause ==
    /\ phase = "loop" /\ Dispatching /\ idles[here] = "pause"
    /\ RemoveHere
    /\ \/ paused' = "ok" /\ UNCHANGED lost
       \/ paused' = "failed" /\ lost' = lost \cup {read}
    /\ UNCHANGED <<read, phase, running, timers, padded>>

(* gst_element_get_state, without a time limit, does not return.           *)
DispatchHangs ==
    /\ Hangs
    /\ phase = "loop" /\ Dispatching /\ idles[here] = "pause"
    /\ phase' = "hung"
    /\ UNCHANGED <<read, running, idles, here, last, timers, paused, lost, padded>>

(* g_main_loop_quit.                                                       *)
DispatchQuit ==
    /\ phase = "loop" /\ Dispatching /\ idles[here] = "quit"
    /\ running' = FALSE
    /\ \/ FALSE \in QuitStays /\ RemoveHere
       \/ TRUE \in QuitStays /\ here' = here + 1 /\ UNCHANGED <<idles, last>>
    /\ UNCHANGED <<read, phase, timers, paused, lost, padded>>

(* no_more_pads_cb, in a thread of the pipeline: this read's once it is    *)
(* asked to pause, or one that was not stopped.                            *)
NoMorePads(r) ==
    /\ r \in lost \/ (r = read /\ phase = "loop" /\ paused # "no")
    /\ r \notin padded /\ phase # "aborted"
    /\ padded' = padded \cup {r}
    /\ idles' = Append(idles, "quit")
    /\ UNCHANGED <<read, phase, running, here, last, timers, paused, lost>>

(* g_main_loop_run returns; the pipeline is asked for the duration and the *)
(* tags, and given up.  One that was paused is stopped first, and if it    *)
(* does not stop the daemon is at its end (g_error).                       *)
Leave ==
    /\ phase = "loop" /\ ~running /\ ~Dispatching
    /\ \/ phase' = "idle"
       \/ paused = "ok" /\ phase' = "aborted"
    /\ UNCHANGED <<read, running, idles, here, last, timers, paused, lost, padded>>

(* Everything has been read, or the daemon is no more.                     *)
Finished ==
    /\ (phase = "idle" /\ read = Reads) \/ phase = "aborted"
    /\ UNCHANGED vars

Loop ==
    \/ \E r \in 1 .. Reads : FireTimer(r)
    \/ Collect \/ DispatchPause \/ DispatchQuit \/ Leave

Next ==
    \/ Begin \/ SetupFails \/ Loop \/ DispatchHangs
    \/ \E r \in 1 .. Reads : NoMorePads(r)
    \/ Finished

Spec == Init /\ [][Next]_vars

(* The loop goes on and timers become due; whether a decoder ever gets to  *)
(* its last pad is up to the file.                                         *)
Fairness ==
    /\ WF_vars(Collect) /\ WF_vars(DispatchPause) /\ WF_vars(DispatchQuit)
    /\ WF_vars(Leave)
    /\ \A r \in 1 .. Reads : WF_vars(FireTimer(r))

FairSpec == Spec /\ Fairness

-----------------------------------------------------------------------------
Sources == {"pause", "quit"}

TypeOK ==
    /\ read \in 0 .. Reads
    /\ phase \in {"idle", "loop", "hung", "aborted"} /\ running \in BOOLEAN
    /\ idles \in Seq(Sources) /\ here \in Nat \ {0} /\ last \in 0 .. Len(idles)
    /\ timers \subseteq 1 .. Reads /\ lost \subseteq 1 .. Reads /\ padded \subseteq 1 .. Reads
    /\ paused \in {"no", "ok", "failed"}

(* Whatever earlier reads left behind, a pipeline is asked for its tags    *)
(* only after it has been told to pause, and no source of one read pauses  *)
(* the pipeline of another, or none.                                       *)
PausedInTime ==
    /\ phase = "idle" => \A i \in DOMAIN idles : idles[i] # "pause"
    /\ phase = "loop" /\ ~running /\ ~Dispatching => paused # "no"

(* A read comes to its end even if the decoder never has no more pads,     *)
(* unless the wait for the paused state does not, or the daemon ends with  *)
(* it.                                                                     *)
ReadEnds == phase = "loop" ~> phase \in {"idle", "hung", "aborted"}

(* "Quit on "no-more-pads" signal" (av-meta-reader-gst.c:431): a read ends *)
(* when its own decoder is done, or its own second is over.                *)
QuitInTime ==
    phase = "loop" /\ ~running /\ ~Dispatching =>
        read \in padded \/ read \notin timers
=============================================================================
