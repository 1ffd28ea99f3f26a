-------------------------------- MODULE Render --------------------------------
(***************************************************************************)
(* Playing songs for a remote control (av-render-gst.c).  A remote's       *)
(* requests arrive as callbacks of the daemon's main context.  cue_play    *)
(* runs a main loop of its own inside the callback, until the songs are    *)
(* over: requests that arrive meanwhile, GStreamer's messages and SIGTERM  *)
(* are handled inside that nested loop, and a further cue_play nests once  *)
(* more, on the same loop object and the same private data.  The nested    *)
(* loops are left through an idle source that calls g_main_loop_quit, and  *)
(* all of them look at one is_running.  GStreamer may refuse a transition, *)
(* or never come to the end of one: transition_pipeline waits for it       *)
(* without a limit, and nothing is dispatched meanwhile.                   *)
(***************************************************************************)
EXTENDS Naturals

CONSTANTS
    Pipelines,   \* the GStreamer pipelines there can be at once
    MaxSongs,    \* the longest list a remote cues
    MaxNest,     \* how many cue_play calls can be nested
    MaxQuits,    \* how many quit sources are told apart
    QuitStays,   \* a subset of BOOLEAN: what g_main_loop_quit, which returns
                 \* nothing, is taken to return as an idle callback
    None         \* the NULL pipeline

VARIABLES
    proc,       \* the process: "up", "crashed", "exited" or "hung": in a
                \* callback that waits for GStreamer for ever
    depth,      \* the number of cue_play calls inside their g_main_loop_run
    running,    \* is_running of priv->loop
    main,       \* is_running of the daemon's own loop
    quits,      \* idle sources that will call g_main_loop_quit (priv->loop)
    pipeline,   \* priv->pipeline
    state,      \* pipeline -> "none", "ready", "playing", "paused"
    length,     \* the length of priv->song_list
    current,    \* the place of priv->song_current in it, 0 for NULL
    play,       \* priv->play_state
    over,       \* what was last cued has ended, was reported as failed or cleared
    orderly     \* (history) the remote has cleared each cue before the next, and
                \* GStreamer has taken down what it was told to

vars == <<proc, depth, running, main, quits, pipeline, state, length, current, play, over, orderly>>

-----------------------------------------------------------------------------
(* The states of a pipeline, in GStreamer's order: a transition goes       *)
(* through those between.                                                  *)
Level == [none |-> 0, ready |-> 1, paused |-> 2, playing |-> 3]

States == DOMAIN Level

(* The state of a pipeline; NULL has none.                                 *)
At(p) == IF p = None THEN "none" ELSE state[p]

(* Where transition_pipeline can leave a pipeline on its way between two   *)
(* states: any step may be refused.                                        *)
Way(from, to) ==
    {s \in States :
        \/ Level[from] <= Level[s] /\ Level[s] <= Level[to]
        \/ Level[to] <= Level[s] /\ Level[s] <= Level[from]}

To(p, s) == [q \in Pipelines |-> IF q = p THEN s ELSE state[q]]

-----------------------------------------------------------------------------
(* Slips. *)

(* cue_clear and cue_play let go of a pipeline they have not stopped. *)
Slip_Stop == UNCHANGED <<state, orderly>>

(* An error is reported, but the pipeline is not taken down. *)
Slip_Fail == UNCHANGED <<state, orderly>>

(* cue_clear, an error and the last song do not add the idle source. *)
Slip_MoreQuits == quits

(* The idle source quits the daemon's loop, which has the same name. *)
Slip_Leave == main' = FALSE /\ UNCHANGED running

(* song_current is taken for granted in the handler of the bus. *)
Slip_HasNext == current = 0 \/ current # length

-----------------------------------------------------------------------------
(* transition_pipeline, down to s.  NULL stays where it is.                *)
Lower(s) ==
    \E t \in IF pipeline = None THEN {s} ELSE Way(At(pipeline), s) :
        /\ state' = To(pipeline, t)
        /\ orderly' = (orderly /\ t = s)

Stop == Lower("none")

Fail == Lower("ready")

(* transition_pipeline (p, s) of a p that is in the state from, for an s   *)
(* GStreamer may take its time for.  The caller then sets play_state,      *)
(* whatever came of it; waiting is what play_state is until then.          *)
Raise(p, from, s, waiting, after) ==
    \E t \in Way(from, s) :
        /\ state' = To(p, t)
        /\ \/ play' = after /\ UNCHANGED proc
           \/ p # None /\ t # s /\ play' = waiting /\ proc' = "hung"

MoreQuits == IF quits < MaxQuits THEN quits + 1 ELSE quits

(* song_current && song_current->next                                      *)
HasNext == current # 0 /\ current # length

(* The main context is dispatched: by the daemon's own loop, unless that   *)
(* was quit, or by a nested one.                                           *)
Listening == proc = "up" /\ (depth > 0 \/ main)

(* A NULL pointer is dereferenced.                                         *)
Crash ==
    /\ proc' = "crashed"
    /\ UNCHANGED <<depth, running, main, quits, pipeline, state, length, current, play, over, orderly>>

Init ==
    /\ proc = "up" /\ depth = 0 /\ running = FALSE /\ main = TRUE
    /\ quits = 0 /\ pipeline = None
    /\ state = [p \in Pipelines |-> "none"]
    /\ length = 0 /\ current = 0 /\ play = "stopped" /\ over = FALSE
    /\ orderly = TRUE

(* play_list_starting_at_current.                                          *)
PlayCurrent(p) ==
    \E t \in Way(At(p), "ready") : Raise(p, t, "playing", "stopped", "playing")

(* A list of n songs is cued from the i-th on: a pipeline is made, whatever*)
(* became of the one before, and plays inside g_main_loop_run.             *)
CuePlay(n, i) ==
    /\ Listening /\ depth < MaxNest
    /\ length' = n /\ current' = i /\ over' = FALSE
    /\ orderly' = (orderly /\ pipeline = None)
    /\ \E p \in Pipelines : state[p] = "none" /\ pipeline' = p /\ PlayCurrent(p)
    /\ IF proc' = "hung"
       THEN UNCHANGED <<depth, running>>
       ELSE depth' = depth + 1 /\ running' = TRUE
    /\ UNCHANGED <<main, quits>>

(* g_list_nth finds no song at the index, and its data is asked for.       *)
CueBeyond == Listening /\ Crash

(* No pipeline can be made: priv->pipeline is NULL now, whatever it was.   *)
CueFails ==
    /\ Listening
    /\ orderly' = (orderly /\ pipeline = None)
    /\ pipeline' = None
    /\ UNCHANGED <<proc, depth, running, main, quits, state, length, current, play, over>>

(* The innermost g_main_loop_run sees is_running FALSE; cue_play stops and *)
(* unrefs whatever priv->pipeline is by then, stopped or not.              *)
Return ==
    /\ proc = "up" /\ depth > 0 /\ ~running
    /\ depth' = depth - 1
    /\ Stop /\ pipeline' = None
    /\ play' = IF pipeline # None /\ state'[pipeline] = "none" THEN "stopped" ELSE play
    /\ UNCHANGED <<proc, running, main, quits, length, current, over>>

CueClear ==
    /\ Listening
    /\ length' = 0 /\ current' = 0
    /\ IF pipeline = None
       THEN UNCHANGED <<quits, state, play, over, orderly>>
       ELSE quits' = MoreQuits /\ Stop /\ play' = "stopped" /\ over' = TRUE
    /\ pipeline' = None
    /\ UNCHANGED <<proc, depth, running, main>>

ToPaused == Raise(pipeline, At(pipeline), "paused", play, "paused")

Pause ==
    /\ Listening
    /\ ToPaused
    /\ UNCHANGED <<depth, running, main, quits, pipeline, length, current, over, orderly>>

(* gst_element_get_state waits without a limit for the state the pipeline  *)
(* is in; if GStreamer does not know it, nothing is done.                  *)
PlayPause ==
    /\ Listening /\ pipeline # None
    /\ \/ proc' = "hung" /\ UNCHANGED <<state, play>>
       \/ /\ state[pipeline] = "paused"
          /\ Raise(pipeline, "paused", "playing", play, "playing")
       \/ state[pipeline] # "paused" /\ ToPaused
    /\ UNCHANGED <<depth, running, main, quits, pipeline, length, current, over, orderly>>

(* The next song is played in the pipeline there is, if any.               *)
PlayNext ==
    /\ current' = current + 1
    /\ PlayCurrent(pipeline)
    /\ over' = (over /\ pipeline = None)
    /\ UNCHANGED <<depth, running, main, quits, pipeline, length, orderly>>

(* next_item looks for the next song without asking whether there is one.  *)
Advance == IF current = 0 \/ current = length THEN Crash ELSE PlayNext

NextItem == Listening /\ Advance

(* The end of a song is announced on the bus of pipeline p, and taken for  *)
(* the end of the current song.                                            *)
EndOfStream(p) ==
    /\ Listening /\ state[p] = "playing"
    /\ IF HasNext
       THEN Advance
       ELSE /\ quits' = MoreQuits /\ over' = TRUE
            /\ UNCHANGED <<proc, depth, running, main, pipeline, state, length, current, play, orderly>>

(* The bus of a pipeline that was let go of may report an error, too.      *)
Error(p) ==
    /\ Listening /\ (p = pipeline \/ state[p] # "none")
    /\ Fail /\ play' = "stopped"
    /\ quits' = MoreQuits /\ over' = TRUE
    /\ UNCHANGED <<proc, depth, running, main, pipeline, length, current>>

(* g_main_loop_quit (priv->loop).                                          *)
Leave == running' = FALSE /\ UNCHANGED main

(* An idle source calls g_main_loop_quit, and is removed or not.           *)
Quit ==
    /\ Listening /\ quits > 0
    /\ Leave
    /\ \E stays \in QuitStays : quits' = IF stays THEN quits ELSE quits - 1
    /\ UNCHANGED <<proc, depth, pipeline, state, length, current, play, over, orderly>>

(* sigterm_handler quits the daemon's own loop, which is looked at when    *)
(* control is back in it.                                                  *)
Sigterm ==
    /\ proc \in {"up", "hung"} /\ main
    /\ main' = FALSE
    /\ UNCHANGED <<proc, depth, running, quits, pipeline, state, length, current, play, over, orderly>>

Exit ==
    /\ proc = "up" /\ depth = 0 /\ ~main
    /\ proc' = "exited"
    /\ UNCHANGED <<depth, running, main, quits, pipeline, state, length, current, play, over, orderly>>

Request ==
    \/ \E n \in 1 .. MaxSongs : \E i \in 1 .. n : CuePlay(n, i)
    \/ CueBeyond \/ CueFails \/ CueClear \/ Pause \/ PlayPause \/ NextItem

Message == \E p \in Pipelines : EndOfStream(p) \/ Error(p)

Next == Request \/ Message \/ Return \/ Quit \/ Sigterm \/ Exit

Spec == Init /\ [][Next]_vars

-----------------------------------------------------------------------------
TypeOK ==
    /\ proc \in {"up", "crashed", "exited", "hung"}
    /\ depth \in 0 .. MaxNest /\ quits \in 0 .. MaxQuits
    /\ running \in BOOLEAN /\ main \in BOOLEAN /\ over \in BOOLEAN
    /\ orderly \in BOOLEAN
    /\ pipeline \in Pipelines \cup {None}
    /\ state \in [Pipelines -> States]
    /\ length \in 0 .. MaxSongs /\ current \in 0 .. length
    /\ play \in {"stopped", "playing", "paused"}

Sounding == {p \in Pipelines : state[p] = "playing"}

(* Nothing plays on that no request can reach any more: as long as the     *)
(* remote clears before it cues, and GStreamer takes down what it is told  *)
(* to, a pipeline that is not stopped is the one in priv->pipeline.        *)
NothingOrphaned == orderly => \A p \in Pipelines : state[p] # "none" => p = pipeline

(* When such a remote is told that playback has stopped, it has, whatever  *)
(* GStreamer has refused to play or waits for.                             *)
StoppedIsSilent == orderly /\ play = "stopped" => Sounding = {}

(* Whatever GStreamer announces, and on whichever bus, the daemon goes on. *)
MessagesHarmless == [][Message => proc' # "crashed"]_vars
=============================================================================
