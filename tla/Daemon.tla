-------------------------------- MODULE Daemon --------------------------------
(***************************************************************************)
(* main () of dmapd.c with the player it hands to the remote's share:      *)
(* Startup and Render in one process.  Both are driven by the default main *)
(* context: whatever loop dispatches it, the daemon's own or one that a    *)
(* cue has nested in it, services, remotes and the player's messages       *)
(* arrive there, and nothing does while the terminal is asked for a        *)
(* passcode.                                                               *)
(***************************************************************************)
EXTENDS Startup

CONSTANTS Pipelines, MaxSongs, MaxNest, MaxQuits, QuitStays   \* those of Render

ASSUME PlayerAssumption ==
    /\ MaxSongs \in Nat \ {0} /\ MaxNest \in Nat \ {0} /\ MaxQuits \in Nat \ {0}
    /\ QuitStays \subseteq BOOLEAN /\ QuitStays # {}
    /\ None \notin Pipelines

VARIABLES
    proc, depth, running, main, quits, pipeline, length, current, play, over, orderly,
    pipes   \* Render's state: of each pipeline

Player == INSTANCE Render WITH state <- pipes

playerVars ==
    <<proc, depth, running, main, quits, pipeline, pipes, length, current, play, over, orderly>>
daemonVars == <<vars, playerVars>>

DaemonInit == Init /\ Player!Init

(* What main () does, or a callback of a service or a remote.              *)
Serving ==
    /\ Next
    /\ state = "loop" => Player!Listening
    /\ UNCHANGED playerVars

(* Requests reach the player through the remote's share alone, which is    *)
(* created with it (raop_service_added_cb).                                *)
Requested == state = "loop" /\ remote.db # None /\ Player!Request /\ UNCHANGED vars

(* The player's own callbacks, and the end of main ().                     *)
Looping ==
    /\ state = "loop"
    /\ Player!Message \/ Player!Return \/ Player!Quit \/ Player!Exit
    /\ UNCHANGED vars

(* The signal does not wait for the terminal.                              *)
Terminated == state \in {"loop", "asking"} /\ Player!Sigterm /\ UNCHANGED vars

DaemonNext == Serving \/ Requested \/ Looping \/ Terminated

(* The loops go on: the main context is dispatched, with its idle sources, *)
(* and a loop that was quit returns.  Whether a song comes to its end,     *)
(* GStreamer to the end of a transition or the user to a passcode is left  *)
(* open.                                                                   *)
DaemonSpec ==
    /\ DaemonInit /\ [][DaemonNext]_daemonVars
    /\ WF_daemonVars(state = "loop" /\ Player!Return /\ UNCHANGED vars)
    /\ WF_daemonVars(state = "loop" /\ Player!Quit /\ UNCHANGED vars)
    /\ WF_daemonVars(state = "loop" /\ Player!Exit /\ UNCHANGED vars)

-----------------------------------------------------------------------------
(* Of the player: while the remote clears each cue before the next and     *)
(* GStreamer takes pipelines down, none is lost hold of.                   *)
NothingOrphaned == Player!NothingOrphaned

(* Of the player: what is then called stopped is silent.                   *)
StoppedIsSilent == Player!StoppedIsSilent

(* Of the player: no message of GStreamer's takes the daemon down.         *)
MessagesHarmless == Player!MessagesHarmless

(* The callback waits: for GStreamer, or for a passcode.                   *)
Waiting == proc = "hung" \/ state = "asking"

Dead == proc \in {"crashed", "exited"} \/ state = "crashed"

(* No cue is left without the idle source that ends it: one that has       *)
(* ended, was reported as failed or was cleared lets go of the callbacks   *)
(* nested below it, unless something else is played meanwhile or a         *)
(* callback waits for GStreamer or the terminal for ever.                  *)
CueReturns == depth > 0 /\ over ~> depth = 0 \/ ~over \/ Waiting \/ Dead

(* SIGTERM ends a daemon whose loop runs (stop () in distro/dmapd.openwrt  *)
(* is killall), unless a callback is in its way: a cue that is not over,   *)
(* paused or playing, GStreamer, or a question for a passcode.             *)
SigtermEnds == ~main ~> Dead \/ Waiting \/ (depth > 0 /\ ~over)

(* Nothing sounds that nobody asked for: whatever plays, the daemon was    *)
(* told to render, and plays to the host it was told of, through a share   *)
(* that was created when that host's service was found.                    *)
PlaysForHost ==
    Player!Sounding # {} =>
        "-o" \in flags /\ host # None /\ remote.port # None /\ remote.db # None
=============================================================================
