------------------------------ MODULE Lifecycle ------------------------------
(***************************************************************************)
(* The life of dmapd processes on one machine (main () in dmapd.c): a      *)
(* process started without -f forks, takes the lock file, writes its pid   *)
(* and drops its privileges (daemonize ()); it installs the SIGTERM        *)
(* handler, builds its shares (serve (), which makes a new main loop each  *)
(* time) and runs the main loop, with the callbacks it dispatches, until   *)
(* the handler ends it.  Processes are started, sent SIGTERM and killed at *)
(* any time, and a pid is used again once its process is gone.  The        *)
(* processes share lockpath and pidpath: they were given the same -l, -i.  *)
(***************************************************************************)
EXTENDS Naturals, Sequences

CONSTANTS
    Pids,         \* process ids
    Digits,       \* pid -> how "%d" writes it
    Foregrounds,  \* values -f takes: a subset of BOOLEAN
    Users,        \* values -u takes: "dmapd", or None to stay root
    None          \* no user; no holder of the lock

ASSUME ConstantsAssumption ==
    /\ Digits \in [Pids -> Seq(0 .. 9)]
    /\ Foregrounds \subseteq BOOLEAN
    /\ None \notin Pids

VARIABLES
    pc,       \* pid -> where its process is
    options,  \* pid -> its -f and -u
    uid,      \* pid -> the user it runs as
    running,  \* pid -> is_running of the loop the variable loop points to
    asked,    \* pid -> where its process was when it was last sent SIGTERM
              \* since it started, or None
    holder,   \* the process that holds a lock on lockpath
    pidfile,  \* the content of pidpath
    written   \* (history) the pids of processes that wrote pidfile

vars == <<pc, options, uid, running, asked, holder, pidfile, written>>

(* "none": no process has the pid.  Then, in the order of main ():         *)
(* "parse", "lock", "pid", "drop" (the three of daemonize ()), "signal",   *)
(* "build", "loop" (g_main_loop_run), "callback" (g_main_loop_run, in a    *)
(* callback of this loop).                                                 *)
Places ==
    {"none", "parse", "lock", "pid", "drop", "signal", "build", "loop", "callback"}

Handled == {"build", "loop", "callback"}   \* the SIGTERM handler is in place

-----------------------------------------------------------------------------
(* Slips. *)

(* The pid is written first, then the lock is tried. *)
Slip_Fork(p, c) ==
    /\ pc[p] = "parse" /\ ~options[p].foreground /\ pc[c] = "none"
    /\ pc' = [pc EXCEPT ![p] = "none", ![c] = "lock"]
    /\ options' = [options EXCEPT ![c] = options[p]]
    /\ uid' = [uid EXCEPT ![c] = "root"]
    /\ running' = [running EXCEPT ![c] = FALSE]
    /\ asked' = [asked EXCEPT ![c] = None]
    /\ pidfile' = Digits[c] \o SubSeq(pidfile, Len(Digits[c]) + 1, Len(pidfile))
    /\ UNCHANGED <<holder, written>>

(* The lock is taken before the fork: a lockf lock is not inherited. *)
Slip_Lock(p) ==
    /\ pc[p] = "lock"
    /\ pc' = [pc EXCEPT ![p] = "pid"]
    /\ UNCHANGED <<options, uid, running, asked, holder, pidfile, written>>

(* F_LOCK for F_TLOCK: it waits. *)
Slip_LockFails(p) == FALSE

-----------------------------------------------------------------------------
(* write () at the start of a file that is not truncated.                  *)
Overwritten(new, old) ==
    [i \in 1 .. (IF Len(new) > Len(old) THEN Len(new) ELSE Len(old)) |->
        IF i <= Len(new) THEN new[i] ELSE old[i]]

(* The process is gone: its lock is released.                              *)
Gone(p) ==
    /\ pc' = [pc EXCEPT ![p] = "none"]
    /\ holder' = IF holder = p THEN None ELSE holder
    /\ written' = written \ {p}
    /\ UNCHANGED <<options, uid, running, asked, pidfile>>

Goto(p, from, to) == pc[p] = from /\ pc' = [pc EXCEPT ![p] = to]

Init ==
    /\ pc = [p \in Pids |-> "none"]
    /\ options = [p \in Pids |-> [foreground |-> FALSE, user |-> None]]
    /\ uid = [p \in Pids |-> "root"]
    /\ running = [p \in Pids |-> FALSE]
    /\ asked = [p \in Pids |-> None]
    /\ holder = None
    /\ pidfile = <<>>
    /\ written = {}

Launch(p, foreground, user) ==
    /\ Goto(p, "none", "parse")
    /\ options' = [options EXCEPT ![p] = [foreground |-> foreground, user |-> user]]
    /\ uid' = [uid EXCEPT ![p] = "root"]
    /\ running' = [running EXCEPT ![p] = FALSE]
    /\ asked' = [asked EXCEPT ![p] = None]
    /\ UNCHANGED <<holder, pidfile, written>>

(* With -f daemonize () is not called.                                     *)
StayForeground(p) ==
    /\ options[p].foreground
    /\ Goto(p, "parse", "signal")
    /\ UNCHANGED <<options, uid, running, asked, holder, pidfile, written>>

(* The parent exits at once; the child has everything but its pid.         *)
Fork(p, c) ==
    /\ pc[p] = "parse" /\ ~options[p].foreground /\ pc[c] = "none"
    /\ pc' = [pc EXCEPT ![p] = "none", ![c] = "lock"]
    /\ options' = [options EXCEPT ![c] = options[p]]
    /\ uid' = [uid EXCEPT ![c] = "root"]
    /\ running' = [running EXCEPT ![c] = FALSE]
    /\ asked' = [asked EXCEPT ![c] = None]
    /\ UNCHANGED <<holder, pidfile, written>>

(* lockf (F_TLOCK).                                                        *)
Lock(p) ==
    /\ holder = None
    /\ Goto(p, "lock", "pid")
    /\ holder' = p
    /\ UNCHANGED <<options, uid, running, asked, pidfile, written>>

(* Another process has the lock: g_error ends this one.                    *)
LockFails(p) == pc[p] = "lock" /\ holder # None /\ Gone(p)

(* open () or write () may fail: neither is checked.                       *)
WritePid(p) ==
    /\ Goto(p, "pid", "drop")
    /\ \/ /\ pidfile' = Overwritten(Digits[p], pidfile)
          /\ written' = written \cup {p}
       \/ UNCHANGED <<pidfile, written>>
    /\ UNCHANGED <<options, uid, running, asked, holder>>

(* drop_root (), if a user is given.                                       *)
Drop(p) ==
    /\ Goto(p, "drop", "signal")
    /\ uid' = [uid EXCEPT ![p] = IF options[p].user = None THEN @ ELSE options[p].user]
    /\ UNCHANGED <<options, running, asked, holder, pidfile, written>>

(* getpwnam or setuid fails: g_error.                                      *)
DropFails(p) == pc[p] = "drop" /\ options[p].user # None /\ Gone(p)

InstallHandler(p) ==
    /\ Goto(p, "signal", "build")
    /\ UNCHANGED <<options, uid, running, asked, holder, pidfile, written>>

(* serve (), for either kind of media: loop is a new loop.                 *)
BuildShare(p) ==
    /\ pc[p] = "build"
    /\ running' = [running EXCEPT ![p] = FALSE]
    /\ UNCHANGED <<pc, options, uid, asked, holder, pidfile, written>>

(* g_main_loop_run: it runs, whatever was asked of the loop before.        *)
RunLoop(p) ==
    /\ Goto(p, "build", "loop")
    /\ running' = [running EXCEPT ![p] = TRUE]
    /\ UNCHANGED <<options, uid, asked, holder, pidfile, written>>

(* The loop dispatches a callback.  It may wait without limit: for the     *)
(* loop a remote's cue runs inside it, for a pipeline, for a passcode.     *)
EnterCallback(p) ==
    /\ Goto(p, "loop", "callback")
    /\ UNCHANGED <<options, uid, running, asked, holder, pidfile, written>>

LeaveCallback(p) ==
    /\ Goto(p, "callback", "loop")
    /\ UNCHANGED <<options, uid, running, asked, holder, pidfile, written>>

(* g_main_loop_run returns, which it does between callbacks only, and      *)
(* main () exits.                                                          *)
LeaveLoop(p) == pc[p] = "loop" /\ ~running[p] /\ Gone(p)

(* The handler: g_main_loop_quit (loop).                                   *)
Sigterm(p) ==
    /\ pc[p] \in Handled
    /\ running' = [running EXCEPT ![p] = FALSE]
    /\ asked' = [asked EXCEPT ![p] = pc[p]]
    /\ UNCHANGED <<pc, options, uid, holder, pidfile, written>>

(* Before the handler is in place SIGTERM ends the process, as SIGKILL     *)
(* does at any time.                                                       *)
Killed(p) == pc[p] # "none" /\ Gone(p)

Step(p) ==
    \/ StayForeground(p)
    \/ \E c \in Pids : Fork(p, c)
    \/ Lock(p) \/ LockFails(p) \/ WritePid(p) \/ Drop(p) \/ DropFails(p)
    \/ InstallHandler(p) \/ RunLoop(p) \/ LeaveLoop(p)

Next ==
    \E p \in Pids :
        \/ \E f \in Foregrounds, u \in Users : Launch(p, f, u)
        \/ Step(p) \/ BuildShare(p) \/ EnterCallback(p) \/ LeaveCallback(p)
        \/ Sigterm(p) \/ Killed(p)

Spec == Init /\ [][Next]_vars

(* A process goes on, and gets through serve () in the end.  Nothing says  *)
(* that a callback returns.                                                *)
FairSpec == Spec /\ \A p \in Pids : WF_vars(Step(p))

-----------------------------------------------------------------------------
TypeOK ==
    /\ pc \in [Pids -> Places]
    /\ options \in [Pids -> [foreground : BOOLEAN, user : Users \cup {None}]]
    /\ uid \in [Pids -> Users \cup {"root"}]
    /\ running \in [Pids -> BOOLEAN]
    /\ asked \in [Pids -> Handled \cup {None}]
    /\ holder \in Pids \cup {None}
    /\ pidfile \in Seq(0 .. 9)
    /\ written \subseteq Pids

(* p forked and is past the lock. *)
Daemon(p) ==
    /\ pc[p] \in {"pid", "drop", "signal", "build", "loop", "callback"}
    /\ ~options[p].foreground

(* Two daemons do not share a lock file: however many are started with one *)
(* lockpath, only one gets past the lock.  (A process that stays in the    *)
(* foreground never asks for it.)                                          *)
OneDaemon == \A p, q \in Pids : Daemon(p) /\ Daemon(q) => p = q

(* A start that fails does not touch the pid file of the daemon that runs: *)
(* once a daemon has written it, the file goes on beginning with its pid   *)
(* as long as it lives.                                                    *)
PidFileKept ==
    \A p \in written :
        /\ Daemon(p)
        /\ Len(pidfile) >= Len(Digits[p])
        /\ SubSeq(pidfile, 1, Len(Digits[p])) = Digits[p]

(* A second start ends by itself instead of waiting behind the first.      *)
SecondStartEnds == \A p \in Pids : pc[p] = "lock" ~> pc[p] # "lock"

(* SIGTERM ends a daemon (stop () in distro/dmapd.openwrt is killall), if  *)
(* its callbacks return.                                                   *)
AlwaysStops == \A p \in Pids : asked[p] # None ~> pc[p] \in {"none", "callback"}
=============================================================================
