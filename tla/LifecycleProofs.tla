--------------------------- MODULE LifecycleProofs ---------------------------
(* What holds of Lifecycle for all pids, options and users. *)
EXTENDS Lifecycle, SequenceTheorems, TLAPS

(* What a pid written over an old one leaves: it comes first. *)
LEMMA OverwrittenBegins ==
    ASSUME NEW new \in Seq(0 .. 9), NEW old \in Seq(0 .. 9)
    PROVE  /\ Overwritten(new, old) \in Seq(0 .. 9)
           /\ Len(Overwritten(new, old)) >= Len(new)
           /\ SubSeq(Overwritten(new, old), 1, Len(new)) = new
<1> DEFINE n == IF Len(new) > Len(old) THEN Len(new) ELSE Len(old)
           w == Overwritten(new, old)
<1>1. n \in Nat /\ n >= Len(new) /\ n >= Len(old) /\ Len(new) \in Nat /\ (n = Len(new) \/ n = Len(old))
  OBVIOUS
<1>2. w = [i \in 1 .. n |-> IF i <= Len(new) THEN new[i] ELSE old[i]]
  BY DEF Overwritten
<1> HIDE DEF n, w
<1>3. \A i \in 1 .. n : (IF i <= Len(new) THEN new[i] ELSE old[i]) \in 0 .. 9
  BY <1>1
<1>4. w \in Seq(0 .. 9) /\ Len(w) = n
  BY <1>1, <1>2, <1>3
<1>5. SubSeq(w, 1, Len(new)) = new
  BY <1>1, <1>2, <1>4
<1> QED BY <1>1, <1>4, <1>5 DEF w

(* A daemon holds the lock.  OneDaemon alone is not inductive: it does not *)
(* say that the lock is taken when there is a daemon.                      *)
DaemonHolds == \A p \in Pids : Daemon(p) => holder = p

(* Only a process that forked is in daemonize (). *)
Forked == \A p \in Pids : pc[p] \in {"lock", "pid", "drop"} => ~options[p].foreground

Alone == TypeOK /\ Forked /\ DaemonHolds /\ PidFileKept

LEMMA AloneInit == Init => Alone
BY ConstantsAssumption DEF Init, Alone, TypeOK, Forked, DaemonHolds, PidFileKept, Daemon, Places

(* A step that writes neither the lock nor the pid file, and makes no      *)
(* daemon.                                                                 *)
LEMMA Aside ==
    ASSUME Alone, TypeOK', Forked', UNCHANGED pidfile, written' \subseteq written,
           \A q \in Pids : Daemon(q)' => Daemon(q) /\ holder' = holder,
           \A q \in Pids : Daemon(q) => Daemon(q)' \/ q \notin written'
    PROVE  Alone'
<1>1. \A q \in written' : q \in Pids /\ q \in written /\ Daemon(q)'
  BY DEF Alone, PidFileKept, TypeOK
<1>2. PidFileKept'
  BY <1>1 DEF Alone, PidFileKept
<1> QED BY <1>2 DEF Alone, DaemonHolds

LEMMA AloneStep == Alone /\ [Next]_vars => Alone'
<1> SUFFICES ASSUME Alone, [Next]_vars PROVE Alone'
  OBVIOUS
<1> USE DEF Goto, Places, Handled
<1>t. TypeOK /\ Forked /\ DaemonHolds /\ PidFileKept
  BY DEF Alone
<1>1. ASSUME NEW p \in Pids, NEW f \in Foregrounds, NEW u \in Users, Launch(p, f, u)
      PROVE  Alone'
  BY <1>1, <1>t, ConstantsAssumption, Aside DEF Launch, TypeOK, Forked, Daemon
<1>2. ASSUME NEW p \in Pids, StayForeground(p) PROVE Alone'
  BY <1>2, <1>t, Aside DEF StayForeground, TypeOK, Forked, Daemon
<1>3. ASSUME NEW p \in Pids, NEW c \in Pids, Fork(p, c) PROVE Alone'
  BY <1>3, <1>t, Aside DEF Fork, TypeOK, Forked, Daemon
<1>4. ASSUME NEW p \in Pids, Lock(p) PROVE Alone'
  BY <1>4, <1>t, ConstantsAssumption DEF Lock, Alone, TypeOK, Forked, Daemon, DaemonHolds, PidFileKept
<1>5. ASSUME NEW p \in Pids, Gone(p) PROVE Alone'
  BY <1>5, <1>t, Aside DEF Gone, TypeOK, Forked, Daemon, DaemonHolds
<1>6. ASSUME NEW p \in Pids, WritePid(p) PROVE Alone'
  <2>1. /\ Daemon(p)
        /\ \A q \in Pids : Daemon(q)' <=> Daemon(q)
    BY <1>6, <1>t DEF WritePid, TypeOK, Forked, Daemon
  <2>2. CASE UNCHANGED <<pidfile, written>>
    <3>1. TypeOK' /\ Forked'
      BY <1>6, <1>t, <2>2 DEF WritePid, TypeOK, Forked
    <3> QED BY <1>6, <1>t, <2>1, <2>2, <3>1, Aside DEF WritePid
  <2>3. CASE pidfile' = Overwritten(Digits[p], pidfile) /\ written' = written \cup {p}
    <3>1. /\ pidfile' \in Seq(0 .. 9)
          /\ Len(pidfile') >= Len(Digits[p])
          /\ SubSeq(pidfile', 1, Len(Digits[p])) = Digits[p]
      BY <2>3, <1>t, ConstantsAssumption, OverwrittenBegins DEF TypeOK
    <3>2. TypeOK' /\ Forked'
      BY <1>6, <1>t, <2>3, <3>1 DEF WritePid, TypeOK, Forked
    <3>3. DaemonHolds'
      BY <1>6, <1>t, <2>1 DEF WritePid, DaemonHolds
    <3>4. \A q \in written' : q = p
      BY <1>t, <2>1, <2>3 DEF DaemonHolds, PidFileKept, TypeOK
    <3> QED BY <2>1, <3>1, <3>2, <3>3, <3>4 DEF Alone, PidFileKept
  <2> QED BY <1>6, <2>2, <2>3 DEF WritePid
<1>7. ASSUME NEW p \in Pids, Drop(p) PROVE Alone'
  BY <1>7, <1>t, Aside DEF Drop, TypeOK, Forked, Daemon
<1>8. ASSUME NEW p \in Pids, \/ InstallHandler(p) \/ BuildShare(p) \/ RunLoop(p)
                              \/ EnterCallback(p) \/ LeaveCallback(p) \/ Sigterm(p)
      PROVE  Alone'
  BY <1>8, <1>t, Aside DEF InstallHandler, BuildShare, RunLoop, EnterCallback,
                           LeaveCallback, Sigterm, TypeOK, Forked, Daemon
<1>9. CASE UNCHANGED vars
  BY <1>9, <1>t, Aside DEF vars, TypeOK, Forked, Daemon
<1> QED
  BY <1>1, <1>2, <1>3, <1>4, <1>5, <1>6, <1>7, <1>8, <1>9
     DEF Next, Step, LockFails, DropFails, LeaveLoop, Killed

(* The lock is held by the daemon there is, and the pid file begins with   *)
(* its pid, if it could write it.                                          *)
THEOREM AloneInvariant == Spec => []Alone
BY AloneInit, AloneStep, PTL DEF Spec

(* Of any number of daemons started with one lockpath, one gets past the   *)
(* lock.                                                                   *)
THEOREM OnlyOneDaemon == Spec => []OneDaemon
<1>1. Alone => OneDaemon
  BY DEF Alone, DaemonHolds, OneDaemon
<1> QED BY <1>1, AloneInvariant, PTL

(* Failing starts leave the pid file to the daemon that runs. *)
THEOREM PidFileAlwaysKept == Spec => []PidFileKept
BY AloneInvariant, PTL DEF Alone
=============================================================================
