----------------------------- MODULE DaemonProofs -----------------------------
(***************************************************************************)
(* Proofs about the daemon.  Of the player, for any pipelines, lists and   *)
(* nesting: what holds as long as the remote has cleared each cue before   *)
(* the next and pipelines are taken down when told.  Of main (): that what *)
(* was asked for is served, for every command line and configuration file, *)
(* and whom the daemon plays for.  Then of both together.                  *)
(***************************************************************************)
EXTENDS Daemon, FiniteSetTheorems, SequenceTheorems, TLAPS

-----------------------------------------------------------------------------
(* The player.                                                             *)

Kept == Player!TypeOK /\ Player!NothingOrphaned /\ Player!StoppedIsSilent

(* TypeOK, with the counters apart. *)
Counters ==
    /\ depth \in 0 .. MaxNest /\ quits \in 0 .. MaxQuits
    /\ length \in 0 .. MaxSongs /\ current \in 0 .. length

Others ==
    /\ proc \in {"up", "crashed", "exited", "hung"}
    /\ running \in BOOLEAN /\ main \in BOOLEAN /\ over \in BOOLEAN
    /\ orderly \in BOOLEAN
    /\ pipeline \in Pipelines \cup {None}
    /\ pipes \in [Pipelines -> Player!States]
    /\ play \in {"stopped", "playing", "paused"}

LEMMA TypeParts == Player!TypeOK <=> Counters /\ Others
BY DEF Player!TypeOK, Counters, Others

(* The states, and those a transition comes through.                       *)
LEMMA OnTheWay ==
    /\ Player!States = {"none", "ready", "paused", "playing"}
    /\ \A from, to : Player!Way(from, to) \subseteq Player!States
BY DEF Player!States, Player!Level, Player!Way

LEMMA KeptInit == Player!Init => Kept
<1> SUFFICES ASSUME Player!Init PROVE Kept
  OBVIOUS
<1>1. Counters
  BY PlayerAssumption DEF Player!Init, Counters
<1>2. Others /\ Player!NothingOrphaned /\ Player!StoppedIsSilent
  BY OnTheWay DEF Player!Init, Others, Player!NothingOrphaned, Player!StoppedIsSilent, Player!Sounding
<1> QED BY <1>1, <1>2, TypeParts DEF Kept

(* A pipeline moved to s leaves the others where they are. *)
LEMMA Moved ==
    ASSUME Player!TypeOK, NEW p, NEW s \in Player!States
    PROVE  /\ Player!To(p, s) \in [Pipelines -> Player!States]
           /\ \A q \in Pipelines : Player!To(p, s)[q] = IF q = p THEN s ELSE pipes[q]
BY DEF Player!To, Player!TypeOK

(* A pipeline that was to go down to s, and is there if all is in order.   *)
LEMMA Lowered ==
    ASSUME Player!TypeOK, NEW s \in Player!States, Player!Lower(s)
    PROVE  /\ pipes' \in [Pipelines -> Player!States] /\ orderly' \in BOOLEAN
           /\ orderly' => orderly
           /\ \A q \in Pipelines : q # pipeline => pipes'[q] = pipes[q]
           /\ orderly' /\ pipeline \in Pipelines => pipes'[pipeline] = s
<1>1. PICK t \in IF pipeline = None THEN {s} ELSE Player!Way(Player!At(pipeline), s) :
         pipes' = Player!To(pipeline, t) /\ orderly' = (orderly /\ t = s)
  BY DEF Player!Lower
<1>2. t \in Player!States
  BY <1>1, OnTheWay
<1>3. orderly \in BOOLEAN
  BY DEF Player!TypeOK
<1>4. /\ pipes' \in [Pipelines -> Player!States]
      /\ \A q \in Pipelines : pipes'[q] = IF q = pipeline THEN t ELSE pipes[q]
  BY <1>1, <1>2, Moved
<1>5. orderly' \in BOOLEAN /\ (orderly' => orderly /\ t = s)
  BY <1>1, <1>3
<1> QED BY <1>4, <1>5

(* A pipeline that was to go up, and the process with it.                  *)
LEMMA Raised ==
    ASSUME Player!TypeOK, NEW p, NEW from, NEW s \in {"paused", "playing"},
           NEW waiting, NEW after, Player!Raise(p, from, s, waiting, after)
    PROVE  \E t \in Player!States :
              /\ pipes' = Player!To(p, t) /\ pipes' \in [Pipelines -> Player!States]
              /\ \A q \in Pipelines : pipes'[q] = IF q = p THEN t ELSE pipes[q]
              /\ \/ play' = after /\ proc' = proc
                 \/ play' = waiting /\ proc' = "hung" /\ t # s
<1>1. PICK t \in Player!Way(from, s) :
        /\ pipes' = Player!To(p, t)
        /\ \/ play' = after /\ proc' = proc
           \/ p # None /\ t # s /\ play' = waiting /\ proc' = "hung"
  BY DEF Player!Raise
<1>2. t \in Player!States
  BY OnTheWay
<1> QED BY <1>1, <1>2, Moved

(* The current song is played in p: either play_state says so, or the      *)
(* callback waits, and p is silent.                                        *)
LEMMA Played ==
    ASSUME Player!TypeOK, NEW p, Player!PlayCurrent(p)
    PROVE  /\ pipes' \in [Pipelines -> Player!States]
           /\ \A q \in Pipelines : q # p => pipes'[q] = pipes[q]
           /\ \/ play' = "playing" /\ proc' = proc
              \/ /\ play' = "stopped" /\ proc' = "hung"
                 /\ p \in Pipelines => pipes'[p] # "playing"
<1>1. PICK r \in Player!Way(Player!At(p), "ready") :
         Player!Raise(p, r, "playing", "stopped", "playing")
  BY DEF Player!PlayCurrent
<1>2. PICK t \in Player!States :
              /\ pipes' = Player!To(p, t) /\ pipes' \in [Pipelines -> Player!States]
              /\ \A q \in Pipelines : pipes'[q] = IF q = p THEN t ELSE pipes[q]
              /\ \/ play' = "playing" /\ proc' = proc
                 \/ play' = "stopped" /\ proc' = "hung" /\ t # "playing"
  BY <1>1, Raised
<1> QED BY <1>2

(* It is to be paused: what was silent stays so while the callback waits.  *)
LEMMA Paused ==
    ASSUME Player!TypeOK, Player!ToPaused
    PROVE  /\ pipes' \in [Pipelines -> Player!States]
           /\ \A q \in Pipelines : q # pipeline => pipes'[q] = pipes[q]
           /\ \A q \in Pipelines : pipes'[q] = "playing" => pipes[q] = "playing"
           /\ (play' = "paused" /\ proc' = proc) \/ (play' = play /\ proc' = "hung")
<1>1. PICK t \in Player!Way(Player!At(pipeline), "paused") :
        /\ pipes' = Player!To(pipeline, t)
        /\ \/ play' = "paused" /\ proc' = proc
           \/ pipeline # None /\ t # "paused" /\ play' = play /\ proc' = "hung"
  BY DEF Player!ToPaused, Player!Raise
<1>2. t \in Player!States
  BY OnTheWay
<1>3. \A q \in Pipelines : pipes'[q] = IF q = pipeline THEN t ELSE pipes[q]
  BY <1>1, <1>2, Moved
<1>4. ASSUME NEW q \in Pipelines, pipes'[q] = "playing" PROVE pipes[q] = "playing"
  <2>1. CASE q # pipeline
    BY <1>3, <1>4, <2>1
  <2>2. CASE q = pipeline
    <3>1. t = "playing" /\ Player!At(pipeline) = pipes[q] /\ pipes[q] \in Player!States
      BY <1>3, <1>4, <2>2, PlayerAssumption DEF Player!At, Player!TypeOK
    <3>2. "playing" \in Player!Way(pipes[q], "paused")
      BY <1>1, <3>1
    <3> QED BY <3>1, <3>2, OnTheWay DEF Player!Way, Player!Level
  <2> QED BY <2>1, <2>2
<1> QED BY <1>1, <1>2, <1>3, <1>4, Moved

LEMMA KeptStep == Kept /\ [Player!Next]_(Player!vars) => Kept'
<1> SUFFICES ASSUME Kept, [Player!Next]_(Player!vars) PROVE Kept'
  OBVIOUS
<1> USE PlayerAssumption DEF Kept, Player!NothingOrphaned, Player!StoppedIsSilent, Player!Sounding
<1>q. Player!MoreQuits \in 0 .. MaxQuits
  BY DEF Player!MoreQuits, Player!TypeOK
<1>t. Counters /\ Others /\ (Counters' /\ Others' => Player!TypeOK')
  BY DEF Player!TypeOK, Counters, Others
<1>s. {"none", "ready", "paused", "playing"} = Player!States
  BY OnTheWay
<1>1. ASSUME NEW n \in 1 .. MaxSongs, NEW i \in 1 .. n, Player!CuePlay(n, i) PROVE Kept'
  <2>1. PICK p \in Pipelines : pipes[p] = "none" /\ pipeline' = p /\ Player!PlayCurrent(p)
    BY <1>1 DEF Player!CuePlay
  <2>2. /\ orderly' \in BOOLEAN
        /\ orderly' => orderly /\ \A q \in Pipelines : pipes[q] = "none"
    BY <1>1, <1>t DEF Player!CuePlay, Others
  <2>3. Counters'
    <3>1. depth' = depth \/ (depth < MaxNest /\ depth' = depth + 1)
      BY <1>1 DEF Player!CuePlay
    <3> QED BY <1>1, <1>t, <3>1 DEF Player!CuePlay, Counters
  <2>4. running' \in BOOLEAN
    BY <1>1, <1>t DEF Player!CuePlay, Others
  <2>5. Others'
    BY <1>1, <1>t, <2>1, <2>2, <2>4, Played DEF Player!CuePlay, Others
  <2>6. (Player!NothingOrphaned /\ Player!StoppedIsSilent)'
    BY <2>1, <2>2, Played
  <2> QED BY <1>t, <2>3, <2>5, <2>6
<1>2. CASE Player!Crash
  BY <1>2 DEF Player!Crash, Player!TypeOK
<1>3. CASE Player!CueFails
  BY <1>3 DEF Player!CueFails, Player!TypeOK
<1>4. CASE Player!Return
  <2>1. Player!Lower("none") /\ pipeline' = None
    BY <1>4 DEF Player!Return, Player!Stop
  <2>2. /\ pipes' \in [Pipelines -> Player!States] /\ orderly' \in BOOLEAN
        /\ orderly' => \A q \in Pipelines : pipes'[q] = "none"
    BY <2>1, <1>s, Lowered
  <2>3. Counters'
    BY <1>4, <1>t DEF Player!Return, Counters
  <2>4. Others'
    BY <1>4, <1>t, <2>1, <2>2 DEF Player!Return, Others
  <2> QED BY <1>t, <2>2, <2>3, <2>4
<1>5. CASE Player!CueClear
  <2>1. /\ pipes' \in [Pipelines -> Player!States] /\ orderly' \in BOOLEAN
        /\ orderly' => \A q \in Pipelines : pipes'[q] = "none"
    BY <1>5, <1>s, Lowered DEF Player!CueClear, Player!Stop, Player!TypeOK
  <2>2. Counters'
    BY <1>5, <1>q, <1>t DEF Player!CueClear, Counters
  <2>3. play' \in {"stopped", "playing", "paused"} /\ over' \in BOOLEAN
    BY <1>5, <1>t DEF Player!CueClear, Others
  <2>4. Others'
    BY <1>5, <1>t, <2>1, <2>3 DEF Player!CueClear, Others
  <2> QED BY <1>t, <2>1, <2>2, <2>4
<1>6. ASSUME Player!ToPaused, UNCHANGED <<depth, running, main, quits, pipeline, length, current, over, orderly>>
      PROVE  Kept'
  <2>1. Counters' /\ Others'
    BY <1>6, <1>t, Paused DEF Counters, Others
  <2>2. (Player!NothingOrphaned /\ Player!StoppedIsSilent)'
    BY <1>6, Paused
  <2> QED BY <1>t, <2>1, <2>2
<1>7. CASE Player!PlayPause
  <2>0. UNCHANGED <<depth, running, main, quits, pipeline, length, current, over, orderly>>
        /\ pipeline \in Pipelines
    BY <1>7, <1>t DEF Player!PlayPause, Others
  <2>1. CASE proc' = "hung" /\ UNCHANGED <<pipes, play>>
    BY <2>0, <2>1, <1>t DEF Counters, Others
  <2>2. CASE Player!Raise(pipeline, "paused", "playing", play, "playing") /\ pipes[pipeline] = "paused"
    <3>1. PICK t \in Player!States :
              /\ pipes' = Player!To(pipeline, t) /\ pipes' \in [Pipelines -> Player!States]
              /\ \A q \in Pipelines : pipes'[q] = IF q = pipeline THEN t ELSE pipes[q]
              /\ \/ play' = "playing" /\ proc' = proc
                 \/ play' = play /\ proc' = "hung" /\ t # "playing"
      BY <2>2, Raised
    <3>2. Counters' /\ Others'
      BY <2>0, <3>1, <1>t DEF Counters, Others
    <3>3. (Player!NothingOrphaned /\ Player!StoppedIsSilent)'
      BY <2>0, <3>1
    <3> QED BY <1>t, <3>2, <3>3
  <2> QED BY <1>6, <1>7, <2>0, <2>1, <2>2 DEF Player!PlayPause
<1>8. ASSUME Player!PlayNext, Player!HasNext \/ ~(current = 0 \/ current = length) PROVE Kept'
  <2>1. Counters'
    BY <1>8, <1>t DEF Player!PlayNext, Player!HasNext, Counters
  <2>2. Others'
    BY <1>8, <1>t, Played DEF Player!PlayNext, Others
  <2>3. (Player!NothingOrphaned /\ Player!StoppedIsSilent)'
    BY <1>8, Played DEF Player!PlayNext
  <2> QED BY <1>t, <2>1, <2>2, <2>3
<1>9. ASSUME NEW p \in Pipelines, Player!EndOfStream(p) PROVE Kept'
  <2>1. CASE Player!HasNext
    BY <1>9, <2>1, <1>2, <1>8 DEF Player!EndOfStream, Player!HasNext, Player!Advance
  <2>2. CASE ~Player!HasNext
    BY <1>9, <2>2, <1>q DEF Player!EndOfStream, Player!TypeOK
  <2> QED BY <2>1, <2>2
<1>10. ASSUME NEW p \in Pipelines, Player!Error(p) PROVE Kept'
  <2>1. Player!Lower("ready") /\ pipeline' = pipeline
    BY <1>10 DEF Player!Error, Player!Fail
  <2>2. /\ pipes' \in [Pipelines -> Player!States] /\ orderly' \in BOOLEAN
        /\ orderly' => /\ \A q \in Pipelines : q # pipeline => pipes'[q] = "none"
                       /\ \A q \in Pipelines : pipes'[q] # "playing"
    BY <2>1, <1>s, Lowered
  <2>3. Counters'
    BY <1>10, <1>q, <1>t DEF Player!Error, Counters
  <2>4. Others'
    BY <1>10, <1>t, <2>2 DEF Player!Error, Others
  <2> QED BY <1>t, <2>1, <2>2, <2>3, <2>4
<1>11. CASE Player!Quit
  <2>1. Counters'
    BY <1>11, <1>t DEF Player!Quit, Player!Leave, Counters
  <2>2. Others'
    BY <1>11, <1>t DEF Player!Quit, Player!Leave, Others
  <2> QED BY <1>11, <1>t, <2>1, <2>2 DEF Player!Quit, Player!Leave
<1>12. CASE Player!Sigterm
  BY <1>12 DEF Player!Sigterm, Player!TypeOK
<1>13. CASE Player!Exit
  BY <1>13 DEF Player!Exit, Player!TypeOK
<1>14. CASE UNCHANGED Player!vars
  BY <1>14 DEF Player!vars, Player!TypeOK
<1>15. CASE Player!NextItem \/ Player!CueBeyond
  BY <1>15, <1>2, <1>8 DEF Player!NextItem, Player!CueBeyond, Player!Advance
<1>16. CASE Player!Pause
  BY <1>16, <1>6 DEF Player!Pause
<1> QED
  BY <1>1, <1>2, <1>3, <1>4, <1>5, <1>7, <1>9, <1>10, <1>11, <1>12, <1>13,
     <1>14, <1>15, <1>16
     DEF Player!Next, Player!Request, Player!Message

(* The three together, in every reachable state. *)
LEMMA KeptInvariant == Player!Spec => []Kept
<1>1. Kept /\ [Player!Next]_(Player!vars) => Kept'
  BY KeptStep
<1> QED BY <1>1, KeptInit, PTL DEF Player!Spec

(* A remote that clears before it cues never loses hold of a pipeline.     *)
LEMMA PlayerOrphansNothing == Player!Spec => []Player!NothingOrphaned
<1>1. Kept => Player!NothingOrphaned
  BY DEF Kept
<1> QED BY <1>1, KeptInvariant, PTL

(* What such a remote is told is stopped is silent.                        *)
LEMMA PlayerStopsSilent == Player!Spec => []Player!StoppedIsSilent
<1>1. Kept => Player!StoppedIsSilent
  BY DEF Kept
<1> QED BY <1>1, KeptInvariant, PTL

(* No message takes the daemon down, from whichever pipeline and however   *)
(* the remote has cued: the handler of the bus looks for a next song.      *)
LEMMA PlayerSurvivesMessages == Player!Spec => Player!MessagesHarmless
<1>1. ASSUME Player!Message, proc' = "crashed" PROVE FALSE
  <2>1. PICK p \in Pipelines : Player!EndOfStream(p) \/ Player!Error(p)
    BY <1>1 DEF Player!Message
  <2>2. proc = "up"
    BY <2>1 DEF Player!EndOfStream, Player!Error, Player!Listening
  <2>3. CASE Player!EndOfStream(p) /\ Player!HasNext
    <3>1. Player!PlayNext
      BY <2>3 DEF Player!EndOfStream, Player!HasNext, Player!Advance
    <3> QED BY <1>1, <2>2, <3>1 DEF Player!PlayNext, Player!PlayCurrent, Player!Raise
  <2>4. CASE Player!EndOfStream(p) /\ ~Player!HasNext
    BY <1>1, <2>2, <2>4 DEF Player!EndOfStream
  <2>5. CASE Player!Error(p)
    BY <1>1, <2>2, <2>5 DEF Player!Error
  <2> QED BY <2>1, <2>3, <2>4, <2>5
<1>2. [Player!Next]_(Player!vars) => [Player!Message => proc' # "crashed"]_(Player!vars)
  BY <1>1
<1> QED BY <1>2, PTL DEF Player!Spec, Player!MessagesHarmless

-----------------------------------------------------------------------------
(* main (): the options.                                                   *)

(* What is counted among one option more.                                  *)
LEMMA CountMore ==
    ASSUME NEW args, NEW names, NEW n \in Nat
    PROVE  /\ Count(args, names, n) \in Nat
           /\ args[n + 1].name \in names    => Count(args, names, n + 1) = Count(args, names, n) + 1
           /\ args[n + 1].name \notin names => Count(args, names, n + 1) = Count(args, names, n)
<1> DEFINE Places(k) == {i \in 1..k : args[i].name \in names}
<1>1. IsFiniteSet(Places(n))
  <2>1. IsFiniteSet(1..n) /\ Places(n) \subseteq 1..n
    BY FS_Interval
  <2> QED
    BY <2>1, FS_Subset
<1>2. Cardinality(Places(n)) \in Nat
  BY <1>1, FS_CardinalityType
<1>3. n + 1 \notin Places(n) /\ 1..n + 1 = 1..n \cup {n + 1}
  OBVIOUS
<1>4. CASE args[n + 1].name \in names
  <2>1. Places(n + 1) = Places(n) \cup {n + 1}
    BY <1>3, <1>4
  <2> HIDE DEF Places
  <2>2. Cardinality(Places(n) \cup {n + 1}) = Cardinality(Places(n)) + 1
    BY <1>1, <1>3, FS_AddElement
  <2> QED
    BY <1>2, <1>4, <2>1, <2>2 DEF Count, Places
<1>5. CASE args[n + 1].name \notin names
  <2>1. Places(n + 1) = Places(n)
    BY <1>3, <1>5
  <2> QED
    BY <1>2, <1>5, <2>1 DEF Count
<1> QED
  BY <1>4, <1>5

LEMMA CountNone == ASSUME NEW args, NEW names PROVE Count(args, names, 0) = 0
<1>1. {i \in 1..0 : args[i].name \in names} = {}
  OBVIOUS
<1> QED
  BY <1>1, FS_EmptySet DEF Count

(* Among more options no fewer are counted; one that is counted is one.    *)
LEMMA CountMonotone ==
    ASSUME NEW args, NEW names, NEW n \in Nat, NEW i \in 1..n
    PROVE  /\ Count(args, names, i) \in Nat /\ Count(args, names, i) <= Count(args, names, n)
           /\ args[i].name \in names => Count(args, names, i) >= 1
<1> DEFINE Places(k) == {j \in 1..k : args[j].name \in names}
<1>1. IsFiniteSet(Places(n)) /\ Places(i) \subseteq Places(n)
  <2>1. IsFiniteSet(1..n) /\ Places(n) \subseteq 1..n
    BY FS_Interval
  <2> QED
    BY <2>1, FS_Subset
<1> HIDE DEF Places
<1>2. IsFiniteSet(Places(i)) /\ Cardinality(Places(i)) <= Cardinality(Places(n))
  BY <1>1, FS_Subset
<1>3. Cardinality(Places(i)) \in Nat
  BY <1>2, FS_CardinalityType
<1>4. ASSUME args[i].name \in names PROVE Count(args, names, i) >= 1
  <2>1. i - 1 \in Nat /\ (i - 1) + 1 = i
    OBVIOUS
  <2> QED
    BY <1>4, <2>1, CountMore
<1> QED
  BY <1>2, <1>3, <1>4 DEF Count, Places

(* A list that adds up still does when the next option adds to it, ...     *)
LEMMA AddsUpMore ==
    ASSUME NEW S, NEW list \in Seq(S), NEW file \in Seq(S), NEW args, NEW names, NEW n \in Nat,
           AddsUp(list, file, args, names, n),
           args[n + 1].name \in names, args[n + 1].value \in S
    PROVE  AddsUp(Append(list, args[n + 1].value), file, args, names, n + 1)
<1> DEFINE v == args[n + 1].value
           longer == Append(list, v)
<1>1. /\ Len(longer) = Len(list) + 1 /\ longer[Len(list) + 1] = v
      /\ \A k \in 1..Len(list) : longer[k] = list[k]
  OBVIOUS
<1>2. Count(args, names, n) \in Nat /\ Count(args, names, n + 1) = Count(args, names, n) + 1
  BY CountMore
<1>3. Len(list) = Len(file) + Count(args, names, n) /\ Len(file) \in Nat
  BY DEF AddsUp
<1> HIDE DEF longer
<1>4. Len(longer) = Len(file) + Count(args, names, n + 1)
  BY <1>1, <1>2, <1>3
<1>5. \A i \in 1..Len(file) : longer[i] = file[i]
  BY <1>1, <1>2, <1>3 DEF AddsUp
<1>6. ASSUME NEW i \in 1..n + 1, args[i].name \in names
      PROVE  longer[Len(file) + Count(args, names, i)] = args[i].value
  <2>1. CASE i = n + 1
    <3>1. Len(file) + Count(args, names, i) = Len(list) + 1
      BY <1>2, <1>3, <2>1
    <3> QED
      BY <1>1, <2>1, <3>1
  <2>2. CASE i # n + 1
    <3>1. i \in 1..n
      BY <2>2
    <3>2. Count(args, names, i) \in Nat /\ Count(args, names, i) <= Count(args, names, n) /\ Count(args, names, i) >= 1
      BY <1>6, <3>1, CountMonotone
    <3>3. Len(file) + Count(args, names, i) \in 1..Len(list)
      BY <1>2, <1>3, <3>2
    <3>4. list[Len(file) + Count(args, names, i)] = args[i].value
      BY <1>6, <3>1 DEF AddsUp
    <3> QED
      BY <1>1, <3>3, <3>4
  <2> QED
    BY <2>1, <2>2
<1> QED
  BY <1>4, <1>5, <1>6 DEF AddsUp, longer

(* ... and when the next option is another one.                            *)
LEMMA AddsUpSame ==
    ASSUME NEW list, NEW file, NEW args, NEW names, NEW n \in Nat,
           AddsUp(list, file, args, names, n), args[n + 1].name \notin names
    PROVE  AddsUp(list, file, args, names, n + 1)
<1>1. Count(args, names, n + 1) = Count(args, names, n)
  BY CountMore
<1>2. \A i \in 1..n + 1 : i \in 1..n \/ i = n + 1
  OBVIOUS
<1> QED
  BY <1>1, <1>2 DEF AddsUp

(* A list that adds up has all of the file and of the options among its    *)
(* members, whatever else the file put behind.                             *)
LEMMA AddsUpMembers ==
    ASSUME NEW S, NEW list \in Seq(S), NEW dirs \in Seq(S), NEW rest \in Seq(S),
           NEW args, NEW names, NEW n \in Nat, AddsUp(list, dirs \o rest, args, names, n)
    PROVE  /\ dirs # <<>> \/ Count(args, names, n) > 0 => list # <<>>
           /\ Members(dirs) \subseteq Members(list)
           /\ \A i \in 1..n : args[i].name \in names => args[i].value \in Members(list)
<1> DEFINE file == dirs \o rest
<1>1. /\ file \in Seq(S) /\ Len(file) = Len(dirs) + Len(rest)
      /\ \A i \in 1..Len(dirs) + Len(rest) :
           file[i] = IF i <= Len(dirs) THEN dirs[i] ELSE rest[i - Len(dirs)]
  BY ConcatProperties
<1>2. /\ Len(list) = Len(file) + Count(args, names, n)
      /\ \A i \in 1..Len(file) : list[i] = file[i]
      /\ \A i \in 1..n : args[i].name \in names =>
            list[Len(file) + Count(args, names, i)] = args[i].value
  BY DEF AddsUp
<1> HIDE DEF file
<1>3. Count(args, names, n) \in Nat /\ Len(dirs) \in Nat /\ Len(rest) \in Nat /\ Len(list) \in Nat
  BY CountMore
<1>4. Len(file) \in Nat /\ Len(file) <= Len(list) /\ Len(dirs) <= Len(file)
  BY <1>1, <1>2, <1>3
<1>5. ASSUME dirs # <<>> \/ Count(args, names, n) > 0 PROVE list # <<>>
  <2>1. dirs # <<>> => Len(dirs) > 0
    OBVIOUS
  <2>2. Len(list) > 0
    BY <1>1, <1>2, <1>3, <1>5, <2>1
  <2> QED
    BY <2>2
<1>6. ASSUME NEW i \in 1..Len(dirs) PROVE dirs[i] \in Members(list)
  <2>1. i \in 1..Len(dirs) + Len(rest) /\ i \in 1..Len(file) /\ i \in 1..Len(list)
    BY <1>1, <1>3, <1>4
  <2>2. list[i] = dirs[i]
    BY <1>1, <1>2, <2>1
  <2> QED
    BY <2>1, <2>2 DEF Members
<1>7. ASSUME NEW i \in 1..n, args[i].name \in names PROVE args[i].value \in Members(list)
  <2>1. /\ Count(args, names, i) \in Nat /\ Count(args, names, i) >= 1
        /\ Count(args, names, i) <= Count(args, names, n)
    BY <1>7, CountMonotone
  <2>2. Len(file) + Count(args, names, i) \in 1..Len(list)
    BY <1>2, <1>3, <1>4, <2>1
  <2>3. list[Len(file) + Count(args, names, i)] = args[i].value
    BY <1>2, <1>7
  <2> QED
    BY <2>2, <2>3 DEF Members
<1> QED
  BY <1>5, <1>6, <1>7 DEF Members

(* Nothing has been added to the file's list yet.                          *)
LEMMA AddsUpFile ==
    ASSUME NEW S, NEW file \in Seq(S), NEW args, NEW names
    PROVE  AddsUp(file, file, args, names, 0)
BY CountNone DEF AddsUp

-----------------------------------------------------------------------------
(* main (): the inductive invariant.                                       *)

Lists == Seq(Dirs \cup Formats)

NamesOf(option) ==
    CASE option = "-m" -> MusicDirs
      [] option = "-M" -> MusicFormats
      [] option = "-p" -> PictureDirs
      [] option = "-P" -> {"-P", "--picture-format"}

StartTypes ==
    /\ cmdline \in Seq(Arguments) /\ keyfile \in KeyFiles
    /\ next \in 1..Len(cmdline) + 1
    /\ lists \in [ListOptions -> Lists]
    /\ shares \in [Kinds -> {None} \cup [dirs : Lists, formats : Lists]]

(* Each list is the file's, and what the options so far have added to it.  *)
ListsAddUp ==
    \A o \in ListOptions : AddsUp(lists[o], FromFile(o), cmdline, NamesOf(o), next - 1)

Parsed  == {"args", "music", "picture", "loop", "asking"}
Checked == {"music", "picture", "loop", "asking"}

Begun  == state \in {"plugin", "file"} => next = 1 /\ user = None
Adding == state \in Parsed => ListsAddUp
Saying == state \in Parsed => UserAskedFor(next - 1)

(* What was checked goes on to hold: the options do not change any more.   *)
Checks == state \in Checked => next = Len(cmdline) + 1 /\ Sound

(* What serve () was given.                                                *)
Served ==
    /\ state \in {"picture", "loop", "asking"} /\ lists["-m"] # <<>> =>
          shares["music"] = [dirs |-> lists["-m"], formats |-> lists["-M"]]
    /\ state \in {"loop", "asking"} /\ lists["-p"] # <<>> =>
          shares["picture"] = [dirs |-> lists["-p"], formats |-> lists["-P"]]

StartInv == StartTypes /\ Begun /\ Adding /\ Saying /\ Checks /\ Served

(* A list of the file is one of directories or formats.                    *)
LEMMA FileLists ==
    ASSUME keyfile \in KeyFiles, NEW o \in ListOptions
    PROVE  FromFile(o) \in Lists
<1>1. ListsOf[Dirs] \subseteq Seq(Dirs) /\ ListsOf[Formats] \subseteq Seq(Formats)
  BY ConstantsAssumption
<1>2. Seq(Dirs) \subseteq Lists /\ Seq(Formats) \subseteq Lists
  BY DEF Lists
<1>3. /\ keyfile.musicDirs \in Lists /\ keyfile.pictureDirs \in Lists
      /\ keyfile.musicFormats \in Lists /\ keyfile.pictureFormats \in Lists
  BY <1>1, <1>2 DEF KeyFiles
<1>4. keyfile.pictureDirs \o keyfile.pictureFormats \in Lists /\ <<>> \in Lists
  BY <1>3 DEF Lists
<1> QED
  BY <1>3, <1>4 DEF FromFile, ListOptions

LEMMA StartInit == Init => StartInv
<1> SUFFICES ASSUME Init PROVE StartInv
  OBVIOUS
<1>1. cmdline \in Seq(Arguments) /\ Len(cmdline) \in Nat
  <2>1. PICK n \in 0..MaxArgs : cmdline \in [1..n -> Arguments]
    BY DEF Init, CommandLines
  <2>2. n \in Nat
    BY ConstantsAssumption
  <2>3. cmdline \in Seq(Arguments)
    BY <2>1, <2>2, SeqDef
  <2> QED
    BY <2>3
<1>2. <<>> \in Lists
  BY DEF Lists
<1>3. StartTypes
  BY <1>1, <1>2 DEF Init, StartTypes
<1> QED
  BY <1>3 DEF Init, StartInv, Begun, Adding, Saying, Checks, Served, Parsed, Checked

(* Steps that leave the options alone.                                     *)
LEMMA OptionsKept ==
    UNCHANGED <<modules, keyfile, cmdline, next, lists, user, flags>> =>
        /\ ListsAddUp' = ListsAddUp
        /\ UserAskedFor(next - 1) => UserAskedFor(next - 1)'
        /\ Sound' = Sound
<1> SUFFICES ASSUME UNCHANGED <<modules, keyfile, cmdline, next, lists, user, flags>>
             PROVE  /\ ListsAddUp' = ListsAddUp
                    /\ UserAskedFor(next - 1) => UserAskedFor(next - 1)'
                    /\ Sound' = Sound
  OBVIOUS
<1>1. ListsAddUp' = ListsAddUp
  BY DEF ListsAddUp, FromFile
<1>2. ASSUME UserAskedFor(next - 1) PROVE UserAskedFor(next - 1)'
  <2>1. CASE user = keyfile.user /\ \A j \in 1..next - 1 : cmdline[j].name # "-u"
    BY <2>1 DEF UserAskedFor
  <2>2. CASE \E i \in 1..next - 1 :
               /\ cmdline[i].name = "-u" /\ user = cmdline[i].value
               /\ \A j \in (i + 1)..next - 1 : cmdline[j].name # "-u"
    BY <2>2 DEF UserAskedFor
  <2> QED
    BY <1>2, <2>1, <2>2 DEF UserAskedFor
<1>3. Sound' = Sound
  BY DEF Sound
<1> QED
  BY <1>1, <1>2, <1>3

(* The next option of the command line.                                    *)
LEMMA AtOption ==
    ASSUME StartTypes, AtArg
    PROVE  /\ Arg \in Arguments /\ next - 1 \in Nat /\ (next - 1) + 1 = next
           /\ next + 1 \in 1..Len(cmdline) + 1 /\ (next + 1) - 1 = next
           /\ Arg = cmdline[next]
BY DEF StartTypes, AtArg, Arg

LEMMA ListsStep ==
    ASSUME StartInv, ParseList
    PROVE  StartTypes' /\ ListsAddUp'
<1>1. /\ AtArg /\ Arg.name \in ListOptions
      /\ lists' = [lists EXCEPT ![Arg.name] = Append(@, Arg.value)] /\ next' = next + 1
      /\ UNCHANGED <<cmdline, keyfile, shares>>
  BY DEF ParseList, given
<1>2. StartTypes /\ ListsAddUp
  BY <1>1 DEF StartInv, Adding, AtArg, Parsed
<1>3. /\ Arg \in Arguments /\ next - 1 \in Nat /\ (next - 1) + 1 = next
      /\ next + 1 \in 1..Len(cmdline) + 1 /\ (next + 1) - 1 = next
      /\ Arg = cmdline[next]
  BY <1>1, <1>2, AtOption
<1>4. Arg.value \in Dirs \cup Formats
  BY <1>1, <1>3 DEF Arguments, ListOptions, Flags
<1>5. lists[Arg.name] \in Lists /\ Append(lists[Arg.name], Arg.value) \in Lists
  BY <1>1, <1>2, <1>4 DEF StartTypes, Lists
<1>6. StartTypes'
  BY <1>1, <1>2, <1>3, <1>5 DEF StartTypes
<1>7. ASSUME NEW o \in ListOptions
      PROVE  AddsUp(lists'[o], FromFile(o), cmdline, NamesOf(o), next)
  <2>1. FromFile(o) \in Lists /\ AddsUp(lists[o], FromFile(o), cmdline, NamesOf(o), next - 1)
    BY <1>2, FileLists DEF StartTypes, ListsAddUp
  <2>2. CASE o = Arg.name
    <3>1. lists'[o] = Append(lists[o], cmdline[(next - 1) + 1].value)
      BY <1>1, <1>2, <1>3, <2>2 DEF StartTypes
    <3>2. cmdline[(next - 1) + 1].name \in NamesOf(o)
      BY <1>1, <1>3, <2>2 DEF NamesOf, ListOptions, MusicDirs, MusicFormats, PictureDirs
    <3>3. cmdline[(next - 1) + 1].value \in Dirs \cup Formats /\ lists[o] \in Seq(Dirs \cup Formats)
          /\ FromFile(o) \in Seq(Dirs \cup Formats)
      BY <1>3, <1>4, <1>5, <2>1, <2>2 DEF Lists
    <3>4. AddsUp(Append(lists[o], cmdline[(next - 1) + 1].value), FromFile(o), cmdline, NamesOf(o), (next - 1) + 1)
      BY <1>3, <2>1, <3>2, <3>3, AddsUpMore
    <3> QED
      BY <1>3, <3>1, <3>4
  <2>3. CASE o # Arg.name
    <3>1. lists'[o] = lists[o]
      BY <1>1, <1>2, <2>3 DEF StartTypes
    <3>2. cmdline[(next - 1) + 1].name \notin NamesOf(o)
      BY <1>1, <1>3, <2>3 DEF NamesOf, ListOptions, MusicDirs, MusicFormats, PictureDirs
    <3>3. AddsUp(lists[o], FromFile(o), cmdline, NamesOf(o), (next - 1) + 1)
      BY <1>3, <2>1, <3>2, AddsUpSame
    <3> QED
      BY <1>3, <3>1, <3>3
  <2> QED
    BY <2>2, <2>3
<1>8. \A o \in ListOptions : AddsUp(lists'[o], FromFile(o), cmdline, NamesOf(o), next' - 1)
  BY <1>1, <1>3, <1>7
<1>9. ListsAddUp'
  BY <1>1, <1>8 DEF ListsAddUp, FromFile
<1> QED
  BY <1>6, <1>9

(* An option that is not one of a list adds to none.                       *)
LEMMA OtherStep ==
    ASSUME StartInv, ParseString \/ ParseFlag
    PROVE  StartTypes' /\ ListsAddUp'
<1>1. /\ AtArg /\ Arg.name \in {"-u"} \cup Flags /\ next' = next + 1
      /\ UNCHANGED <<cmdline, keyfile, shares, lists>>
  BY DEF ParseString, ParseFlag, given
<1>2. StartTypes /\ ListsAddUp
  BY <1>1 DEF StartInv, Adding, AtArg, Parsed
<1>3. /\ next - 1 \in Nat /\ (next - 1) + 1 = next
      /\ next + 1 \in 1..Len(cmdline) + 1 /\ (next + 1) - 1 = next
      /\ Arg = cmdline[next]
  BY <1>1, <1>2, AtOption
<1>4. StartTypes'
  BY <1>1, <1>2, <1>3 DEF StartTypes
<1>5. ASSUME NEW o \in ListOptions
      PROVE  AddsUp(lists[o], FromFile(o), cmdline, NamesOf(o), next' - 1)
  <2>1. cmdline[(next - 1) + 1].name \notin NamesOf(o)
    BY <1>1, <1>3 DEF NamesOf, ListOptions, MusicDirs, MusicFormats, PictureDirs, Flags
  <2>2. AddsUp(lists[o], FromFile(o), cmdline, NamesOf(o), (next - 1) + 1)
    BY <1>2, <1>3, <2>1, AddsUpSame DEF ListsAddUp
  <2> QED
    BY <1>1, <1>3, <2>2
<1>6. ListsAddUp'
  BY <1>1, <1>5 DEF ListsAddUp, FromFile
<1> QED
  BY <1>4, <1>6

(* The last of the options for a user is the one that counts.              *)
LEMMA SayingStep ==
    ASSUME StartInv, ParseList \/ ParseString \/ ParseFlag
    PROVE  UserAskedFor(next - 1)'
<1>1. AtArg /\ next' = next + 1 /\ UNCHANGED <<cmdline, keyfile>>
  BY DEF ParseList, ParseString, ParseFlag, given
<1>2. StartTypes /\ UserAskedFor(next - 1)
  BY <1>1 DEF StartInv, Saying, AtArg, Parsed
<1>3. next \in Nat \ {0} /\ next' - 1 = next /\ Arg = cmdline[next]
  BY <1>1, <1>2 DEF StartTypes, Arg
<1>4. CASE ParseString
  <2>1. user' = cmdline[next].value /\ cmdline[next].name = "-u"
    BY <1>3, <1>4 DEF ParseString
  <2>2. next \in 1..next /\ \A j \in (next + 1)..next : cmdline[j].name # "-u"
    BY <1>3
  <2>3. \E i \in 1..next : /\ cmdline[i].name = "-u" /\ user' = cmdline[i].value
                           /\ \A j \in (i + 1)..next : cmdline[j].name # "-u"
    BY <2>1, <2>2
  <2> QED
    BY <1>1, <1>3, <2>3 DEF UserAskedFor
<1>5. CASE ParseList \/ ParseFlag
  <2>1. user' = user /\ cmdline[next].name # "-u"
    BY <1>3, <1>5 DEF ParseList, ParseFlag, ListOptions, Flags
  <2>2. CASE user = keyfile.user /\ \A j \in 1..next - 1 : cmdline[j].name # "-u"
    <3>1. \A j \in 1..next : cmdline[j].name # "-u"
      BY <1>3, <2>1, <2>2
    <3> QED
      BY <1>1, <1>3, <2>1, <2>2, <3>1 DEF UserAskedFor
  <2>3. ASSUME NEW i \in 1..next - 1, cmdline[i].name = "-u", user = cmdline[i].value,
               \A j \in (i + 1)..next - 1 : cmdline[j].name # "-u"
        PROVE  UserAskedFor(next - 1)'
    <3>1. i \in 1..next /\ \A j \in (i + 1)..next : cmdline[j].name # "-u"
      BY <1>3, <2>1, <2>3
    <3>2. \E k \in 1..next : /\ cmdline[k].name = "-u" /\ user' = cmdline[k].value
                             /\ \A j \in (k + 1)..next : cmdline[j].name # "-u"
      BY <2>1, <2>3, <3>1
    <3> QED
      BY <1>1, <1>3, <3>2 DEF UserAskedFor
  <2> QED
    BY <1>2, <2>2, <2>3 DEF UserAskedFor
<1> QED
  BY <1>4, <1>5

(* What happens in the loop leaves everything that was decided as it is.   *)
LoopStep ==
    \/ \E h \in Hosts, p \in Ports : ServiceAdded(h, p)
    \/ \E r \in Remotes : RemoteFound(r) \/ AddGuid(r) \/ LookupGuid(r) \/ Leave(r)
    \/ \E right \in BOOLEAN : EnterPasscode(right)
    \/ OverrunPasscode

LEMMA LoopKeeps ==
    LoopStep => /\ UNCHANGED <<given, next, options, shares>>
                /\ state \in {"loop", "asking"} /\ state' \in {"loop", "asking", "crashed"}
BY DEF LoopStep, ServiceAdded, RemoteFound, AddGuid, LookupGuid, Leave, EnterPasscode,
       OverrunPasscode, Browsing, pairs

LEMMA StartStep == StartInv /\ [Next]_vars => StartInv'
<1> SUFFICES ASSUME StartInv, [Next]_vars PROVE StartInv'
  OBVIOUS
<1> USE DEF Parsed, Checked
<1>1. StartTypes /\ Begun /\ Adding /\ Saying /\ Checks /\ Served
  BY DEF StartInv
<1>2. CASE ParsePlugin
  <2>1. UNCHANGED <<keyfile, cmdline, next, lists, user, shares>>
        /\ state = "plugin" /\ state' = "file"
    BY <1>2 DEF ParsePlugin, options
  <2>2. StartTypes'
    BY <1>1, <2>1 DEF StartTypes
  <2> QED
    BY <1>1, <2>1, <2>2 DEF StartInv, Begun, Adding, Saying, Checks, Served
<1>3. CASE BadPlugin \/ ParseLongName
  <2>1. UNCHANGED <<keyfile, cmdline, next, lists, shares>> /\ state' = "unsupported"
    BY <1>3 DEF BadPlugin, ParseLongName, options, given
  <2>2. StartTypes'
    BY <1>1, <2>1 DEF StartTypes
  <2> QED
    BY <2>1, <2>2 DEF StartInv, Begun, Adding, Saying, Checks, Served
<1>4. CASE ReadKeyfile
  <2>1. /\ UNCHANGED <<keyfile, cmdline, next, shares>> /\ state = "file" /\ state' = "args"
        /\ lists' = [o \in ListOptions |-> FromFile(o)] /\ next = 1
        /\ user = None /\ user' = IF keyfile.user = None THEN user ELSE keyfile.user
    BY <1>1, <1>4 DEF ReadKeyfile, given, Begun
  <2>2. \A o \in ListOptions : FromFile(o) \in Lists
    BY <1>1, FileLists DEF StartTypes
  <2>3. StartTypes'
    BY <1>1, <2>1, <2>2 DEF StartTypes
  <2>4. \A o \in ListOptions : AddsUp(FromFile(o), FromFile(o), cmdline, NamesOf(o), 0)
    BY <2>2, AddsUpFile DEF Lists
  <2>5. ListsAddUp'
    <3>1. next' - 1 = 0 /\ cmdline' = cmdline /\ \A o \in ListOptions : lists'[o] = FromFile(o)
      BY <2>1
    <3>2. \A o \in ListOptions : AddsUp(lists'[o], FromFile(o), cmdline', NamesOf(o), next' - 1)
      BY <2>4, <3>1
    <3> QED
      BY <2>1, <3>2 DEF ListsAddUp, FromFile
  <2>6. UserAskedFor(next - 1)'
    BY <2>1 DEF UserAskedFor
  <2> QED
    BY <2>1, <2>3, <2>5, <2>6 DEF StartInv, Begun, Adding, Saying, Checks, Served
<1>5. CASE ParseList \/ ParseString \/ ParseFlag
  <2>1. state = "args" /\ state' = "args"
    BY <1>5 DEF ParseList, ParseString, ParseFlag, AtArg
  <2>2. StartTypes' /\ ListsAddUp' /\ UserAskedFor(next - 1)'
    BY <1>5, ListsStep, OtherStep, SayingStep
  <2> QED
    BY <2>1, <2>2 DEF StartInv, Begun, Adding, Saying, Checks, Served
<1>6. CASE Check
  <2>1. UNCHANGED <<modules, keyfile, cmdline, next, lists, user, flags, shares>>
        /\ state = "args" /\ next > Len(cmdline) /\ state' \in {"exited", "music", "refused"}
    BY <1>6 DEF Check, given, options
  <2>2. state' = "music" => Sound
    BY <1>6 DEF Check
  <2>3. next = Len(cmdline) + 1
    BY <1>1, <2>1 DEF StartTypes
  <2>4. StartTypes'
    BY <1>1, <2>1 DEF StartTypes
  <2> QED
    BY <1>1, <2>1, <2>2, <2>3, <2>4, OptionsKept
       DEF StartInv, Begun, Adding, Saying, Checks, Served
<1>7. CASE ServeMusic
  <2>1. UNCHANGED <<modules, keyfile, cmdline, next, lists, user, flags>>
        /\ state = "music" /\ state' = "picture"
    BY <1>7 DEF ServeMusic, given, options
  <2>2. Sound
    BY <1>1, <2>1 DEF Checks
  <2>3. shares' = IF lists["-m"] # <<>> /\ "av" \in modules
                  THEN [shares EXCEPT !["music"] = [dirs |-> lists["-m"], formats |-> lists["-M"]]]
                  ELSE shares
    BY <1>7 DEF ServeMusic, Serve
  <2>4. [dirs |-> lists["-m"], formats |-> lists["-M"]] \in [dirs : Lists, formats : Lists]
    BY <1>1 DEF StartTypes, ListOptions
  <2>5. StartTypes'
    BY <1>1, <2>1, <2>3, <2>4 DEF StartTypes, Kinds
  <2>6. lists["-m"] # <<>> =>
           shares'["music"] = [dirs |-> lists["-m"], formats |-> lists["-M"]]
    BY <1>1, <2>2, <2>3 DEF StartTypes, Kinds, Sound
  <2>7. Served'
    BY <2>1, <2>6 DEF Served
  <2> QED
    BY <1>1, <2>1, <2>5, <2>7, OptionsKept DEF StartInv, Begun, Adding, Saying, Checks
<1>8. CASE ServePictures
  <2>1. UNCHANGED <<modules, keyfile, cmdline, next, lists, user, flags>>
        /\ state = "picture" /\ state' \in {"exited", "loop"}
    BY <1>8 DEF ServePictures, given, options
  <2>2. Sound
    BY <1>1, <2>1 DEF Checks
  <2>3. shares' = IF lists["-p"] # <<>> /\ "photo" \in modules
                  THEN [shares EXCEPT !["picture"] = [dirs |-> lists["-p"], formats |-> lists["-P"]]]
                  ELSE shares
    BY <1>8 DEF ServePictures, Serve
  <2>4. [dirs |-> lists["-p"], formats |-> lists["-P"]] \in [dirs : Lists, formats : Lists]
    BY <1>1 DEF StartTypes, ListOptions
  <2>5. StartTypes'
    BY <1>1, <2>1, <2>3, <2>4 DEF StartTypes, Kinds
  <2>6. lists["-p"] # <<>> =>
           shares'["picture"] = [dirs |-> lists["-p"], formats |-> lists["-P"]]
    BY <1>1, <2>2, <2>3 DEF StartTypes, Kinds, Sound
  <2>7. shares'["music"] = shares["music"]
    BY <1>1, <2>3 DEF StartTypes, Kinds
  <2>8. Served'
    BY <1>1, <2>1, <2>6, <2>7 DEF Served
  <2> QED
    BY <1>1, <2>1, <2>5, <2>8, OptionsKept DEF StartInv, Begun, Adding, Saying, Checks
<1>9. CASE LoopStep
  <2>1. UNCHANGED <<modules, keyfile, cmdline, next, lists, user, flags, shares>>
        /\ state \in {"loop", "asking"} /\ state' \in {"loop", "asking", "crashed"}
    BY <1>9, LoopKeeps DEF given, options
  <2>2. StartTypes'
    BY <1>1, <2>1 DEF StartTypes
  <2>3. Served'
    BY <1>1, <2>1 DEF Served
  <2> QED
    BY <1>1, <2>1, <2>2, <2>3, OptionsKept DEF StartInv, Begun, Adding, Saying, Checks
<1>10. CASE UNCHANGED vars
  <2>1. UNCHANGED <<modules, keyfile, cmdline, next, lists, user, flags, shares, state>>
    BY <1>10 DEF vars, given, options
  <2>2. StartTypes'
    BY <1>1, <2>1 DEF StartTypes
  <2>3. Served'
    BY <1>1, <2>1 DEF Served
  <2> QED
    BY <1>1, <2>1, <2>2, <2>3, OptionsKept DEF StartInv, Begun, Adding, Saying, Checks
<1> QED
  BY <1>2, <1>3, <1>4, <1>5, <1>6, <1>7, <1>8, <1>9, <1>10 DEF Next, LoopStep

(* In the loop everything that was asked for is served.                    *)
LEMMA StartServes == StartInv => AskedFor
<1> SUFFICES ASSUME StartInv, state \in {"loop", "asking"}
             PROVE  DirsAskedFor /\ UserAskedFor(Len(cmdline))
  BY DEF AskedFor
<1> DEFINE n == Len(cmdline)
<1>1. /\ StartTypes /\ ListsAddUp /\ UserAskedFor(next - 1) /\ next = n + 1 /\ Served
      /\ n \in Nat /\ next - 1 = n
  BY DEF StartInv, Adding, Saying, Checks, Parsed, Checked, StartTypes
<1>2. /\ "-m" \in ListOptions /\ "-M" \in ListOptions /\ "-p" \in ListOptions
      /\ NamesOf("-m") = MusicDirs /\ NamesOf("-M") = MusicFormats /\ NamesOf("-p") = PictureDirs
      /\ FromFile("-m") = keyfile.musicDirs /\ FromFile("-M") = keyfile.musicFormats
      /\ FromFile("-p") = keyfile.pictureDirs \o keyfile.pictureFormats
  BY DEF ListOptions, NamesOf, FromFile
<1>3. /\ AddsUp(lists["-m"], keyfile.musicDirs, cmdline, MusicDirs, n)
      /\ AddsUp(lists["-M"], keyfile.musicFormats, cmdline, MusicFormats, n)
      /\ AddsUp(lists["-p"], keyfile.pictureDirs \o keyfile.pictureFormats, cmdline, PictureDirs, n)
  BY <1>1, <1>2 DEF ListsAddUp
<1>4. /\ lists["-m"] \in Lists /\ lists["-M"] \in Lists /\ lists["-p"] \in Lists
  BY <1>1, <1>2 DEF StartTypes
<1>5. /\ keyfile.musicDirs \in Lists /\ keyfile.pictureDirs \in Lists
      /\ keyfile.pictureFormats \in Lists
  <2>1. ListsOf[Dirs] \subseteq Seq(Dirs) /\ ListsOf[Formats] \subseteq Seq(Formats)
    BY ConstantsAssumption
  <2>2. Seq(Dirs) \subseteq Lists /\ Seq(Formats) \subseteq Lists
    BY DEF Lists
  <2> QED
    BY <1>1, <2>1, <2>2 DEF StartTypes, KeyFiles
<1>6. \A names : Count(cmdline, names, n) \in Nat
  BY <1>1, CountMore
<1>7. \A d \in Lists, f \in Lists :
        [dirs |-> d, formats |-> f] # None
  BY ConstantsAssumption DEF Lists
<1>8. ASSUME Asks(keyfile.musicDirs, MusicDirs)
      PROVE  /\ shares["music"] # None
             /\ AddsUp(shares["music"].dirs, keyfile.musicDirs, cmdline, MusicDirs, n)
             /\ AddsUp(shares["music"].formats, keyfile.musicFormats, cmdline, MusicFormats, n)
  <2>1. Len(keyfile.musicDirs) \in Nat /\ (keyfile.musicDirs # <<>> => Len(keyfile.musicDirs) > 0)
    BY <1>5 DEF Lists
  <2>2. Len(lists["-m"]) > 0
    BY <1>3, <1>6, <1>8, <2>1 DEF Asks, AddsUp
  <2>3. lists["-m"] # <<>>
    BY <2>2
  <2>4. shares["music"] = [dirs |-> lists["-m"], formats |-> lists["-M"]]
    BY <1>1, <2>3 DEF Served
  <2> QED
    BY <1>3, <1>4, <1>7, <2>4
<1>9. ASSUME Asks(keyfile.pictureDirs, PictureDirs)
      PROVE  /\ shares["picture"] # None
             /\ Members(keyfile.pictureDirs) \subseteq Members(shares["picture"].dirs)
             /\ \A i \in 1..n : cmdline[i].name \in PictureDirs =>
                   cmdline[i].value \in Members(shares["picture"].dirs)
  <2>1. /\ lists["-p"] \in Seq(Dirs \cup Formats)
        /\ keyfile.pictureDirs \in Seq(Dirs \cup Formats)
        /\ keyfile.pictureFormats \in Seq(Dirs \cup Formats)
    BY <1>4, <1>5 DEF Lists
  <2>2. /\ keyfile.pictureDirs # <<>> \/ Count(cmdline, PictureDirs, n) > 0 => lists["-p"] # <<>>
        /\ Members(keyfile.pictureDirs) \subseteq Members(lists["-p"])
        /\ \A i \in 1..n : cmdline[i].name \in PictureDirs =>
              cmdline[i].value \in Members(lists["-p"])
    BY <1>1, <1>3, <2>1, AddsUpMembers
  <2>3. shares["picture"] = [dirs |-> lists["-p"], formats |-> lists["-P"]]
    BY <1>1, <1>9, <2>2 DEF Asks, Served
  <2>4. lists["-P"] \in Lists
    BY <1>1 DEF StartTypes, ListOptions
  <2> QED
    BY <1>4, <1>7, <2>2, <2>3, <2>4
<1>10. UserAskedFor(n)
  BY <1>1
<1> QED
  BY <1>8, <1>9, <1>10 DEF DirsAskedFor

LEMMA StartInvariant == Spec => []StartInv
BY StartInit, StartStep, PTL DEF Spec

(* For every command line, configuration file and set of modules: once the *)
(* loop runs, every directory that was asked for by either is served, and  *)
(* the user is the one that was named last.                                *)
THEOREM EverythingAskedFor == Spec => []AskedFor
BY StartInvariant, StartServes, PTL

-----------------------------------------------------------------------------
(* main (): the remote's side.                                             *)

(* Who has a guid was paired with, and a share is there only for a         *)
(* renderer that was asked for.                                            *)
RemoteInv ==
    /\ guid # None => guid \in paired
    /\ remote.db = None \/ (/\ state \in {"loop", "asking", "crashed"}
                            /\ "-o" \in flags /\ host # None /\ remote.port # None)

LEMMA RemoteInit == Init => RemoteInv
BY DEF Init, RemoteInv

LEMMA RemoteStep == RemoteInv /\ [Next]_vars => RemoteInv'
<1> SUFFICES ASSUME RemoteInv, [Next]_vars PROVE RemoteInv'
  OBVIOUS
<1>1. CASE \/ ParsePlugin \/ BadPlugin \/ ReadKeyfile \/ ParseList \/ ParseLongName
           \/ ParseString \/ ParseFlag \/ Check \/ ServeMusic \/ ServePictures
  <2>1. UNCHANGED <<remote, guid, paired>> /\ state \notin {"loop", "asking", "crashed"}
    BY <1>1 DEF ParsePlugin, BadPlugin, ReadKeyfile, ParseList, ParseLongName, ParseString,
                ParseFlag, Check, ServeMusic, ServePictures, AtArg, pairs
  <2> QED
    BY <2>1 DEF RemoteInv
<1>2. ASSUME NEW h \in Hosts, NEW p \in Ports, ServiceAdded(h, p) PROVE RemoteInv'
  <2>1. /\ UNCHANGED <<guid, paired, flags, host>> /\ state' \in {"loop", "crashed"}
        /\ "-o" \in flags /\ host # None
        /\ remote' = remote \/ remote' \in [port : {p}, db : {"music", "undefined"}]
    BY <1>2 DEF ServiceAdded, Browsing, given, options, pairs
  <2>2. p # None
    BY ConstantsAssumption
  <2> QED
    BY <2>1, <2>2 DEF RemoteInv
<1>3. ASSUME NEW r \in Remotes, RemoteFound(r) \/ AddGuid(r) \/ LookupGuid(r) \/ Leave(r)
      PROVE  RemoteInv'
  <2>1. UNCHANGED <<remote, flags, host>> /\ state' \in {"loop", "asking"}
    BY <1>3 DEF RemoteFound, AddGuid, LookupGuid, Leave, given, options
  <2>2. guid' # None => guid' \in paired'
    BY <1>3 DEF RemoteFound, AddGuid, LookupGuid, Leave, RemoteInv
  <2> QED
    BY <2>1, <2>2 DEF RemoteInv
<1>4. ASSUME NEW right \in BOOLEAN, EnterPasscode(right) \/ OverrunPasscode PROVE RemoteInv'
  BY <1>4 DEF EnterPasscode, OverrunPasscode, RemoteInv, given, options, pairs
<1>5. CASE UNCHANGED vars
  BY <1>5 DEF RemoteInv, vars, given, options, pairs
<1> QED
  BY <1>1, <1>2, <1>3, <1>4, <1>5 DEF Next

(* Only the first service of the host changes whom the daemon plays for,   *)
(* and only a remote with the guid is let in.                              *)
LEMMA RemoteChange ==
    [Next]_vars => /\ remote.db # None => UNCHANGED remote
                   /\ \A r \in connected' : r \in connected \/ (r = guid /\ r \in Remotes)
BY DEF Next, ParsePlugin, BadPlugin, ReadKeyfile, ParseList, ParseLongName, ParseString,
       ParseFlag, Check, ServeMusic, ServePictures, ServiceAdded, RemoteFound, AddGuid,
       LookupGuid, Leave, EnterPasscode, OverrunPasscode, pairs, vars

(* For any services and remotes, in any order: the renderer's port and     *)
(* share are those of the first service of its host, and a remote is let   *)
(* in only after it was paired with itself.                                *)
THEOREM RemoteSideKept == Spec => RemoteSide
<1>1. RemoteInv /\ [Next]_vars
        => [ /\ remote.db # None => UNCHANGED remote
             /\ connected' \ connected \subseteq paired ]_vars
  <2> SUFFICES ASSUME RemoteInv, [Next]_vars
               PROVE  /\ remote.db # None => UNCHANGED remote
                      /\ connected' \ connected \subseteq paired
    OBVIOUS
  <2>1. ASSUME NEW r \in connected' \ connected PROVE r \in paired
    <3>1. r = guid /\ r \in Remotes
      BY <2>1, RemoteChange
    <3> QED
      BY <3>1, ConstantsAssumption DEF RemoteInv
  <2> QED
    BY <2>1, RemoteChange
<1> QED
  BY <1>1, RemoteInit, RemoteStep, PTL DEF Spec, RemoteSide

-----------------------------------------------------------------------------
(* Both together.                                                          *)

(* The daemon is a main () and a player: each goes through its own steps,  *)
(* whatever the other does, so that what holds of either holds here.       *)
THEOREM EachPart == DaemonSpec => Spec /\ Player!Spec
<1>1. DaemonInit => Init /\ Player!Init
  BY DEF DaemonInit
<1>2. [DaemonNext]_daemonVars => [Next]_vars
  BY DEF DaemonNext, Serving, Requested, Looping, Terminated, daemonVars
<1>3. [DaemonNext]_daemonVars => [Player!Next]_(Player!vars)
  <2>1. Serving => UNCHANGED Player!vars
    BY DEF Serving, playerVars, Player!vars
  <2>2. Requested \/ Looping \/ Terminated => Player!Next
    BY DEF Requested, Looping, Terminated, Player!Next
  <2>3. UNCHANGED daemonVars => UNCHANGED Player!vars
    BY DEF daemonVars, playerVars, Player!vars
  <2> QED
    BY <2>1, <2>2, <2>3 DEF DaemonNext
<1> QED
  BY <1>1, <1>2, <1>3, PTL DEF DaemonSpec, Spec, Player!Spec

(* A remote that clears before it cues never loses hold of a pipeline, for *)
(* any number of pipelines and songs and any nesting, as long as GStreamer *)
(* takes down what it is told to.                                          *)
THEOREM NothingEverOrphaned == DaemonSpec => []NothingOrphaned
BY EachPart, PlayerOrphansNothing, PTL DEF NothingOrphaned

(* What such a remote is told is stopped is silent, whatever GStreamer     *)
(* refuses to play or waits for.                                           *)
THEOREM StoppedIsAlwaysSilent == DaemonSpec => []StoppedIsSilent
BY EachPart, PlayerStopsSilent, PTL DEF StoppedIsSilent

(* No message takes the daemon down, from whichever pipeline and however   *)
(* the remote has cued: the handler of the bus looks for a next song.      *)
THEOREM MessagesAlwaysHarmless == DaemonSpec => MessagesHarmless
BY EachPart, PlayerSurvivesMessages, PTL DEF MessagesHarmless

(* Until there is a share for remotes no pipeline has been made.           *)
QuietInv ==
    remote.db = None => pipeline = None /\ \A p \in Pipelines : pipes[p] = "none"

LEMMA QuietStep == QuietInv /\ [DaemonNext]_daemonVars => QuietInv'
<1> SUFFICES ASSUME QuietInv, [DaemonNext]_daemonVars, remote.db' = None
             PROVE  pipeline' = None /\ \A p \in Pipelines : pipes'[p] = "none"
  BY DEF QuietInv
<1>1. CASE Serving \/ UNCHANGED daemonVars
  <2>1. pipes' = pipes /\ pipeline' = pipeline /\ [Next]_vars
    BY <1>1 DEF Serving, daemonVars, playerVars
  <2>2. remote.db = None
    BY <2>1, RemoteChange
  <2> QED
    BY <2>1, <2>2 DEF QuietInv
<1>2. CASE Requested
  BY <1>2 DEF Requested, vars
<1>3. CASE Looping \/ Terminated
  <2>1. remote' = remote
    BY <1>3 DEF Looping, Terminated, vars
  <2>2. pipeline = None /\ \A p \in Pipelines : pipes[p] = "none"
    BY <2>1 DEF QuietInv
  <2>3. ~Player!Message
    BY <2>2, PlayerAssumption DEF Player!Message, Player!EndOfStream, Player!Error
  <2>4. CASE Player!Return
    <3>1. pipeline' = None /\ pipes' = Player!To(pipeline, "none")
      BY <2>2, <2>4 DEF Player!Return, Player!Stop, Player!Lower
    <3> QED BY <2>2, <3>1 DEF Player!To
  <2>5. CASE Player!Quit \/ Player!Exit \/ Player!Sigterm
    BY <2>2, <2>5 DEF Player!Quit, Player!Exit, Player!Sigterm
  <2> QED
    BY <1>3, <2>3, <2>4, <2>5 DEF Looping, Terminated
<1> QED
  BY <1>1, <1>2, <1>3 DEF DaemonNext

(* For any services, remotes and requests: nothing sounds unless the       *)
(* daemon was told to render and has found the host it was told of.        *)
THEOREM PlaysForItsHost == DaemonSpec => []PlaysForHost
<1>1. DaemonInit => QuietInv
  BY DEF DaemonInit, Player!Init, QuietInv
<1>2. DaemonSpec => []QuietInv
  BY <1>1, QuietStep, PTL DEF DaemonSpec
<1>3. Spec => []RemoteInv
  BY RemoteInit, RemoteStep, PTL DEF Spec
<1>4. QuietInv /\ RemoteInv => PlaysForHost
  BY DEF QuietInv, RemoteInv, PlaysForHost, Player!Sounding
<1> QED
  BY <1>2, <1>3, <1>4, EachPart, PTL
=============================================================================
