--------------------------- MODULE ContainersProofs ---------------------------
(* What holds of Containers for any tree of directories, any media         *)
(* directories and any order of reading.                                   *)
EXTENDS Containers, FiniteSetTheorems, TLAPS

(* The entries of a record, filled or being filled, lie in its directory,  *)
(* by the database m.                                                      *)
InPlace(m, entries, d) ==
    \A i \in DOMAIN entries : \E f \in DOMAIN m : m[f] = entries[i] /\ Home[f] = d

Whole(m, container) ==
    /\ container.entries \in Seq(Nat)
    /\ InPlace(m, container.entries, container.dir)

Sound(m, frame) ==
    /\ frame \in Frames
    /\ \A f \in frame.todo \cap Files : Home[f] = frame.dir
    /\ InPlace(m, frame.entries, frame.dir)

Database(m) == DOMAIN m \subseteq Files /\ \A f \in DOMAIN m : m[f] \in Nat

Placed ==
    /\ stack \in Seq(Frames) /\ \A n \in 1 .. Len(stack) : Sound(media, stack[n])
    /\ \A c \in DOMAIN containers : Whole(media, containers[c])
    /\ Database(media)
    /\ nextmedia \in Nat /\ nextid \in Nat
    /\ starts \in Seq(Dirs) /\ walked \in 0 .. Len(starts)

LEMMA PlacedInit == Init => Placed
BY ConstantsAssumption DEF Init, Placed, Database, FirstContainer

LEMMA NewFrame ==
    ASSUME NEW m, NEW d \in Dirs, NEW id \in Nat \cup {None}
    PROVE  Sound(m, Frame(d, id))
<1>1. Children(d) \subseteq Dirs \cup Files /\ \A f \in Children(d) \cap Files : Home[f] = d
  BY ConstantsAssumption DEF Children
<1> QED BY <1>1 DEF Sound, Frame, Frames, InPlace

(* A database to which f was added has what was there before.              *)
LEMMA Grown ==
    ASSUME NEW m, NEW n, \A f \in DOMAIN m : f \in DOMAIN n /\ n[f] = m[f]
    PROVE  /\ \A frame : Sound(m, frame) => Sound(n, frame)
           /\ \A container : Whole(m, container) => Whole(n, container)
<1>1. \A entries, d : InPlace(m, entries, d) => InPlace(n, entries, d)
  BY DEF InPlace
<1> QED BY <1>1 DEF Sound, Whole

(* A file read in the innermost call: its record may have got the file's   *)
(* id, in a database that may have grown by the file.                      *)
LEMMA ReadStep ==
    ASSUME Placed, stack # <<>>, NEW e, NEW m, NEW entries \in Seq(Nat),
           \A f \in DOMAIN media : f \in DOMAIN m /\ m[f] = media[f],
           InPlace(m, entries, Top.dir),
           Read(e, entries)
    PROVE  /\ stack' \in Seq(Frames) /\ \A n \in 1 .. Len(stack') : Sound(m, stack'[n])
           /\ \A c \in DOMAIN containers : Whole(m, containers[c])
<1> DEFINE top == [Top EXCEPT !.todo = @ \ {e}, !.entries = entries]
<1>1. Len(stack) \in 1 .. Len(stack) /\ Top \in Frames /\ Sound(media, Top)
  BY DEF Placed, Top
<1>2. top \in Frames /\ top.dir = Top.dir /\ top.entries = entries /\ top.todo = Top.todo \ {e}
  BY <1>1 DEF Frames
<1>3. Sound(m, top)
  BY <1>1, <1>2 DEF Sound
<1>4. stack' = [stack EXCEPT ![Len(stack)] = top]
  BY <1>1 DEF Read, Top, Placed
<1>5. stack' \in Seq(Frames) /\ Len(stack') = Len(stack)
  BY <1>1, <1>2, <1>4 DEF Placed
<1>6. \A n \in 1 .. Len(stack) : stack'[n] = IF n = Len(stack) THEN top ELSE stack[n]
  BY <1>1, <1>4 DEF Placed
<1>7. \A n \in 1 .. Len(stack) : Sound(m, stack[n])
  BY Grown DEF Placed
<1>8. \A n \in 1 .. Len(stack') : Sound(m, stack'[n])
  BY <1>3, <1>5, <1>6, <1>7
<1>9. \A c \in DOMAIN containers : Whole(m, containers[c])
  BY Grown DEF Placed
<1> QED BY <1>5, <1>8, <1>9

(* The entries of the innermost record when the file with this id is read. *)
LEMMA EntryInPlace ==
    ASSUME Placed, stack # <<>>, NEW f \in Top.todo \cap Files, NEW m,
           \A g \in DOMAIN media : g \in DOMAIN m /\ m[g] = media[g],
           f \in DOMAIN m, m[f] \in Nat
    PROVE  WithEntry(m[f]) \in Seq(Nat) /\ InPlace(m, WithEntry(m[f]), Top.dir)
<1>1. Sound(media, Top) /\ Top.entries \in Seq(Nat) /\ Home[f] = Top.dir
  <2>1. Len(stack) \in 1 .. Len(stack)
    BY DEF Placed
  <2> QED BY <2>1 DEF Placed, Sound, Frames, Top
<1>2. InPlace(m, Top.entries, Top.dir)
  BY <1>1, Grown DEF Sound
<1>3. InPlace(m, Append(Top.entries, m[f]), Top.dir)
  BY <1>1, <1>2 DEF InPlace
<1> QED BY <1>1, <1>2, <1>3 DEF WithEntry

(* A stack of sound frames stays one when its top is replaced or another   *)
(* is put on it.                                                           *)
AllSound(m, s) == s \in Seq(Frames) /\ \A n \in 1 .. Len(s) : Sound(m, s[n])

LEMMA Replaced ==
    ASSUME NEW m, NEW s, AllSound(m, s), s # <<>>, NEW top, Sound(m, top)
    PROVE  AllSound(m, [s EXCEPT ![Len(s)] = top])
<1>1. top \in Frames /\ Len(s) \in 1 .. Len(s)
  BY DEF Sound, AllSound
<1> DEFINE t == [s EXCEPT ![Len(s)] = top]
<1>2. t \in Seq(Frames) /\ Len(t) = Len(s)
  BY <1>1 DEF AllSound
<1>3. \A n \in 1 .. Len(s) : t[n] = IF n = Len(s) THEN top ELSE s[n]
  BY <1>1 DEF AllSound
<1> QED BY <1>2, <1>3 DEF AllSound

LEMMA Pushed ==
    ASSUME NEW m, NEW s, AllSound(m, s), NEW frame, Sound(m, frame)
    PROVE  AllSound(m, Append(s, frame))
<1>1. frame \in Frames
  BY DEF Sound
<1> DEFINE t == Append(s, frame)
<1>2. t \in Seq(Frames) /\ Len(t) = Len(s) + 1
  BY <1>1 DEF AllSound
<1>3. \A n \in 1 .. Len(t) : t[n] = IF n = Len(t) THEN frame ELSE s[n]
  BY <1>1, <1>2 DEF AllSound
<1> QED BY <1>2, <1>3 DEF AllSound

LEMMA PlacedStep == Placed /\ [Next]_vars => Placed'
<1> SUFFICES ASSUME Placed, [Next]_vars PROVE Placed'
  OBVIOUS
<1> USE ConstantsAssumption
<1>1. CASE OpenStart
  <2>1. starts[walked + 1] \in Dirs /\ None \in Nat \cup {None}
    BY <1>1 DEF OpenStart, Placed
  <2>2. Sound(media, Frame(starts[walked + 1], None))
    BY <2>1, NewFrame
  <2>3. stack' \in Seq(Frames) /\ \A n \in 1 .. Len(stack') : Sound(media, stack'[n])
    BY <1>1, <2>2 DEF OpenStart, Sound
  <2> QED BY <1>1, <2>3 DEF OpenStart, Placed
<1>2. ASSUME NEW d \in Dirs, EnterDir(d) PROVE Placed'
  <2> DEFINE top == [Top EXCEPT !.todo = @ \ {d}]
             below == [stack EXCEPT ![Len(stack)] = top]
  <2>1. Len(stack) \in 1 .. Len(stack) /\ Sound(media, Top) /\ Top \in Frames
    BY <1>2 DEF EnterDir, Placed, Top, Sound
  <2>2. Sound(media, top) /\ top \in Frames
    <3>1. top \in Frames /\ top.dir = Top.dir /\ top.entries = Top.entries /\ top.todo = Top.todo \ {d}
      BY <2>1 DEF Frames
    <3> QED BY <2>1, <3>1 DEF Sound
  <2>3. stack' = Append(below, Frame(d, nextid))
    BY <1>2, <2>1 DEF EnterDir, Top, Placed
  <2>4. AllSound(media, below)
    BY <1>2, <2>2, Replaced DEF AllSound, Placed, EnterDir
  <2>5. Sound(media, Frame(d, nextid))
    BY NewFrame DEF Placed
  <2>6. stack' \in Seq(Frames) /\ \A n \in 1 .. Len(stack') : Sound(media, stack'[n])
    <3>1. AllSound(media, Append(below, Frame(d, nextid)))
      BY <2>4, <2>5, Pushed
    <3> HIDE DEF below
    <3> QED BY <2>3, <3>1 DEF AllSound
  <2>7. nextid' \in Nat /\ UNCHANGED <<starts, walked, media, nextmedia, containers>>
    BY <1>2 DEF EnterDir, Placed
  <2> HIDE DEF top, below
  <2> QED BY <2>6, <2>7 DEF Placed
<1>3. ASSUME NEW f \in Files, ReadKnown(f) PROVE Placed'
  <2>1. f \in Top.todo \cap Files /\ f \in DOMAIN media /\ media[f] \in Nat
    BY <1>3 DEF ReadKnown, Placed, Database
  <2>2. WithEntry(media[f]) \in Seq(Nat) /\ InPlace(media, WithEntry(media[f]), Top.dir)
    BY <1>3, <2>1, EntryInPlace DEF ReadKnown
  <2>3. stack' \in Seq(Frames) /\ \A n \in 1 .. Len(stack') : Sound(media, stack'[n])
    BY <1>3, <2>2, ReadStep DEF ReadKnown
  <2> QED BY <1>3, <2>3 DEF ReadKnown, Placed
<1>4. ASSUME NEW f \in Files, ReadNew(f) PROVE Placed'
  <2>1. /\ media' = [g \in DOMAIN media \cup {f} |-> IF g = f THEN nextmedia ELSE media[g]]
        /\ f \notin DOMAIN media /\ f \in Top.todo \cap Files /\ stack # <<>>
        /\ nextmedia > 0 /\ nextmedia' = nextmedia - 1
        /\ Read(f, WithEntry(nextmedia)) /\ UNCHANGED <<starts, walked, nextid, containers>>
    BY <1>4 DEF ReadNew, Lower
  <2>2. \A g \in DOMAIN media : g \in DOMAIN media' /\ media'[g] = media[g]
    BY <2>1
  <2>3. f \in DOMAIN media' /\ media'[f] = nextmedia /\ nextmedia \in Nat /\ Database(media')
    BY <2>1 DEF Placed, Database
  <2>4. WithEntry(media'[f]) \in Seq(Nat) /\ InPlace(media', WithEntry(media'[f]), Top.dir)
    BY <2>1, <2>2, <2>3, EntryInPlace
  <2>5. /\ stack' \in Seq(Frames) /\ \A n \in 1 .. Len(stack') : Sound(media', stack'[n])
        /\ \A c \in DOMAIN containers : Whole(media', containers[c])
    BY <2>1, <2>2, <2>3, <2>4, ReadStep
  <2>6. nextmedia' \in Nat
    BY <2>1, <2>3
  <2>7. \A c \in DOMAIN containers' : Whole(media', containers'[c])
    BY <2>1, <2>5
  <2>8. nextid' \in Nat /\ starts' \in Seq(Dirs) /\ walked' \in 0 .. Len(starts')
    BY <2>1 DEF Placed
  <2> QED BY <2>3, <2>5, <2>6, <2>7, <2>8 DEF Placed
<1>5. ASSUME NEW f \in Files, ReadRefused(f) PROVE Placed'
  <2>1. Top.entries \in Seq(Nat) /\ InPlace(media, Top.entries, Top.dir)
    <3>1. Len(stack) \in 1 .. Len(stack)
      BY <1>5 DEF ReadRefused, Placed
    <3> QED BY <3>1 DEF Placed, Sound, Frames, Top
  <2>2. stack' \in Seq(Frames) /\ \A n \in 1 .. Len(stack') : Sound(media, stack'[n])
    BY <1>5, <2>1, ReadStep DEF ReadRefused
  <2> QED BY <1>5, <2>2 DEF ReadRefused, Placed
<1>6. CASE CloseDir
  <2>1. Len(stack) \in 1 .. Len(stack) /\ Sound(media, Top)
    BY <1>6 DEF CloseDir, Placed, Top
  <2>2. stack' \in Seq(Frames) /\ \A n \in 1 .. Len(stack') : Sound(media, stack'[n])
    BY <1>6, <2>1 DEF CloseDir, Placed
  <2>3. Whole(media, [dir |-> Top.dir, entries |-> Top.entries])
    BY <2>1 DEF Sound, Whole, Frames
  <2>4. \A c \in DOMAIN containers' : Whole(media, containers'[c])
    <3>1. CASE IsKept(Top)
      <4>1. containers' = [c \in DOMAIN containers \cup {Top.id} |->
                             IF c = Top.id THEN [dir |-> Top.dir, entries |-> Top.entries]
                             ELSE containers[c]]
        BY <1>6, <3>1 DEF CloseDir
      <4> QED BY <2>3, <4>1 DEF Placed
    <3>2. CASE ~IsKept(Top)
      BY <1>6, <3>2 DEF CloseDir, Placed
    <3> QED BY <3>1, <3>2
  <2> QED BY <1>6, <2>2, <2>4 DEF CloseDir, Placed
<1>7. CASE Publish \/ UNCHANGED vars
  BY <1>7 DEF Publish, vars, Placed
<1> QED
  BY <1>1, <1>2, <1>3, <1>4, <1>5, <1>6, <1>7 DEF Next, Walk, Served

LEMMA PlacedInvariant == Spec => []Placed
BY PlacedInit, PlacedStep, PTL DEF Spec

(* A container shows files of its own directory, however the calls nest.   *)
THEOREM EntriesAlwaysInPlace == Spec => []EntriesInPlace
<1>1. Placed => EntriesInPlace
  BY DEF Placed, Whole, InPlace, EntriesInPlace, EntriesOf, ToSet
<1> QED BY <1>1, PlacedInvariant, PTL

-----------------------------------------------------------------------------
(* Ids of containers: below nextid, and each of one record only.           *)

Issued(id, next) == id \in Nat /\ FirstContainer <= id /\ id < next

Numbered ==
    /\ FirstContainer <= nextid
    /\ \A c \in DOMAIN containers : Issued(c, nextid)
    /\ \A n \in 1 .. Len(stack) :
         stack[n].id # None => Issued(stack[n].id, nextid) /\ stack[n].id \notin DOMAIN containers
    /\ \A m, n \in 1 .. Len(stack) : stack[m].id = stack[n].id /\ stack[m].id # None => m = n

(* The stack after one of the actions on a file. *)
LEMMA AfterRead ==
    ASSUME Placed, stack # <<>>, NEW e, NEW entries \in Seq(Nat), Read(e, entries)
    PROVE  /\ Len(stack') = Len(stack) /\ Len(stack) \in 1 .. Len(stack)
           /\ \A n \in 1 .. Len(stack) :
                stack'[n] = IF n = Len(stack)
                            THEN [Top EXCEPT !.todo = @ \ {e}, !.entries = entries]
                            ELSE stack[n]
           /\ stack'[Len(stack)].todo = Top.todo \ {e}
           /\ stack'[Len(stack)].entries = entries
           /\ \A n \in 1 .. Len(stack) : stack'[n].id = stack[n].id
<1>1. Len(stack) \in 1 .. Len(stack) /\ Top \in Frames
  BY DEF Placed, Sound, Top
<1> DEFINE top == [Top EXCEPT !.todo = @ \ {e}, !.entries = entries]
<1>2. top.id = Top.id /\ top.todo = Top.todo \ {e} /\ top.entries = entries
  BY <1>1 DEF Frames
<1>3. stack' = [stack EXCEPT ![Len(stack)] = top]
  BY <1>1 DEF Read, Top, Placed
<1>4. Len(stack') = Len(stack)
      /\ \A n \in 1 .. Len(stack) : stack'[n] = IF n = Len(stack) THEN top ELSE stack[n]
  BY <1>1, <1>3 DEF Placed
<1> QED BY <1>1, <1>2, <1>4 DEF Top

(* The stack after EnterDir. *)
LEMMA AfterEnter ==
    ASSUME Placed, NEW d \in Dirs, EnterDir(d)
    PROVE  /\ Len(stack) \in 1 .. Len(stack) /\ Len(stack') = Len(stack) + 1
           /\ \A n \in 1 .. Len(stack) :
                /\ stack'[n].id = stack[n].id /\ stack'[n].entries = stack[n].entries
                /\ stack'[n].dir = stack[n].dir
                /\ stack'[n].todo \subseteq stack[n].todo
                /\ stack[n].todo \subseteq stack'[n].todo \cup {d}
           /\ stack'[Len(stack) + 1] = Frame(d, nextid)
<1>1. Len(stack) \in 1 .. Len(stack) /\ Top \in Frames /\ Top = stack[Len(stack)]
  BY DEF Placed, Sound, Top, EnterDir
<1> DEFINE top == [Top EXCEPT !.todo = @ \ {d}]
           below == [stack EXCEPT ![Len(stack)] = top]
<1>2. top.id = Top.id /\ top.todo = Top.todo \ {d} /\ top.entries = Top.entries /\ top.dir = Top.dir
  BY <1>1 DEF Frames
<1>3. below \in Seq({stack[n] : n \in 1 .. Len(stack)} \cup {top}) /\ Len(below) = Len(stack)
  BY <1>1 DEF Placed
<1>4. \A n \in 1 .. Len(stack) : below[n] = IF n = Len(stack) THEN top ELSE stack[n]
  BY <1>1 DEF Placed
<1>5. stack' = Append(below, Frame(d, nextid))
  BY <1>1 DEF EnterDir, Top, Placed
<1> HIDE DEF top, below
<1>6. /\ Len(stack') = Len(stack) + 1 /\ stack'[Len(stack) + 1] = Frame(d, nextid)
      /\ \A n \in 1 .. Len(stack) : stack'[n] = below[n]
  BY <1>1, <1>3, <1>5
<1> QED BY <1>1, <1>2, <1>4, <1>6

LEMMA Shorter ==
    ASSUME NEW S, NEW s \in Seq(S), NEW n \in Nat, n <= Len(s)
    PROVE  Len(SubSeq(s, 1, n)) = n
OBVIOUS

(* The stack after CloseDir. *)
LEMMA AfterClose ==
    ASSUME Placed, CloseDir
    PROVE  /\ Len(stack) \in 1 .. Len(stack) /\ Top = stack[Len(stack)] /\ Top \in Frames
           /\ Len(stack') = Len(stack) - 1
           /\ \A n \in 1 .. Len(stack') : n \in 1 .. Len(stack) /\ n # Len(stack) /\ stack'[n] = stack[n]
           /\ \A c \in DOMAIN containers' :
                \/ c \in DOMAIN containers /\ containers'[c] = containers[c]
                \/ /\ IsKept(Top) /\ c = Top.id
                   /\ containers'[c] = [dir |-> Top.dir, entries |-> Top.entries]
<1>1. Len(stack) \in 1 .. Len(stack) /\ Top = stack[Len(stack)] /\ Top \in Frames
  BY DEF CloseDir, Placed, Top, Sound
<1>2. Len(stack') = Len(stack) - 1
      /\ \A n \in 1 .. Len(stack') : n \in 1 .. Len(stack) /\ n # Len(stack) /\ stack'[n] = stack[n]
  <2>1. stack \in Seq(Frames) /\ stack' = SubSeq(stack, 1, Len(stack) - 1)
    BY DEF CloseDir, Placed
  <2>2. Len(stack) - 1 \in 0 .. Len(stack) /\ Len(stack') = Len(stack) - 1
    <3>1. Len(stack) \in Nat /\ Len(stack) >= 1
      BY <1>1, <2>1
    <3>2. Len(stack) - 1 \in Nat /\ Len(stack) - 1 <= Len(stack)
      BY <3>1
    <3>3. Len(SubSeq(stack, 1, Len(stack) - 1)) = Len(stack) - 1
      <4> DEFINE n == Len(stack) - 1
      <4>1. stack \in Seq(Frames) /\ n \in Nat /\ n <= Len(stack)
        BY <2>1, <3>2
      <4> HIDE DEF n
      <4>2. Len(SubSeq(stack, 1, n)) = n
        BY <4>1, Shorter
      <4> QED BY <4>2 DEF n
    <3>4. Len(stack') = Len(stack) - 1
      BY <2>1, <3>3
    <3> QED BY <3>1, <3>2, <3>4
  <2>3. \A n \in 1 .. Len(stack') : stack'[n] = stack[n]
    BY <1>1, <2>1, <2>2
  <2> QED BY <1>1, <2>2, <2>3
<1> QED BY <1>1, <1>2 DEF CloseDir

LEMMA NumberedStep == Placed /\ Numbered /\ [Next]_vars => Numbered'
<1> SUFFICES ASSUME Placed, Numbered, [Next]_vars PROVE Numbered'
  OBVIOUS
<1> USE ConstantsAssumption DEF Numbered, Issued, FirstContainer
<1>1. CASE OpenStart
  <2>1. Len(stack') = 1 /\ stack'[1].id = None
    BY <1>1 DEF OpenStart, Frame
  <2> QED BY <1>1, <2>1 DEF OpenStart
<1>2. ASSUME NEW d \in Dirs, EnterDir(d) PROVE Numbered'
  <2>1. nextid \in Nat /\ nextid' = nextid + 1 /\ UNCHANGED containers
    BY <1>2 DEF EnterDir, Placed
  <2>2. stack'[Len(stack) + 1].id = nextid
    <3>1. stack'[Len(stack) + 1] = Frame(d, nextid)
      BY <1>2, AfterEnter
    <3> QED BY <3>1 DEF Frame
  <2>3. \A n \in 1 .. Len(stack') : n \in 1 .. Len(stack) \/ n = Len(stack) + 1
    BY <1>2, AfterEnter
  <2>4. \A n \in 1 .. Len(stack) : stack'[n].id = stack[n].id
    BY <1>2, AfterEnter
  <2>5. \A n \in 1 .. Len(stack') :
          stack'[n].id # None =>
              Issued(stack'[n].id, nextid') /\ stack'[n].id \notin DOMAIN containers'
    BY <2>1, <2>2, <2>3, <2>4
  <2>6. \A n \in 1 .. Len(stack) : stack'[n].id # nextid
    BY <2>1, <2>4
  <2>7. \A m, n \in 1 .. Len(stack') : stack'[m].id = stack'[n].id /\ stack'[m].id # None => m = n
    BY <2>2, <2>3, <2>4, <2>6
  <2> QED BY <2>1, <2>5, <2>7
<1>3. ASSUME NEW f \in Files, NEW entries \in Seq(Nat), stack # <<>>, Read(f, entries),
             UNCHANGED <<nextid, containers>>
      PROVE  Numbered'
  BY <1>3, AfterRead
<1>4. ASSUME NEW f \in Files, ReadKnown(f) \/ ReadNew(f) \/ ReadRefused(f) PROVE Numbered'
  <2>1. Top.entries \in Seq(Nat) /\ stack # <<>> /\ UNCHANGED <<nextid, containers>>
    <3>1. stack # <<>>
      BY <1>4 DEF ReadKnown, ReadNew, ReadRefused
    <3>2. Len(stack) \in 1 .. Len(stack)
      BY <3>1 DEF Placed
    <3> QED BY <1>4, <3>1, <3>2 DEF Placed, Sound, Frames, Top, ReadKnown, ReadNew, ReadRefused
  <2>2. \A id \in Nat : WithEntry(id) \in Seq(Nat)
    BY <2>1 DEF WithEntry
  <2>3. CASE ReadKnown(f)
    <3>1. media[f] \in Nat /\ Read(f, WithEntry(media[f]))
      BY <2>3 DEF ReadKnown, Placed, Database
    <3> QED BY <1>3, <2>1, <2>2, <3>1
  <2>4. CASE ReadNew(f)
    <3>1. nextmedia \in Nat /\ Read(f, WithEntry(nextmedia))
      BY <2>4 DEF ReadNew, Placed
    <3> QED BY <1>3, <2>1, <2>2, <3>1
  <2>5. CASE ReadRefused(f)
    BY <1>3, <2>1, <2>5 DEF ReadRefused
  <2> QED BY <1>4, <2>3, <2>4, <2>5
<1>5. CASE CloseDir
  <2>1. UNCHANGED nextid
    BY <1>5 DEF CloseDir
  <2>2. \A c \in DOMAIN containers' : Issued(c, nextid')
    <3>1. /\ Top = stack[Len(stack)] /\ Len(stack) \in 1 .. Len(stack)
          /\ \A c \in DOMAIN containers' :
               c \in DOMAIN containers \/ (Top.id # None /\ c = Top.id)
      BY <1>5, AfterClose DEF IsKept
    <3> QED BY <2>1, <3>1
  <2>3. \A n \in 1 .. Len(stack') : stack'[n].id # None => stack'[n].id \notin DOMAIN containers'
    BY <1>5, AfterClose
  <2>4. \A n \in 1 .. Len(stack') : stack'[n].id = stack[n].id /\ n \in 1 .. Len(stack)
    BY <1>5, AfterClose
  <2> QED BY <2>1, <2>2, <2>3, <2>4
<1>6. CASE Publish \/ UNCHANGED vars
  BY <1>6 DEF Publish, vars
<1> QED BY <1>1, <1>2, <1>4, <1>5, <1>6 DEF Next, Walk, Served

-----------------------------------------------------------------------------
(* Media ids, and what is listed under them.                               *)

OneEach(m) == \A f, g \in DOMAIN m : m[f] = m[g] => f = g

Different(entries) == \A i, j \in DOMAIN entries : entries[i] = entries[j] => i = j

(* No file that is still to be read is listed.                             *)
Unlisted(m, todo, entries) ==
    \A f \in todo \cap DOMAIN m : \A i \in DOMAIN entries : entries[i] # m[f]

Once(m, frame) == Different(frame.entries) /\ Unlisted(m, frame.todo, frame.entries)

Counts ==
    /\ \A f \in DOMAIN media : media[f] > nextmedia
    /\ OneEach(media)
    /\ \A n \in 1 .. Len(stack) : Once(media, stack[n])
    /\ \A c \in DOMAIN containers :
         containers[c].entries # <<>> /\ Different(containers[c].entries)

(* A file of the directory is read, and it is listed or not.               *)
LEMMA Listed ==
    ASSUME NEW m, OneEach(m), NEW todo, NEW entries \in Seq(Nat),
           Different(entries), Unlisted(m, todo, entries),
           NEW f \in todo \cap DOMAIN m, m[f] \in Nat
    PROVE  LET longer == Append(entries, m[f])
           IN  Different(longer) /\ Unlisted(m, todo \ {f}, longer)
<1> DEFINE longer == Append(entries, m[f])
<1>1. DOMAIN longer = 1 .. Len(entries) + 1 /\ DOMAIN entries = 1 .. Len(entries)
      /\ Len(entries) \in Nat
  OBVIOUS
<1>2. \A i \in DOMAIN longer : longer[i] = IF i \in DOMAIN entries THEN entries[i] ELSE m[f]
  BY <1>1
<1>3. \A i \in DOMAIN longer : i \in DOMAIN entries \/ i = Len(entries) + 1
  BY <1>1
<1> HIDE DEF longer
<1>4. Different(longer)
  BY <1>1, <1>2, <1>3 DEF Different, Unlisted
<1>5. Unlisted(m, todo \ {f}, longer)
  BY <1>2 DEF Unlisted, OneEach
<1> QED BY <1>4, <1>5 DEF longer

(* The record of the innermost call, if there is one, gets the file's id.  *)
LEMMA OnceRead ==
    ASSUME Placed, stack # <<>>, NEW m, Database(m), OneEach(m),
           \A n \in 1 .. Len(stack) : Once(m, stack[n]),
           NEW f \in Top.todo \cap DOMAIN m, Read(f, WithEntry(m[f]))
    PROVE  \A n \in 1 .. Len(stack') : Once(m, stack'[n])
<1>1. Len(stack) \in 1 .. Len(stack) /\ Top \in Frames /\ Top = stack[Len(stack)]
  BY DEF Placed, Sound, Top
<1>2. Top.entries \in Seq(Nat) /\ Once(m, Top) /\ m[f] \in Nat
  BY <1>1 DEF Frames, Database
<1>3. Different(WithEntry(m[f])) /\ Unlisted(m, Top.todo \ {f}, WithEntry(m[f]))
  <2>1. CASE Top.id = None
    BY <1>2, <2>1 DEF WithEntry, Once, Unlisted
  <2>2. CASE Top.id # None
    BY <1>2, <2>2, Listed DEF WithEntry, Once
  <2> QED BY <2>1, <2>2
<1>4. WithEntry(m[f]) \in Seq(Nat)
  BY <1>2 DEF WithEntry
<1>5. Once(m, stack'[Len(stack)])
  BY <1>3, <1>4, AfterRead DEF Once
<1>6. \A n \in 1 .. Len(stack) : n # Len(stack) => stack'[n] = stack[n]
  BY <1>4, AfterRead
<1>7. Len(stack') = Len(stack)
  BY <1>4, AfterRead
<1> QED BY <1>5, <1>6, <1>7

LEMMA CountsStep == Placed /\ Counts /\ [Next]_vars => Counts'
<1> SUFFICES ASSUME Placed, Counts, [Next]_vars PROVE Counts'
  OBVIOUS
<1> USE ConstantsAssumption DEF Counts
<1>1. CASE OpenStart
  <2>1. Len(stack') = 1 /\ stack'[1].entries = <<>>
    BY <1>1 DEF OpenStart, Frame
  <2>2. \A n \in 1 .. Len(stack') : Once(media, stack'[n])
    BY <2>1 DEF Once, Different, Unlisted
  <2> QED BY <1>1, <2>2 DEF OpenStart
<1>2. ASSUME NEW d \in Dirs, EnterDir(d) PROVE Counts'
  <2>1. Once(media, stack'[Len(stack) + 1])
    <3>1. stack'[Len(stack) + 1] = Frame(d, nextid)
      BY <1>2, AfterEnter
    <3>2. Frame(d, nextid).entries = <<>>
      BY DEF Frame
    <3> QED BY <3>1, <3>2 DEF Once, Different, Unlisted
  <2>2. \A n \in 1 .. Len(stack) : Once(media, stack'[n])
    BY <1>2, AfterEnter DEF Once, Unlisted
  <2>3. \A n \in 1 .. Len(stack') : n \in 1 .. Len(stack) \/ n = Len(stack) + 1
    BY <1>2, AfterEnter
  <2> QED BY <1>2, <2>1, <2>2, <2>3 DEF EnterDir
<1>3. ASSUME NEW f \in Files, ReadKnown(f) PROVE Counts'
  <2>1. \A n \in 1 .. Len(stack') : Once(media, stack'[n])
    BY <1>3, OnceRead DEF ReadKnown, Placed
  <2> QED BY <1>3, <2>1 DEF ReadKnown
<1>4. ASSUME NEW f \in Files, ReadNew(f) PROVE Counts'
  <2>1. /\ media' = [g \in DOMAIN media \cup {f} |-> IF g = f THEN nextmedia ELSE media[g]]
        /\ f \notin DOMAIN media /\ f \in Top.todo /\ stack # <<>>
        /\ nextmedia' = nextmedia - 1 /\ nextmedia \in Nat /\ nextmedia > 0
        /\ Read(f, WithEntry(nextmedia)) /\ UNCHANGED containers
    BY <1>4 DEF ReadNew, Lower, Placed
  <2>2. Database(media') /\ OneEach(media') /\ (\A g \in DOMAIN media' : media'[g] > nextmedia')
    BY <2>1 DEF Placed, Database, OneEach
  <2>3. ASSUME NEW n \in 1 .. Len(stack) PROVE Once(media', stack[n])
    <3>1. Once(media, stack[n]) /\ InPlace(media, stack[n].entries, stack[n].dir)
      BY DEF Placed, Sound
    <3>2. \A i \in DOMAIN stack[n].entries : stack[n].entries[i] # nextmedia
      BY <2>1, <3>1 DEF InPlace, Placed, Database
    <3> QED BY <2>1, <3>1, <3>2 DEF Once, Unlisted
  <2>4. f \in DOMAIN media' /\ media'[f] = nextmedia
    BY <2>1
  <2>5. \A n \in 1 .. Len(stack') : Once(media', stack'[n])
    BY <2>1, <2>2, <2>3, <2>4, OnceRead
  <2> QED BY <2>1, <2>2, <2>5
<1>5. ASSUME NEW f \in Files, ReadRefused(f) PROVE Counts'
  <2>1. stack # <<>> /\ Read(f, Top.entries) /\ UNCHANGED <<media, nextmedia, containers>>
    BY <1>5 DEF ReadRefused
  <2>2. Top.entries \in Seq(Nat) /\ Top = stack[Len(stack)] /\ Len(stack) \in 1 .. Len(stack)
    <3>1. Len(stack) \in 1 .. Len(stack) /\ Top = stack[Len(stack)]
      BY <2>1 DEF Placed, Top
    <3>2. Top \in Frames
      BY <3>1 DEF Placed, Sound
    <3> QED BY <3>1, <3>2 DEF Frames
  <2>3. /\ stack'[Len(stack)].todo = Top.todo \ {f} /\ stack'[Len(stack)].entries = Top.entries
        /\ Len(stack') = Len(stack)
        /\ \A n \in 1 .. Len(stack) : n # Len(stack) => stack'[n] = stack[n]
    BY <2>1, <2>2, AfterRead
  <2>4. Once(media, stack'[Len(stack)])
    BY <2>2, <2>3 DEF Once, Unlisted
  <2> QED BY <2>1, <2>3, <2>4
<1>6. CASE CloseDir
  <2>1. \A n \in 1 .. Len(stack') : Once(media, stack'[n])
    BY <1>6, AfterClose
  <2>2. \A c \in DOMAIN containers' :
          containers'[c].entries # <<>> /\ Different(containers'[c].entries)
    BY <1>6, AfterClose DEF IsKept, Once
  <2> QED BY <1>6, <2>1, <2>2 DEF CloseDir
<1>7. CASE Publish \/ UNCHANGED vars
  BY <1>7 DEF Publish, vars
<1> QED BY <1>1, <1>2, <1>3, <1>4, <1>5, <1>6, <1>7 DEF Next, Walk, Served

LEMMA CountedInvariant == Spec => [](Placed /\ Numbered /\ Counts)
<1>1. Init => Numbered /\ Counts
  BY DEF Init, Numbered, Counts, FirstContainer, OneEach
<1> QED BY <1>1, PlacedInit, PlacedStep, NumberedStep, CountsStep, PTL DEF Spec

(* Each media id that was taken belongs to a file of the database.         *)
MediaCounted ==
    IsFiniteSet(DOMAIN media) /\ nextmedia + Cardinality(DOMAIN media) = Base

LEMMA MediaCountedInit == Init => MediaCounted
<1> SUFFICES ASSUME Init PROVE MediaCounted
  OBVIOUS
<1>1. DOMAIN media = {} /\ nextmedia = Base
  BY DEF Init
<1> QED BY <1>1, FS_EmptySet, ConstantsAssumption DEF MediaCounted

LEMMA MediaCountedStep == Placed /\ MediaCounted /\ [Next]_vars => MediaCounted'
<1> SUFFICES ASSUME Placed, MediaCounted, [Next]_vars PROVE MediaCounted'
  OBVIOUS
<1>1. ASSUME NEW f \in Files, ReadNew(f) PROVE MediaCounted'
  <2>1. /\ DOMAIN media' = DOMAIN media \cup {f} /\ f \notin DOMAIN media
        /\ nextmedia' = nextmedia - 1 /\ nextmedia \in Nat
    BY <1>1 DEF ReadNew, Lower, Placed
  <2>2. Cardinality(DOMAIN media) \in Nat
    BY FS_CardinalityType DEF MediaCounted
  <2>3. /\ IsFiniteSet(DOMAIN media')
        /\ Cardinality(DOMAIN media') = Cardinality(DOMAIN media) + 1
    BY <2>1, FS_AddElement DEF MediaCounted
  <2> QED BY <2>1, <2>2, <2>3, ConstantsAssumption DEF MediaCounted
<1>2. ASSUME UNCHANGED <<media, nextmedia>> PROVE MediaCounted'
  BY <1>2 DEF MediaCounted
<1>3. ASSUME NEW f \in Files, ReadKnown(f) \/ ReadRefused(f) PROVE MediaCounted'
  BY <1>2, <1>3 DEF ReadKnown, ReadRefused
<1>4. ASSUME NEW d \in Dirs, EnterDir(d) PROVE MediaCounted'
  BY <1>2, <1>4 DEF EnterDir
<1>5. CASE OpenStart \/ CloseDir \/ Publish \/ UNCHANGED vars
  BY <1>2, <1>5 DEF OpenStart, CloseDir, Publish, vars
<1> QED BY <1>1, <1>3, <1>4, <1>5 DEF Next, Walk, Served

(* No id is issued twice, and those of media and of containers do not meet *)
(* as long as all that were taken fit below Base.                          *)
THEOREM IdsAlwaysApart == Spec => []IdsApart
<1>1. Placed /\ Numbered /\ Counts /\ MediaCounted => IdsApart
  <2> SUFFICES ASSUME Placed, Numbered, Counts, MediaCounted PROVE IdsApart
    OBVIOUS
  <2>1. DOMAIN stack = 1 .. Len(stack)
    BY DEF Placed
  <2>2. \A c \in ContainerIds \ {None} : c \in Nat /\ FirstContainer <= c /\ c < nextid
    BY <2>1, ConstantsAssumption DEF Numbered, Issued, ContainerIds
  <2>3. \A n \in DOMAIN stack : stack[n].id \notin DOMAIN containers
    <3>1. \A c \in DOMAIN containers : c \in Nat
      BY DEF Numbered, Issued
    <3> QED BY <2>1, <3>1, ConstantsAssumption DEF Numbered
  <2>4. 1 \notin ContainerIds
    BY <2>2, ConstantsAssumption DEF FirstContainer
  <2>5. ASSUME (nextid - FirstContainer) + Cardinality(DOMAIN media) < Base,
               NEW f \in DOMAIN media
        PROVE  media[f] \notin ContainerIds \cup {1}
    <3>1. /\ media[f] \in Nat /\ nextmedia < media[f] /\ nextmedia \in Nat
          /\ nextid \in Nat /\ FirstContainer <= nextid
      BY DEF Counts, Placed, Database, Numbered
    <3>2. Cardinality(DOMAIN media) \in Nat
      BY FS_CardinalityType DEF MediaCounted
    <3>3. nextid <= nextmedia + 1 /\ 1 < nextid
      BY <2>5, <3>1, <3>2, ConstantsAssumption DEF MediaCounted, FirstContainer
    <3>4. media[f] >= nextid
      BY <3>1, <3>3
    <3>5. media[f] \notin ContainerIds
      BY <2>2, <3>1, <3>4, ConstantsAssumption
    <3> QED BY <3>1, <3>3, <3>4, <3>5
  <2> QED BY <2>1, <2>3, <2>4, <2>5 DEF IdsApart, Numbered, Counts, OneEach
<1> QED BY <1>1, CountedInvariant, MediaCountedInit, MediaCountedStep, PTL DEF Spec

(* A container that is kept has entries, each of another file.             *)
THEOREM CountsAlwaysAgree == Spec => []CountsAgree
<1>1. Counts => CountsAgree
  BY DEF Counts, CountsAgree, Different
<1> QED BY <1>1, CountedInvariant, PTL

-----------------------------------------------------------------------------
(* What is still to be walked, and what is below it.                       *)
Pending ==
    {starts[n] : n \in walked + 1 .. Len(starts)}
        \cup UNION {stack[n].todo \cap Dirs : n \in 1 .. Len(stack)}

LEMMA NothingBelow == Below({}) = {}
BY ConstantsAssumption DEF Below, Closed

(* When s is opened what lies in it takes its place.                       *)
LEMMA Opened ==
    ASSUME NEW s \in Dirs, NEW S, NEW T \in SUBSET Dirs, S \subseteq T \cup {s},
           Children(s) \cap Dirs \subseteq T
    PROVE  Below(S) \subseteq Below(T) \cup {s}
<1> SUFFICES ASSUME NEW d \in Below(S), d # s, NEW R \in SUBSET Dirs, T \subseteq R, Closed(R)
             PROVE  d \in R
  BY DEF Below
<1>1. Closed(R \cup {s})
  BY DEF Closed, Children
<1> QED BY <1>1 DEF Below

LEMMA BelowMore == ASSUME NEW S, NEW T, S \subseteq T PROVE Below(S) \subseteq Below(T)
BY DEF Below

Lists(m, entries, f) == f \in DOMAIN m /\ \E i \in DOMAIN entries : entries[i] = m[f]

(* A frame that has f in its list, or will have.                           *)
Takes(m, frame, f) ==
    /\ frame.dir = Home[f] /\ frame.id # None
    /\ f \in frame.todo \/ Lists(m, frame.entries, f)

Holds(m, container, f) == container.dir = Home[f] /\ Lists(m, container.entries, f)

(* The directory f lies in is yet to be come to by way of the one above,   *)
(* is being read, or has been.                                             *)
Coming(f) ==
    \/ Parent[Home[f]] \in Below(Pending)
    \/ \E n \in 1 .. Len(stack) : Home[f] \in stack[n].todo
    \/ \E n \in 1 .. Len(stack) : Takes(media, stack[n], f)
    \/ \E c \in DOMAIN containers : Holds(media, containers[c], f)

Due(f) ==
    /\ f \in Files \ Refused /\ Home[f] \notin Unreadable
    /\ Parent[Home[f]] \in Reached \ Unreadable

Promised ==
    /\ WithContainers => \A f \in Files : Due(f) => Coming(f)
    /\ \A f \in DOMAIN media : f \notin Refused /\ Home[f] \notin Unreadable
    /\ \A n \in 1 .. Len(stack) : \A f \in stack[n].todo \cap Files : Home[f] \notin Unreadable
    /\ published => stack = <<>> /\ walked = Len(starts)

LEMMA PromisedInit == Init => Promised
<1> SUFFICES ASSUME Init PROVE Promised
  OBVIOUS
<1>1. starts \in Seq(Dirs) /\ walked = 0 /\ stack = <<>>
  BY ConstantsAssumption DEF Init
<1>2. ToSet(starts) \subseteq Pending
  BY <1>1 DEF ToSet, Pending
<1>3. Reached \subseteq Below(Pending)
  BY <1>2, BelowMore DEF Reached
<1> QED BY <1>1, <1>3 DEF Init, Promised, Due, Coming

(* A file has been read by the innermost call.                             *)
LEMMA PromisedRead ==
    ASSUME Placed, Promised, stack # <<>>, NEW f \in Top.todo \cap Files,
           NEW entries \in Seq(Nat), Read(f, entries),
           UNCHANGED <<starts, walked, containers, published>>, ~published,
           \A g \in DOMAIN media : g \in DOMAIN media' /\ media'[g] = media[g],
           DOMAIN media' \subseteq DOMAIN media \cup ({f} \ Refused),
           \A i \in DOMAIN Top.entries : i \in DOMAIN entries /\ entries[i] = Top.entries[i],
           f \notin Refused /\ Top.id # None => Lists(media', entries, f)
    PROVE  Promised'
<1> USE ConstantsAssumption
<1>1. /\ Len(stack) \in 1 .. Len(stack) /\ Top \in Frames /\ Top = stack[Len(stack)]
      /\ \A n \in 1 .. Len(stack) : stack[n] \in Frames
  BY DEF Placed, Sound, Top
<1>2. /\ Len(stack') = Len(stack)
      /\ \A n \in 1 .. Len(stack) :
           stack'[n] = IF n = Len(stack) THEN [Top EXCEPT !.todo = @ \ {f}, !.entries = entries]
                       ELSE stack[n]
  BY AfterRead
<1>3. \A n \in 1 .. Len(stack) :
        /\ stack'[n].dir = stack[n].dir /\ stack'[n].id = stack[n].id
        /\ stack'[n].todo = IF n = Len(stack) THEN stack[n].todo \ {f} ELSE stack[n].todo
        /\ stack'[n].entries = IF n = Len(stack) THEN entries ELSE stack[n].entries
  <2> DEFINE top == [Top EXCEPT !.todo = @ \ {f}, !.entries = entries]
  <2>1. /\ top.dir = Top.dir /\ top.id = Top.id
        /\ top.todo = Top.todo \ {f} /\ top.entries = entries
    BY <1>1 DEF Frames
  <2>2. \A n \in 1 .. Len(stack) : stack'[n] = IF n = Len(stack) THEN top ELSE stack[n]
    BY <1>2
  <2> HIDE DEF top
  <2> QED BY <1>1, <2>1, <2>2
<1>4. Pending' = Pending
  <2>1. \A n \in 1 .. Len(stack) : stack'[n].todo \cap Dirs = stack[n].todo \cap Dirs
    BY <1>3
  <2> QED BY <1>2, <2>1 DEF Pending
<1>5. ASSUME NEW g \in Files, NEW n \in 1 .. Len(stack), Takes(media, stack[n], g), g \notin Refused
      PROVE  Takes(media', stack'[n], g)
  <2>1. CASE n # Len(stack)
    BY <1>3, <1>5, <2>1 DEF Takes, Lists
  <2>2. CASE n = Len(stack)
    <3>1. CASE g = f
      <4>1. Top.dir = Home[f] /\ Top.id # None /\ f \notin Refused
        BY <1>1, <1>5, <2>2, <3>1 DEF Takes
      <4>2. Lists(media', entries, f)
        BY <4>1
      <4>3. /\ stack'[n].dir = Top.dir /\ stack'[n].id = Top.id
            /\ stack'[n].entries = entries
        BY <1>1, <1>3, <2>2
      <4> QED BY <3>1, <4>1, <4>2, <4>3 DEF Takes
    <3>2. CASE g # f
      <4>1. /\ Top.dir = Home[g] /\ Top.id # None
            /\ g \in Top.todo \/ Lists(media, Top.entries, g)
        BY <1>1, <1>5, <2>2 DEF Takes
      <4>2. Lists(media, Top.entries, g) => Lists(media', entries, g)
        BY DEF Lists
      <4>3. /\ stack'[n].dir = Top.dir /\ stack'[n].id = Top.id
            /\ stack'[n].entries = entries /\ stack'[n].todo = Top.todo \ {f}
        BY <1>1, <1>3, <2>2
      <4> QED BY <3>2, <4>1, <4>2, <4>3 DEF Takes
    <3> QED BY <3>1, <3>2
  <2> QED BY <2>1, <2>2
<1>6. ASSUME NEW g \in Files, Due(g)', WithContainers PROVE Coming(g)'
  <2>1. Due(g) /\ Coming(g)
    BY <1>6 DEF Due, Promised, Reached
  <2>2. CASE Parent[Home[g]] \in Below(Pending)
    BY <1>4, <2>2 DEF Coming
  <2>3. ASSUME NEW n \in 1 .. Len(stack), Home[g] \in stack[n].todo PROVE Coming(g)'
    <3>1. Home[g] # f
      OBVIOUS
    <3>2. Home[g] \in stack'[n].todo
      BY <1>3, <2>3, <3>1
    <3> QED BY <1>2, <3>2 DEF Coming
  <2>4. ASSUME NEW n \in 1 .. Len(stack), Takes(media, stack[n], g) PROVE Coming(g)'
    BY <1>2, <1>5, <2>1, <2>4 DEF Coming, Due
  <2>5. ASSUME NEW c \in DOMAIN containers, Holds(media, containers[c], g) PROVE Coming(g)'
    BY <2>5 DEF Coming, Holds, Lists
  <2> QED BY <2>1, <2>2, <2>3, <2>4, <2>5 DEF Coming
<1>7. \A g \in DOMAIN media' : g \notin Refused /\ Home[g] \notin Unreadable
  <2>1. Home[f] \notin Unreadable
    BY <1>1 DEF Promised
  <2>2. \A g \in DOMAIN media : g \notin Refused /\ Home[g] \notin Unreadable
    BY DEF Promised
  <2> QED BY <2>1, <2>2
<1>8. \A n \in 1 .. Len(stack') : \A g \in stack'[n].todo \cap Files : Home[g] \notin Unreadable
  <2>1. \A n \in 1 .. Len(stack) : stack'[n].todo \subseteq stack[n].todo
    BY <1>3
  <2>2. \A n \in 1 .. Len(stack) : \A g \in stack[n].todo \cap Files : Home[g] \notin Unreadable
    BY DEF Promised
  <2> QED BY <1>2, <2>1, <2>2
<1> QED BY <1>6, <1>7, <1>8 DEF Promised

LEMMA PromisedStep == Placed /\ Numbered /\ Promised /\ [Next]_vars => Promised'
<1> SUFFICES ASSUME Placed, Numbered, Promised, [Next]_vars PROVE Promised'
  OBVIOUS
<1> USE ConstantsAssumption
<1>1. CASE OpenStart
  <2> DEFINE s == starts[walked + 1]
  <2>1. /\ stack = <<>> /\ stack' = <<Frame(s, None)>> /\ walked' = walked + 1
        /\ s \in Dirs /\ walked \in Nat /\ walked < Len(starts) /\ Len(starts) \in Nat
        /\ UNCHANGED <<starts, media, containers, published>>
    BY <1>1 DEF OpenStart, Placed
  <2>2. Len(stack') = 1 /\ stack'[1].todo = Children(s)
    BY <2>1 DEF Frame
  <2>3. Below(Pending) \subseteq Below(Pending') \cup {s}
    <3>1. Pending' \subseteq Dirs
      BY <2>1, <2>2 DEF Pending, Placed
    <3>2. Pending \subseteq Pending' \cup {s}
      <4>1. \A n \in walked + 1 .. Len(starts) : n = walked + 1 \/ n \in walked' + 1 .. Len(starts)
        BY <2>1
      <4>2. Len(stack) = 0
        BY <2>1
      <4> QED BY <2>1, <4>1, <4>2 DEF Pending
    <3>3. Children(s) \cap Dirs \subseteq Pending'
      BY <2>2 DEF Pending
    <3> QED BY <2>1, <3>1, <3>2, <3>3, Opened
  <2>4. ASSUME NEW f \in Files, Due(f)', WithContainers PROVE Coming(f)'
    <3>1. Due(f) /\ Coming(f) /\ Parent[Home[f]] \notin Unreadable
      BY <2>1, <2>4 DEF Due, Promised, Reached
    <3>2. CASE Parent[Home[f]] = s
      <4>1. Home[f] \in Children(s)
        BY <3>1, <3>2 DEF Children
      <4> QED BY <2>2, <4>1 DEF Coming
    <3>3. CASE Parent[Home[f]] # s
      BY <2>1, <2>3, <3>1, <3>3 DEF Coming
    <3> QED BY <3>2, <3>3
  <2>5. \A f \in Children(s) \cap Files : Home[f] \notin Unreadable
    BY DEF Children
  <2>6. ~published
    BY <2>1 DEF Promised
  <2> QED BY <2>1, <2>2, <2>4, <2>5, <2>6 DEF Promised
<1>2. ASSUME NEW d \in Dirs, EnterDir(d) PROVE Promised'
  <2>1. /\ stack # <<>> /\ d \in Top.todo /\ UNCHANGED <<starts, walked, media, containers, published>>
        /\ Len(stack) \in 1 .. Len(stack) /\ Top \in Frames /\ Top = stack[Len(stack)]
    BY <1>2 DEF EnterDir, Placed, Sound, Top
  <2>2. /\ Len(stack') = Len(stack) + 1
        /\ stack'[Len(stack) + 1] = Frame(d, nextid)
        /\ \A n \in 1 .. Len(stack) :
             /\ stack'[n].id = stack[n].id /\ stack'[n].entries = stack[n].entries
             /\ stack'[n].dir = stack[n].dir
             /\ stack'[n].todo \subseteq stack[n].todo
             /\ stack[n].todo \subseteq stack'[n].todo \cup {d}
    BY <1>2, AfterEnter
  <2>3. Frame(d, nextid).dir = d /\ Frame(d, nextid).id = nextid /\ Frame(d, nextid).todo = Children(d)
        /\ nextid # None
    BY DEF Frame, Placed
  <2>4. \A n \in 1 .. Len(stack') : n \in 1 .. Len(stack) \/ n = Len(stack) + 1
    BY <2>2, <2>1
  <2>5. 1 .. Len(stack) \subseteq 1 .. Len(stack') /\ Len(stack) + 1 \in 1 .. Len(stack')
    BY <2>1, <2>2
  <2>6. Below(Pending) \subseteq Below(Pending') \cup {d}
    <3>1. Pending' \subseteq Dirs
      BY <2>1 DEF Pending, Placed
    <3>2. Pending \subseteq Pending' \cup {d}
      BY <2>1, <2>2, <2>5 DEF Pending
    <3>3. Children(d) \cap Dirs \subseteq Pending'
      BY <2>2, <2>3, <2>5 DEF Pending
    <3> QED BY <3>1, <3>2, <3>3, Opened
  <2>7. ASSUME NEW f \in Files, Due(f)', WithContainers PROVE Coming(f)'
    <3>1. Due(f) /\ Coming(f) /\ Parent[Home[f]] \notin Unreadable /\ Home[f] \notin Unreadable
          /\ Home[f] \in Dirs /\ f # d
      BY <2>1, <2>7 DEF Due, Promised, Reached
    <3>2. CASE Parent[Home[f]] = d
      <4>1. Home[f] \in Children(d)
        BY <3>1, <3>2 DEF Children
      <4> QED BY <2>2, <2>3, <2>5, <4>1 DEF Coming
    <3>3. CASE Parent[Home[f]] # d /\ Parent[Home[f]] \in Below(Pending)
      BY <2>6, <3>3 DEF Coming
    <3>4. CASE Home[f] = d
      <4>1. Takes(media', stack'[Len(stack) + 1], f)
        BY <2>2, <2>3, <3>1, <3>4 DEF Takes, Children
      <4> QED BY <2>5, <4>1 DEF Coming
    <3>5. ASSUME Home[f] # d, NEW n \in 1 .. Len(stack), Home[f] \in stack[n].todo PROVE Coming(f)'
      BY <2>2, <2>5, <3>5 DEF Coming
    <3>6. ASSUME NEW n \in 1 .. Len(stack), Takes(media, stack[n], f) PROVE Coming(f)'
      <4>1. Takes(media', stack'[n], f)
        BY <2>1, <2>2, <3>1, <3>6 DEF Takes, Lists
      <4> QED BY <2>5, <4>1 DEF Coming
    <3>7. ASSUME NEW c \in DOMAIN containers, Holds(media, containers[c], f) PROVE Coming(f)'
      BY <2>1, <3>7 DEF Coming
    <3> QED BY <3>1, <3>2, <3>3, <3>4, <3>5, <3>6, <3>7 DEF Coming
  <2>8. \A f \in Children(d) \cap Files : Home[f] \notin Unreadable
    BY DEF Children
  <2>9. \A n \in 1 .. Len(stack') : \A f \in stack'[n].todo \cap Files : Home[f] \notin Unreadable
    BY <2>2, <2>3, <2>4, <2>8 DEF Promised
  <2>10. ~published
    BY <2>1 DEF Promised
  <2> QED BY <2>1, <2>7, <2>9, <2>10 DEF Promised
<1>3. ASSUME NEW f \in Files, ReadKnown(f) \/ ReadNew(f) \/ ReadRefused(f) PROVE Promised'
  <2>1. /\ stack # <<>> /\ f \in Top.todo /\ UNCHANGED <<starts, walked, containers, published>>
        /\ ~published
    BY <1>3 DEF ReadKnown, ReadNew, ReadRefused, Promised
  <2>2. Top.entries \in Seq(Nat)
    <3>1. Len(stack) \in 1 .. Len(stack)
      BY <2>1 DEF Placed
    <3> QED BY <3>1 DEF Placed, Sound, Frames, Top
  <2>3. ASSUME NEW id \in Nat
        PROVE  /\ WithEntry(id) \in Seq(Nat)
               /\ \A i \in DOMAIN Top.entries :
                    i \in DOMAIN WithEntry(id) /\ WithEntry(id)[i] = Top.entries[i]
               /\ Top.id # None => \E i \in DOMAIN WithEntry(id) : WithEntry(id)[i] = id
    <3>1. LET longer == Append(Top.entries, id)
          IN  /\ longer \in Seq(Nat)
              /\ \A i \in DOMAIN Top.entries : i \in DOMAIN longer /\ longer[i] = Top.entries[i]
              /\ Len(Top.entries) + 1 \in DOMAIN longer /\ longer[Len(Top.entries) + 1] = id
      BY <2>2
    <3> QED BY <2>2, <3>1 DEF WithEntry
  <2>4. CASE ReadKnown(f)
    <3>1. f \in DOMAIN media /\ media[f] \in Nat /\ Read(f, WithEntry(media[f])) /\ media' = media
      BY <2>4 DEF ReadKnown, Placed, Database
    <3>2. Top.id # None => Lists(media', WithEntry(media[f]), f)
      BY <2>3, <3>1 DEF Lists
    <3> QED BY <2>1, <2>3, <3>1, <3>2, PromisedRead
  <2>5. CASE ReadNew(f)
    <3>1. /\ nextmedia \in Nat /\ Read(f, WithEntry(nextmedia)) /\ f \notin Refused
          /\ f \notin DOMAIN media
          /\ media' = [g \in DOMAIN media \cup {f} |-> IF g = f THEN nextmedia ELSE media[g]]
      BY <2>5 DEF ReadNew, Placed
    <3>2. /\ \A g \in DOMAIN media : g \in DOMAIN media' /\ media'[g] = media[g]
          /\ DOMAIN media' \subseteq DOMAIN media \cup ({f} \ Refused)
          /\ f \in DOMAIN media' /\ media'[f] = nextmedia
      BY <3>1
    <3>3. Top.id # None => Lists(media', WithEntry(nextmedia), f)
      BY <2>3, <3>1, <3>2 DEF Lists
    <3> QED BY <2>1, <2>3, <3>1, <3>2, <3>3, PromisedRead
  <2>6. CASE ReadRefused(f)
    <3>1. f \in Refused /\ Read(f, Top.entries) /\ media' = media
      BY <2>6 DEF ReadRefused
    <3> QED BY <2>1, <2>2, <3>1, PromisedRead
  <2> QED BY <1>3, <2>4, <2>5, <2>6
<1>4. CASE CloseDir
  <2>1. /\ Top.todo = {} /\ UNCHANGED <<starts, walked, media, published>> /\ ~published
        /\ Len(stack) \in 1 .. Len(stack) /\ Top = stack[Len(stack)]
    BY <1>4, AfterClose DEF CloseDir, Promised
  <2>2. /\ Len(stack') = Len(stack) - 1
        /\ \A n \in 1 .. Len(stack') : n \in 1 .. Len(stack) /\ stack'[n] = stack[n]
    BY <1>4, AfterClose
  <2>3. \A n \in 1 .. Len(stack) : n \in 1 .. Len(stack') \/ n = Len(stack)
    BY <2>1, <2>2
  <2>4. Pending' = Pending
    <3>1. UNION {stack'[n].todo \cap Dirs : n \in 1 .. Len(stack')}
            = UNION {stack[n].todo \cap Dirs : n \in 1 .. Len(stack)}
      <4>1. ASSUME NEW n \in 1 .. Len(stack), NEW e \in stack[n].todo
            PROVE  n \in 1 .. Len(stack') /\ stack'[n] = stack[n]
        BY <2>1, <2>2, <2>3, <4>1
      <4> QED BY <2>2, <4>1
    <3> QED BY <2>1, <3>1 DEF Pending
  <2>5. \A c \in DOMAIN containers : c \in DOMAIN containers' /\ containers'[c] = containers[c]
    <3>1. Top.id # None => Top.id \notin DOMAIN containers
      BY <2>1 DEF Numbered
    <3> QED BY <1>4, <3>1 DEF CloseDir, IsKept
  <2>6. IsKept(Top) => /\ Top.id \in DOMAIN containers'
                       /\ containers'[Top.id] = [dir |-> Top.dir, entries |-> Top.entries]
    BY <1>4 DEF CloseDir
  <2>7. ASSUME NEW f \in Files, Due(f)', WithContainers PROVE Coming(f)'
    <3>1. Due(f) /\ Coming(f)
      BY <2>1, <2>7 DEF Due, Promised, Reached
    <3>2. CASE Parent[Home[f]] \in Below(Pending)
      BY <2>4, <3>2 DEF Coming
    <3>3. ASSUME NEW n \in 1 .. Len(stack), Home[f] \in stack[n].todo PROVE Coming(f)'
      BY <2>1, <2>2, <2>3, <3>3 DEF Coming
    <3>4. ASSUME NEW n \in 1 .. Len(stack), Takes(media, stack[n], f) PROVE Coming(f)'
      <4>1. CASE n \in 1 .. Len(stack')
        BY <2>1, <2>2, <3>4, <4>1 DEF Coming
      <4>2. CASE n = Len(stack)
        <5>1. Top.dir = Home[f] /\ Top.id # None /\ Lists(media, Top.entries, f)
          BY <2>1, <3>4, <4>2 DEF Takes
        <5>2. Top.entries # <<>>
          BY <5>1 DEF Lists
        <5>3. IsKept(Top)
          BY <2>7, <5>1, <5>2 DEF IsKept
        <5>4. Holds(media', containers'[Top.id], f)
          BY <2>1, <2>6, <5>1, <5>3 DEF Holds
        <5> QED BY <2>6, <5>3, <5>4 DEF Coming
      <4> QED BY <2>3, <4>1, <4>2
    <3>5. ASSUME NEW c \in DOMAIN containers, Holds(media, containers[c], f) PROVE Coming(f)'
      BY <2>1, <2>5, <3>5 DEF Coming
    <3> QED BY <3>1, <3>2, <3>3, <3>4, <3>5 DEF Coming
  <2> QED BY <2>1, <2>2, <2>7 DEF Promised
<1>5. CASE Publish \/ UNCHANGED vars
  <2>1. /\ UNCHANGED <<starts, walked, stack, media, containers>>
        /\ published' => published \/ (stack = <<>> /\ walked = Len(starts))
    BY <1>5 DEF Publish, vars
  <2>2. \A f \in Files : (Due(f)' => Due(f)) /\ (Coming(f) => Coming(f)')
    BY <2>1 DEF Due, Reached, Coming, Pending
  <2> QED BY <2>1, <2>2 DEF Promised
<1> QED BY <1>1, <1>2, <1>3, <1>4, <1>5 DEF Next, Walk, Served

(* No directory below one that was walked lacks its container, or the      *)
(* container a file, whichever way the walk came to it first.              *)
THEOREM AllAlwaysContained == Spec => []AllContained
<1>1. Placed /\ Promised => AllContained
  <2> SUFFICES ASSUME Placed, Promised, published, WithContainers, NEW f \in DOMAIN media,
                      Parent[Home[f]] \in Reached \ Unreadable
               PROVE  \E c \in DOMAIN containers :
                         containers[c].dir = Home[f] /\ media[f] \in EntriesOf(c)
    BY DEF AllContained
  <2>1. stack = <<>> /\ walked = Len(starts) /\ Len(stack) = 0 /\ walked \in Nat
    BY DEF Promised, Placed
  <2>2. Pending = {}
    BY <2>1 DEF Pending
  <2>3. f \in Files /\ Due(f)
    BY DEF Placed, Database, Promised, Due
  <2>4. Coming(f)
    BY <2>3 DEF Promised
  <2>5. PICK c \in DOMAIN containers : Holds(media, containers[c], f)
    BY <2>1, <2>2, <2>4, NothingBelow DEF Coming
  <2> QED BY <2>5 DEF Holds, Lists, EntriesOf, ToSet
<1> QED BY <1>1, CountedInvariant, PromisedInit, PromisedStep, PTL DEF Spec
=============================================================================
