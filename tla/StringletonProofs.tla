-------------------------- MODULE StringletonProofs --------------------------
(* What holds of Stringleton for all records, fields and strings. *)
EXTENDS Stringleton, FiniteSetTheorems, TLAPS

(* A record that is not live points to nothing, and a string is counted at *)
(* least as often as it is pointed to.  NoneFreed alone is not inductive:  *)
(* it says nothing of a string with two holders and a count of one.        *)
Covered ==
    /\ \A h \in Slots : h[1] \notin live => hold[h] = None
    /\ \A s \in Strings : count[s] >= Cardinality(Holders(s))

Counted == TypeOK /\ Covered /\ NothingKept

(* A count that covers m users covers the k left when n of them are gone,  *)
(* and is exact if it was.                                                 *)
LEMMA LessUsers ==
    ASSUME NEW c \in Nat, NEW n \in Nat
    PROVE  /\ Less(c, n) \in Nat
           /\ \A m, k \in Nat :
                /\ c >= m /\ k <= m - n => Less(c, n) >= k
                /\ c = m /\ k = m - n => Less(c, n) = k
BY DEF Less

(* The holders of a string are finitely many. *)
LEMMA HoldersFinite ==
    ASSUME NEW T, T \subseteq Slots
    PROVE  IsFiniteSet(T) /\ Cardinality(T) \in Nat
<1>1. IsFiniteSet(Slots)
  BY FS_Product, ConstantsAssumption DEF Slots
<1>2. IsFiniteSet(T)
  BY <1>1, FS_Subset
<1> QED BY <1>2, FS_CardinalityType

(* What a slot that changes hands does to the number of a string's holders. *)
LEMMA OneSlotChanges ==
    ASSUME TypeOK, NEW h \in Slots, NEW v \in Strings \cup {None},
           hold' = [hold EXCEPT ![h] = v], NEW s \in Strings
    PROVE  Cardinality(Holders(s))' =
             IF hold[h] = s
             THEN IF v = s THEN Cardinality(Holders(s)) ELSE Cardinality(Holders(s)) - 1
             ELSE IF v = s THEN Cardinality(Holders(s)) + 1 ELSE Cardinality(Holders(s))
<1>1. IsFiniteSet(Holders(s)) /\ IsFiniteSet(Holders(s) \ {h})
  BY HoldersFinite DEF Holders
<1>2. Holders(s)' = IF v = s THEN (Holders(s) \ {h}) \cup {h} ELSE Holders(s) \ {h}
  BY DEF Holders, TypeOK
<1>3. Cardinality(Holders(s) \ {h}) =
        IF hold[h] = s THEN Cardinality(Holders(s)) - 1 ELSE Cardinality(Holders(s))
  BY <1>1, FS_RemoveElement DEF Holders
<1>4. Cardinality((Holders(s) \ {h}) \cup {h}) = Cardinality(Holders(s) \ {h}) + 1
  BY <1>1, FS_AddElement
<1>5. Cardinality(Holders(s)) \in Nat
  BY HoldersFinite DEF Holders
<1>6. CASE v = s
  BY <1>2, <1>3, <1>4, <1>5, <1>6
<1>7. CASE v # s
  BY <1>2, <1>3, <1>5, <1>7
<1> QED BY <1>6, <1>7

LEMMA CountedInit == Init => Counted
<1> SUFFICES ASSUME Init PROVE Counted
  OBVIOUS
<1>1. TypeOK
  BY DEF Init, TypeOK
<1>2. \A s \in Strings : Holders(s) = {}
  BY ConstantsAssumption DEF Init, Holders
<1>3. \A s \in Strings : count[s] = 0 /\ Cardinality(Holders(s)) = 0
  BY <1>2, FS_EmptySet DEF Init
<1>4. \A h \in Slots : hold[h] = None
  BY DEF Init
<1> QED BY <1>1, <1>3, <1>4 DEF Counted, Covered, NothingKept

LEMMA CountedStep == Counted /\ [Next]_vars => Counted'
<1> SUFFICES ASSUME Counted, [Next]_vars PROVE Counted'
  OBVIOUS
<1> USE DEF Counted
<1>0. \A s \in Strings : Cardinality(Holders(s)) \in Nat /\ count[s] \in Nat
  BY HoldersFinite DEF Holders, TypeOK
<1>1. ASSUME NEW r \in Records, New(r) PROVE Counted'
  BY <1>1 DEF New, TypeOK, Covered, NothingKept, Holders
<1>2. ASSUME NEW r \in Records, NEW f \in Fields, NEW s \in Strings, SetProperty(r, f, s)
      PROVE  Counted'
  <2> DEFINE h == <<r, f>>
  <2>1. h \in Slots /\ h[1] = r /\ r \in live /\ live' = live
    BY <1>2 DEF SetProperty, Slots
  <2>2. hold' = [hold EXCEPT ![h] = s]
    BY <1>2 DEF SetProperty
  <2>3. count' = Ref(Unref(count, hold[h]), s)
    BY <1>2 DEF SetProperty
  <2>4. count' = [t \in Strings |->
                    (IF t = hold[h] THEN Less(count[t], 1) ELSE count[t])
                      + (IF t = s THEN 1 ELSE 0)]
    <3> HIDE DEF h
    <3>1. Unref(count, hold[h]) =
            [t \in Strings |-> IF t = hold[h] THEN Less(count[t], 1) ELSE count[t]]
      BY DEF Unref
    <3>2. \A t \in Strings : Less(count[t], 1) \in Nat
      BY <1>0, LessUsers
    <3> QED BY <2>3, <1>0, <3>1, <3>2 DEF Ref
  <2>10. tidy' = tidy
    BY <1>2 DEF SetProperty
  <2>5. TypeOK'
    BY <2>1, <2>2, <2>4, <2>10, <1>0 DEF TypeOK, Less
  <2>6. \A t \in Strings : Cardinality(Holders(t))' =
          IF hold[h] = t
          THEN IF s = t THEN Cardinality(Holders(t)) ELSE Cardinality(Holders(t)) - 1
          ELSE IF s = t THEN Cardinality(Holders(t)) + 1 ELSE Cardinality(Holders(t))
    BY <2>1, <2>2, OneSlotChanges
  <2>7. \A t \in Strings : hold[h] = t => Cardinality(Holders(t)) > 0
    BY <2>1, <1>0, HoldersFinite, FS_EmptySet DEF Holders
  <2>8. ASSUME NEW t \in Strings
        PROVE  /\ count'[t] >= Cardinality(Holders(t))'
               /\ count[t] = Cardinality(Holders(t)) => count'[t] = Cardinality(Holders(t))'
    BY <1>0, <2>4, <2>6, <2>7 DEF Less, Covered
  <2>9. \A g \in Slots : g[1] \notin live' => hold'[g] = None
    BY <2>1, <2>2 DEF Covered, TypeOK
  <2> QED BY <2>5, <2>8, <2>9, <2>10 DEF Covered, NothingKept
<1>3. ASSUME NEW r \in Records, NEW f \in Fields, ClearProperty(r, f)
      PROVE  Counted'
  <2> DEFINE h == <<r, f>>
  <2>1. h \in Slots /\ h[1] = r /\ r \in live /\ live' = live /\ f \in Unreleased
    BY <1>3 DEF ClearProperty, Slots
  <2>2. hold' = [hold EXCEPT ![h] = None] /\ count' = Unref(count, hold[h])
    BY <1>3 DEF ClearProperty
  <2>7. tidy' = tidy
    BY <1>3 DEF ClearProperty
  <2>3. TypeOK'
    BY <2>1, <2>2, <2>7, <1>0 DEF TypeOK, Unref, Less
  <2>4. \A t \in Strings : Cardinality(Holders(t))' =
          IF hold[h] = t THEN Cardinality(Holders(t)) - 1 ELSE Cardinality(Holders(t))
    <3>1. None \notin Strings /\ None \in Strings \cup {None}
      BY ConstantsAssumption
    <3> HIDE DEF h
    <3>2. ASSUME NEW t \in Strings
          PROVE  Cardinality(Holders(t))' =
                   IF hold[h] = t THEN Cardinality(Holders(t)) - 1 ELSE Cardinality(Holders(t))
      BY <2>1, <2>2, <3>1, OneSlotChanges
    <3> QED BY <3>2
  <2>5. ASSUME NEW t \in Strings
        PROVE  /\ count'[t] >= Cardinality(Holders(t))'
               /\ count[t] = Cardinality(Holders(t)) => count'[t] = Cardinality(Holders(t))'
    <3>1. hold[h] = t => Cardinality(Holders(t)) > 0
      BY <2>1, <1>0, HoldersFinite, FS_EmptySet DEF Holders
    <3> QED BY <1>0, <2>2, <2>4, <3>1 DEF Unref, Less, Covered
  <2>6. \A g \in Slots : g[1] \notin live' => hold'[g] = None
    BY <2>1, <2>2 DEF Covered, TypeOK
  <2> QED BY <2>3, <2>5, <2>6, <2>7 DEF Covered, NothingKept
<1>4. ASSUME NEW r \in Records, Finalize(r) PROVE Counted'
  <2>1. hold' = [h \in Slots |-> IF h[1] = r THEN None ELSE hold[h]]
    BY <1>4 DEF Finalize
  <2>2. live' = live \ {r} /\ count' = [s \in Strings |-> Less(count[s], Cardinality(Given(r, s)))]
    BY <1>4 DEF Finalize
  <2>t. tidy' = (tidy /\ \A f \in Unreleased : hold[<<r, f>>] = None)
    BY <1>4 DEF Finalize
  <2>3. ASSUME NEW s \in Strings
        PROVE  /\ Given(r, s) \subseteq Holders(s)
               /\ Holders(s)' \subseteq Holders(s) \ Given(r, s)
               /\ tidy' => Holders(s)' = Holders(s) \ Given(r, s)
    <3>1. Given(r, s) \subseteq Holders(s)
      BY DEF Given, Holders, Slots
    <3>2. \A h \in Given(r, s) : h[1] = r
      BY DEF Given
    <3>3. \A h \in Slots : h[1] = r => h \in {r} \X Fields
      BY DEF Slots
    <3>4. Holders(s)' = {h \in Holders(s) : h[1] # r}
      BY <2>1, ConstantsAssumption DEF Holders
    <3>5. tidy' => \A h \in Holders(s) : h[1] = r => h \in Given(r, s)
      <4>1. \A f \in Unreleased : tidy' => hold[<<r, f>>] # s
        BY <2>t, ConstantsAssumption
      <4> QED BY <3>3, <4>1 DEF Given, Holders
    <3> QED BY <3>1, <3>2, <3>4, <3>5
  <2>4. ASSUME NEW s \in Strings
        PROVE  /\ Cardinality(Given(r, s)) \in Nat
               /\ Cardinality(Holders(s) \ Given(r, s)) =
                    Cardinality(Holders(s)) - Cardinality(Given(r, s))
               /\ Cardinality(Holders(s))' <= Cardinality(Holders(s) \ Given(r, s))
               /\ Cardinality(Holders(s))' \in Nat
    <3>1. Holders(s) \subseteq Slots /\ IsFiniteSet(Holders(s))
      BY HoldersFinite DEF Holders
    <3>2. IsFiniteSet(Holders(s) \ Given(r, s))
      BY <3>1, FS_Difference
    <3>3. Holders(s) \cap Given(r, s) = Given(r, s)
      BY <2>3
    <3>4. Given(r, s) \subseteq Slots /\ Holders(s)' \subseteq Slots
      BY <2>3, <3>1
    <3>5. Holders(s)' \subseteq Holders(s) \ Given(r, s)
      BY <2>3
    <3>6. Cardinality(Given(r, s)) \in Nat /\ Cardinality(Holders(s))' \in Nat
      BY <3>4, HoldersFinite
    <3>7. Cardinality(Holders(s))' <= Cardinality(Holders(s) \ Given(r, s))
      BY <3>2, <3>5, FS_Subset
    <3>8. Cardinality(Holders(s) \ Given(r, s)) =
            Cardinality(Holders(s)) - Cardinality(Given(r, s))
      BY <3>1, <3>3, FS_Difference
    <3> QED BY <3>6, <3>7, <3>8
  <2>5. TypeOK'
    <3>1. live' \subseteq Records
      BY <2>2 DEF TypeOK
    <3>2. hold' \in [Slots -> Strings \cup {None}]
      BY <2>1 DEF TypeOK
    <3>3. \A s \in Strings : Less(count[s], Cardinality(Given(r, s))) \in Nat
      BY <2>4, <1>0, LessUsers
    <3> QED BY <3>1, <3>2, <3>3, <2>2, <2>t DEF TypeOK
  <2>6. ASSUME NEW s \in Strings
        PROVE  /\ count'[s] >= Cardinality(Holders(s))'
               /\ tidy' => count'[s] = Cardinality(Holders(s))'
    <3>1. count'[s] = Less(count[s], Cardinality(Given(r, s)))
      BY <2>2
    <3>2. count[s] >= Cardinality(Holders(s))
      BY DEF Covered
    <3>3. tidy' =>
            /\ count[s] = Cardinality(Holders(s))
            /\ Cardinality(Holders(s))' = Cardinality(Holders(s) \ Given(r, s))
      BY <2>3, <2>t DEF NothingKept
    <3>4. Cardinality(Holders(s))' <= Cardinality(Holders(s)) - Cardinality(Given(r, s))
      BY <2>4
    <3> DEFINE m == Cardinality(Holders(s))  n == Cardinality(Given(r, s))
               k == Cardinality(Holders(s))'
    <3>5. m \in Nat /\ n \in Nat /\ k \in Nat /\ count[s] \in Nat
      BY <2>4, <1>0
    <3>6. tidy' => count[s] = m /\ k = m - n
      BY <3>3, <2>4
    <3> HIDE DEF m, n, k
    <3>7. Less(count[s], n) >= k /\ (tidy' => Less(count[s], n) = k)
      BY <3>2, <3>4, <3>5, <3>6, LessUsers DEF m, n, k
    <3> QED BY <3>1, <3>7 DEF n, k
  <2>7. \A h \in Slots : h[1] \notin live' => hold'[h] = None
    BY <2>1, <2>2 DEF Covered
  <2> QED BY <2>5, <2>6, <2>7 DEF Covered, NothingKept
<1>5. CASE UNCHANGED vars
  BY <1>5 DEF vars, TypeOK, Covered, NothingKept, Holders
<1> QED BY <1>1, <1>2, <1>3, <1>4, <1>5 DEF Next

(* Every reachable state has counts that cover the holders: stringleton_ref *)
(* and stringleton_unref are called in pairs by the records.                *)
THEOREM CountedInvariant == Spec => []Counted
BY CountedInit, CountedStep, PTL DEF Spec

(* A string that a record points to is never freed. *)
THEOREM NoneEverFreed == Spec => []NoneFreed
<1>1. Counted => NoneFreed
  <2> SUFFICES ASSUME Counted, NEW h \in Slots, hold[h] # None
               PROVE  count[hold[h]] > 0
    BY DEF NoneFreed
  <2>1. hold[h] \in Strings /\ h \in Holders(hold[h])
    BY DEF Counted, TypeOK, Holders
  <2>2. IsFiniteSet(Holders(hold[h])) /\ Cardinality(Holders(hold[h])) \in Nat
    BY HoldersFinite DEF Holders
  <2>3. Cardinality(Holders(hold[h])) # 0
    BY <2>1, <2>2, FS_EmptySet
  <2> QED BY <2>1, <2>2, <2>3 DEF Counted, Covered, TypeOK
<1> QED BY <1>1, CountedInvariant, PTL

(* Until a record with a sort field is finalized nothing is kept for       *)
(* records that are gone: the table holds exactly the strings in use.      *)
THEOREM NothingEverKept == Spec => []NothingKept
BY CountedInvariant, PTL DEF Counted
=============================================================================
