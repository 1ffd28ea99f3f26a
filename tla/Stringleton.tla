----------------------------- MODULE Stringleton -----------------------------
(***************************************************************************)
(* The table of shared strings (util.c).  Most songs of an album have the  *)
(* same album, artist, genre and format, so records do not keep copies:    *)
(* stringleton_ref returns the table's copy and counts one more user,      *)
(* stringleton_unref counts one less and frees the copy with the last.     *)
(* The counts are right only if the records (dmapd-daap-record.c,          *)
(* dmapd-dpap-record.c) unref what they give up, once: a count too low     *)
(* frees a string that some other record still points to.                  *)
(***************************************************************************)
EXTENDS Naturals, FiniteSets

CONSTANTS
    Records,     \* the record objects
    Fields,      \* the properties kept as shared strings
    Unreleased,  \* those finalize does not unref: sort_album, sort_artist
    Strings,     \* the values
    MaxCount,    \* the largest count (a pointer's width in the program)
    None         \* the NULL pointer

ASSUME ConstantsAssumption ==
    /\ IsFiniteSet(Records) /\ IsFiniteSet(Fields)
    /\ Unreleased \subseteq Fields
    /\ MaxCount \in Nat
    /\ None \notin Strings

VARIABLES
    live,   \* the records that have been made and not yet finalized
    hold,   \* <<record, field>> -> the string it points to, or None
    count,  \* string -> its count in the table, 0 when it is not there
    tidy    \* so far no record with a sort field was finalized (a history)

vars == <<live, hold, count, tidy>>

Slots == Records \X Fields

-----------------------------------------------------------------------------
(* Slips. *)

(* >= for >. *)
Slip_Less(c, n) == IF c > n + 1 THEN c - n ELSE 0

(* The old value is not unreffed. *)
Slip_Unref(cnt, s) == cnt

-----------------------------------------------------------------------------
(* The count of a string after n calls of stringleton_unref.  An unknown   *)
(* string is passed over.                                                  *)
Less(c, n) == IF c > n THEN c - n ELSE 0

Ref(cnt, s) == [cnt EXCEPT ![s] = @ + 1]

Unref(cnt, s) ==
    [t \in Strings |-> IF t = s THEN Less(cnt[t], 1) ELSE cnt[t]]

(* The slots of r that finalize unrefs and that point to s.                *)
Given(r, s) == {h \in {r} \X (Fields \ Unreleased) : hold[h] = s}

Init ==
    /\ live = {}
    /\ hold = [h \in Slots |-> None]
    /\ count = [s \in Strings |-> 0]
    /\ tidy = TRUE

(* g_object_new: all properties are NULL.                                  *)
New(r) ==
    /\ r \notin live
    /\ live' = live \cup {r}
    /\ UNCHANGED <<hold, count, tidy>>

(* The old string is given up before the new one is taken; they may be the *)
(* same one.                                                               *)
SetProperty(r, f, s) ==
    /\ r \in live /\ count[s] < MaxCount
    /\ hold' = [hold EXCEPT ![<<r, f>>] = s]
    /\ count' = Ref(Unref(count, hold[<<r, f>>]), s)
    /\ UNCHANGED <<live, tidy>>

(* Only the sort fields can be set to NULL.                                *)
ClearProperty(r, f) ==
    /\ r \in live /\ f \in Unreleased
    /\ hold' = [hold EXCEPT ![<<r, f>>] = None]
    /\ count' = Unref(count, hold[<<r, f>>])
    /\ UNCHANGED <<live, tidy>>

Finalize(r) ==
    /\ r \in live
    /\ live' = live \ {r}
    /\ hold' = [h \in Slots |-> IF h[1] = r THEN None ELSE hold[h]]
    /\ count' = [s \in Strings |-> Less(count[s], Cardinality(Given(r, s)))]
    /\ tidy' = (tidy /\ \A f \in Unreleased : hold[<<r, f>>] = None)

Next ==
    \E r \in Records :
        \/ New(r)
        \/ \E f \in Fields, s \in Strings : SetProperty(r, f, s)
        \/ \E f \in Fields : ClearProperty(r, f)
        \/ Finalize(r)

Spec == Init /\ [][Next]_vars

-----------------------------------------------------------------------------
TypeOK ==
    /\ live \subseteq Records
    /\ hold \in [Slots -> Strings \cup {None}]
    /\ count \in [Strings -> Nat]
    /\ tidy \in BOOLEAN

Holders(s) == {h \in Slots : hold[h] = s}

(* A string some record points to has not been freed (stringleton_unref    *)
(* frees it with its last user), whatever the other records that shared it *)
(* did since.                                                              *)
NoneFreed == \A h \in Slots : hold[h] # None => count[hold[h]] > 0

(* As long as no record that has a sort field is finalized, a string is in *)
(* the table just as often as it is pointed to: nothing is kept for records*)
(* that are gone.                                                          *)
NothingKept == tidy => \A s \in Strings : count[s] = Cardinality(Holders(s))
=============================================================================
