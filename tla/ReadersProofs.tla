----------------------------- MODULE ReadersProofs -----------------------------
(***************************************************************************)
(* Proofs about the two kinds of readers.  Of photographs: the arithmetic  *)
(* of the thumbnail's size for every size of a photograph and every width, *)
(* the references to images, and the cache.  Of music: the idle sources,   *)
(* and when a pipeline is paused.  Both hold of the readers together.      *)
(***************************************************************************)
EXTENDS Readers, SequenceTheorems, TLAPS

-----------------------------------------------------------------------------
(* Division.                                                               *)

(* The quotient is the last that fits.                                     *)
LEMMA DivBounds ==
    ASSUME NEW a \in Nat, NEW b \in Nat \ {0}
    PROVE  a \div b \in Nat /\ (a \div b) * b <= a /\ a < (a \div b + 1) * b
BY SMT

(* What fits is at most the quotient.                                      *)
LEMMA DivAtLeast ==
    ASSUME NEW a \in Nat, NEW b \in Nat \ {0}, NEW q \in Nat, q * b <= a
    PROVE  a \div b >= q
<1>1. a \div b \in Nat /\ a < (a \div b + 1) * b
  BY DivBounds
<1>2. SUFFICES ASSUME a \div b < q PROVE FALSE
  BY <1>1, SMT
<1>3. a \div b + 1 <= q
  BY <1>1, <1>2, SMT
<1>4. (a \div b + 1) * b <= q * b
  BY <1>1, <1>3, SMT
<1> QED
  BY <1>1, <1>4, SMT

(* What does not fit is more than the quotient.                            *)
LEMMA DivAtMost ==
    ASSUME NEW a \in Nat, NEW b \in Nat \ {0}, NEW q \in Nat, a < (q + 1) * b
    PROVE  a \div b <= q
<1>1. a \div b \in Nat /\ (a \div b) * b <= a
  BY DivBounds
<1>2. SUFFICES ASSUME a \div b > q PROVE FALSE
  BY <1>1, SMT
<1>3. (q + 1) * b <= (a \div b) * b
  BY <1>1, <1>2, SMT
<1> QED
  BY <1>1, <1>3, SMT

(* A larger number has no smaller quotient, and none is larger than its    *)
(* number.                                                                 *)
LEMMA DivMonotone ==
    ASSUME NEW a \in Nat, NEW c \in Nat, NEW b \in Nat \ {0}, a <= c
    PROVE  a \div b <= c \div b /\ a \div b <= a
<1>1. a \div b \in Nat /\ (a \div b) * b <= a
  BY DivBounds
<1>2. (a \div b) * b <= c
  BY <1>1, SMT
<1>3. a \div b <= (a \div b) * b
  BY <1>1, SMT
<1> QED
  BY <1>1, <1>2, <1>3, DivAtLeast, SMT

(* Rounding a proportion: of the whole it gives the limit, of a part no    *)
(* more.                                                                   *)
LEMMA NearestBounds ==
    ASSUME NEW x \in Nat, NEW whole \in Nat \ {0}, NEW limit \in Nat, x <= whole
    PROVE  /\ Nearest(x * limit, whole) \in Nat
           /\ Nearest(x * limit, whole) <= limit
           /\ Nearest(whole * limit, whole) = limit
<1>1. x * limit \in Nat /\ whole * limit \in Nat /\ x * limit <= whole * limit
  BY SMT
<1> DEFINE a == 2 * (x * limit) + whole
           c == 2 * (whole * limit) + whole
           b == 2 * whole
<1>2. a \in Nat /\ c \in Nat /\ b \in Nat \ {0} /\ a <= c
  BY <1>1, SMT
<1>3. limit * b = 2 * (whole * limit) /\ (limit + 1) * b = 2 * (whole * limit) + b
  BY SMT
<1>4. limit * b <= c /\ c < (limit + 1) * b
  BY <1>1, <1>3, SMT
<1>5. c \div b \in Nat /\ a \div b \in Nat
  BY <1>2, DivBounds
<1>6. c \div b = limit
  <2>1. c \div b >= limit
    BY <1>2, <1>4, DivAtLeast
  <2>2. c \div b <= limit
    BY <1>2, <1>4, DivAtMost
  <2> QED
    BY <1>5, <2>1, <2>2, SMT
<1>7. a \div b <= limit
  BY <1>2, <1>6, DivMonotone
<1> QED
  BY <1>5, <1>6, <1>7 DEF Nearest

-----------------------------------------------------------------------------
(* The size of the thumbnail.                                              *)

LEMMA LimitPositive == TypeOK => Limit \in Nat \ {0}
BY ConstantsAssumption DEF TypeOK, Limit

LEMMA LongerOf ==
    ASSUME NEW size \in Sizes
    PROVE  /\ Longer(size) \in Nat \ {0}
           /\ size.w <= Longer(size) /\ size.h <= Longer(size)
           /\ Longer(size) \in {size.w, size.h}
BY DEF Sizes, Longer

(* The integer shrink is at least 1; it leaves the limit if that is there. *)
LEMMA ShrinkBounds ==
    ASSUME TypeOK, NEW size \in Sizes
    PROVE  /\ Shrink(size) \in Nat \ {0}
           /\ Shrink(size) <= Longer(size)
           /\ Longer(size) >= Limit => Shrink(size) * Limit <= Longer(size)
<1>1. Limit \in Nat \ {0} /\ Longer(size) \in Nat \ {0}
  BY LimitPositive, LongerOf
<1>2. CASE Longer(size) < Limit
  BY <1>1, <1>2 DEF Shrink
<1>3. CASE Longer(size) >= Limit
  <2> DEFINE q == Longer(size) \div Limit
  <2>1. q \in Nat /\ q * Limit <= Longer(size) /\ q <= Longer(size)
    BY <1>1, DivBounds, DivMonotone
  <2>2. 1 * Limit <= Longer(size)
    BY <1>1, <1>3
  <2>3. q >= 1
    BY <1>1, <2>2, DivAtLeast
  <2>4. Shrink(size) = q
    BY <1>1, <1>3 DEF Shrink
  <2> QED
    BY <2>1, <2>3, <2>4
<1> QED
  BY <1>1, <1>2, <1>3

(* Shrunk by an integer and scaled by the residual, the longer side is the *)
(* limit and the other no longer.                                          *)
LEMMA ScaledFits ==
    ASSUME TypeOK, NEW size \in Sizes
    PROVE  Scaled(size) \in [w : Nat, h : Nat] /\ Longer(Scaled(size)) = Limit
<1> DEFINE q == Shrink(size)
           a == size.w \div q
           b == size.h \div q
<1>1. Limit \in Nat \ {0} /\ q \in Nat \ {0} /\ q <= Longer(size) /\ Longer(size) \in Nat \ {0}
  BY LimitPositive, ShrinkBounds, LongerOf
<1>2. size.w \in Nat /\ size.h \in Nat
  BY DEF Sizes
<1>3. Whole(size) \in Nat \ {0}
  <2>1. 1 * q <= Longer(size)
    BY <1>1
  <2>2. Longer(size) \div q >= 1
    BY <1>1, <2>1, DivAtLeast
  <2>3. Longer(size) \div q \in Nat
    BY <1>1, DivBounds
  <2> QED
    BY <2>2, <2>3 DEF Whole
<1>4. a \in Nat /\ b \in Nat
  BY <1>1, <1>2, DivBounds
<1>5. a <= Whole(size) /\ b <= Whole(size)
  BY <1>1, <1>2, LongerOf, DivMonotone DEF Whole
<1>6. a = Whole(size) \/ b = Whole(size)
  BY LongerOf DEF Whole
<1>7. Scaled(size) = [w |-> Nearest(a * Limit, Whole(size)), h |-> Nearest(b * Limit, Whole(size))]
  BY DEF Scaled, Shrunk
<1> HIDE DEF a, b, q
<1>8. /\ Nearest(a * Limit, Whole(size)) \in Nat /\ Nearest(a * Limit, Whole(size)) <= Limit
      /\ Nearest(b * Limit, Whole(size)) \in Nat /\ Nearest(b * Limit, Whole(size)) <= Limit
      /\ Nearest(Whole(size) * Limit, Whole(size)) = Limit
  BY <1>1, <1>3, <1>4, <1>5, NearestBounds
<1>9. \/ Nearest(a * Limit, Whole(size)) = Limit
      \/ Nearest(b * Limit, Whole(size)) = Limit
  BY <1>6, <1>8
<1> QED
  BY <1>1, <1>7, <1>8, <1>9 DEF Longer

(* GraphicsMagick is asked for a size of which the longer side is the      *)
(* limit.                                                                  *)
LEMMA ShorterFits ==
    ASSUME TypeOK, NEW longer \in Nat \ {0}, NEW side \in Nat \ {0}, side <= longer,
           NEW x \in Shorter(side, longer)
    PROVE  x \in Int /\ x <= Limit
<1>1. Limit \in Nat \ {0}
  BY LimitPositive
<1>2. CASE side = longer
  BY <1>1, <1>2 DEF Shorter
<1>3. CASE side # longer
  <2> DEFINE q == (side * Limit) \div longer
  <2>1. side * Limit \in Nat /\ side * Limit <= longer * Limit
    BY <1>1, SMT
  <2>2. longer * Limit < (Limit + 1) * longer
    BY <1>1, SMT
  <2>3. side * Limit < (Limit + 1) * longer
    BY <1>1, <2>1, <2>2, SMT
  <2>4. q <= Limit
    BY <1>1, <2>1, <2>3, DivAtMost
  <2>5. q \in Nat
    BY <2>1, DivBounds
  <2>6. x \in {q - 1, q}
    BY <1>3, Zenon DEF Shorter
  <2> HIDE DEF q
  <2> QED
    BY <1>1, <2>4, <2>5, <2>6
<1> QED
  BY <1>2, <1>3

LEMMA ResizedFits ==
    ASSUME TypeOK, NEW size \in Sizes, NEW s \in Resized(size)
    PROVE  /\ Longer(s) = Limit
           /\ s.w > 0 /\ s.h > 0 => s \in [w : Nat, h : Nat]
<1>1. Limit \in Nat \ {0} /\ size.w \in Nat \ {0} /\ size.h \in Nat \ {0}
  BY LimitPositive DEF Sizes
<1>2. CASE size.w > size.h
  <2>1. s \in [w : {Limit}, h : Shorter(size.h, size.w)]
    BY <1>2 DEF Resized
  <2>2. s.w = Limit /\ s.h \in Int /\ s.h <= Limit
    BY <1>1, <1>2, <2>1, ShorterFits
  <2> QED
    BY <1>1, <2>1, <2>2 DEF Longer
<1>3. CASE ~(size.w > size.h)
  <2>1. s \in [w : Shorter(size.w, size.h), h : {Limit}]
    BY <1>3 DEF Resized
  <2>2. s.h = Limit /\ s.w \in Int /\ s.w <= Limit
    BY <1>1, <1>3, <2>1, ShorterFits
  <2> QED
    BY <1>1, <2>1, <2>2 DEF Longer
<1> QED
  BY <1>2, <1>3

(* What libjpeg shrinks while loading keeps at least the limit.            *)
LEMMA LoadedEnough ==
    ASSUME TypeOK, NEW size \in Sizes, NEW s \in Loaded(size, JpegShrink(size))
    PROVE  /\ s \in Sizes
           /\ Longer(size) >= Limit => Longer(s) >= Limit
<1> DEFINE j == JpegShrink(size)
<1>1. Limit \in Nat \ {0} /\ Shrink(size) \in Nat \ {0} /\ Longer(size) \in Nat \ {0}
  BY LimitPositive, ShrinkBounds, LongerOf
<1>2. j \in Nat \ {0} /\ j <= Shrink(size)
  BY <1>1 DEF JpegShrink
<1>3. size.w \in Nat \ {0} /\ size.h \in Nat \ {0}
  BY DEF Sizes
<1>4. s \in {[w |-> size.w \div j, h |-> size.h \div j],
             [w |-> (size.w + j - 1) \div j, h |-> (size.h + j - 1) \div j]} /\ s.w > 0 /\ s.h > 0
  BY DEF Loaded
<1> HIDE DEF j
<1>5. size.w + j - 1 \in Nat /\ size.h + j - 1 \in Nat /\ size.w <= size.w + j - 1 /\ size.h <= size.h + j - 1
  BY <1>2, <1>3
<1>6. /\ size.w \div j \in Nat /\ size.h \div j \in Nat
      /\ (size.w + j - 1) \div j \in Nat /\ (size.h + j - 1) \div j \in Nat
  BY <1>2, <1>3, <1>5, DivBounds
<1>7. s.w >= size.w \div j /\ s.h >= size.h \div j
  BY <1>2, <1>3, <1>4, <1>5, <1>6, DivMonotone
<1>8. s \in Sizes
  BY <1>4, <1>6 DEF Sizes
<1>9. ASSUME Longer(size) >= Limit PROVE Longer(s) >= Limit
  <2>1. Shrink(size) * Limit <= Longer(size)
    BY <1>9, ShrinkBounds
  <2>2. j * Limit <= Shrink(size) * Limit
    BY <1>1, <1>2, SMT
  <2>3. Limit * j <= Longer(size)
    BY <1>1, <1>2, <2>1, <2>2, SMT
  <2>4. Longer(size) \div j >= Limit
    BY <1>1, <1>2, <2>3, DivAtLeast
  <2>5. CASE Longer(size) = size.w
    BY <1>1, <1>6, <1>7, <1>8, <2>4, <2>5, LongerOf DEF Sizes
  <2>6. CASE Longer(size) = size.h
    BY <1>1, <1>6, <1>7, <1>8, <2>4, <2>6, LongerOf DEF Sizes
  <2> QED
    BY <2>5, <2>6, LongerOf
<1> QED
  BY <1>8, <1>9

(* An embedded thumbnail of residual at most 1 has at least the limit.     *)
LEMMA LargeEnoughIs ==
    ASSUME TypeOK, NEW size \in Sizes, LargeEnough(size)
    PROVE  Longer(size) >= Limit
<1>1. Limit \in Nat \ {0} /\ Shrink(size) \in Nat \ {0} /\ Longer(size) \in Nat \ {0}
  BY LimitPositive, ShrinkBounds, LongerOf
<1>2. Whole(size) <= Longer(size) /\ Whole(size) \in Nat
  BY <1>1, DivMonotone, DivBounds DEF Whole
<1> QED
  BY <1>1, <1>2 DEF LargeEnough

-----------------------------------------------------------------------------
(* The inductive invariant.                                                *)

(* What both properties of sizes say of one record.                        *)
Good(r) ==
    /\ r.thumbnail # Empty =>
        \/ Longer(r.thumbnail) = r.limit
        \/ r.location = "file//" /\ r.thumbnail = picture.size
    /\ Longer(picture.size) >= r.limit => Longer(r.source) >= r.limit

(* Every record is good, and so is the image about to be shrunk.           *)
SizesInv ==
    /\ place = "decoded" => picture.embedded # None
    /\ place = "shrink" =>
        source \in Sizes /\ (Longer(picture.size) >= Limit => Longer(source) >= Limit)
    /\ place \in {"store", "insert"} => record # None
    /\ record # None => Good(record)
    /\ cached # None => Good(cached)
    /\ \A i \in DOMAIN served : Good(served[i])

(* Who can hold what, and where.                                           *)
HoldInv ==
    /\ refs \subseteq ({<<"process", "reader">>, <<"decoded", "reader">>, <<"header", "thumb">>}
                       \cup (Images \X {"process"}))
    /\ place \in {"down", "walk", "wand", "store", "insert"} => refs = {}
    /\ <<"decoded", "reader">> \in refs => place = "decoded"
    /\ <<"thumb", "process">> \in refs => <<"header", "thumb">> \in refs
    /\ place \in {"embedded", "decoded", "main"} => <<"header", "process">> \in refs
    /\ place = "shrink" => <<image, "process">> \in refs

(* What is cached is served while the daemon runs, but for the moment      *)
(* between the two.                                                        *)
CacheInv ==
    /\ cached # None => cached.location = "file:///"
    /\ cached # None /\ place \notin {"down", "insert"} => Known
    /\ cached # None /\ place = "insert" => Known \/ record.location = "file:///"

IInv == TypeOK /\ SizesInv /\ HoldInv /\ CacheInv

LEMMA InitHolds == Init => IInv
BY ConstantsAssumption
   DEF Init, IInv, TypeOK, SizesInv, HoldInv, CacheInv, Places

(* A record that is made has the type of one, and is good.                 *)
LEMMA RecordMade ==
    ASSUME TypeOK, NEW from \in Sizes, NEW uri \in {"file:///", "file//"},
           NEW thumb \in [w : Nat, h : Nat] \cup {Empty},
           Longer(picture.size) >= Limit => Longer(from) >= Limit,
           \/ thumb = Empty \/ Longer(thumb) = Limit
           \/ uri = "file//" /\ thumb = picture.size
    PROVE  /\ Record(thumb, from, uri) \in Records /\ Record(thumb, from, uri) # None
           /\ Record(thumb, from, uri).location = uri
           /\ Good(Record(thumb, from, uri))
<1> DEFINE r == Record(thumb, from, uri)
<1>1. r = [location |-> uri, thumbnail |-> thumb, limit |-> Limit, source |-> from]
  BY DEF Record
<1>2. r \in Records
  BY <1>1, LimitPositive DEF Records
<1>3. r # None
  BY <1>2, ConstantsAssumption
<1>4. r.thumbnail = thumb /\ r.limit = Limit /\ r.source = from /\ r.location = uri
  BY <1>1
<1> HIDE DEF r
<1>5. Good(r)
  BY <1>4 DEF Good
<1> QED
  BY <1>2, <1>3, <1>4, <1>5 DEF r

LEMMA TypeStep == IInv /\ [Next]_vars => TypeOK'
<1> SUFFICES ASSUME IInv, [Next]_vars PROVE TypeOK'
  OBVIOUS
<1> USE DEF IInv
<1>1. picture.size \in Sizes /\ picture.embedded \in Sizes \cup {None} /\ picture.size # None
  BY ConstantsAssumption DEF TypeOK
<1>2. ASSUME NEW module \in {"vips", "graphicsmagick"}, NEW w \in Widths, Start(module, w)
      PROVE  TypeOK'
  BY <1>2, ConstantsAssumption DEF TypeOK, Start, Places
<1>3. CASE Begin
  BY <1>3 DEF TypeOK, Begin, Places, Images
<1>4. CASE FindFormat \/ OpenImage \/ FindLoader \/ ReadHeader \/ DecodeEmbedded \/ LeaveEmbedded
  BY <1>4 DEF TypeOK, FindFormat, OpenImage, FindLoader, ReadHeader, DecodeEmbedded, LeaveEmbedded,
              Open, Local, Goto, Places, Images
<1>5. CASE ReloadEmbedded
  <2>1. picture.embedded \in Sizes
    BY <1>1, <1>5 DEF ReloadEmbedded, SizesInv
  <2>2. source' \in Sizes
    BY <1>5, <2>1, LoadedEnough DEF ReloadEmbedded
  <2> QED
    BY <1>5, <2>2 DEF TypeOK, ReloadEmbedded, Local, Goto, Places, Images
<1>6. CASE UseHeader \/ LoadOther
  BY <1>1, <1>6 DEF TypeOK, UseHeader, LoadOther, Local, Goto, Places, Images
<1>7. CASE LoadMain
  <2>1. source' \in Sizes
    BY <1>1, <1>7, LoadedEnough DEF LoadMain
  <2> QED
    BY <1>7, <2>1 DEF TypeOK, LoadMain, Local, Goto, Places, Images
<1>8. CASE ShrinkImage \/ ShrinkFails
  <2>1. source \in Sizes /\ (Longer(picture.size) >= Limit => Longer(source) >= Limit)
    BY <1>8 DEF ShrinkImage, ShrinkFails, SizesInv
  <2>2. Record(Scaled(source), source, "file:///") \in Records
    BY <2>1, ScaledFits, RecordMade
  <2>3. Record(Empty, source, "file:///") \in Records
    BY <2>1, RecordMade
  <2>4. record' \in Records
    BY <1>8, <2>2, <2>3 DEF ShrinkImage, ShrinkFails
  <2> QED
    BY <1>8, <2>4 DEF TypeOK, ShrinkImage, ShrinkFails, Local, Goto, Places, Images
<1>9. ASSUME NEW failed \in {"format", "open", "loader", "header", "other"}, Reject(failed)
      PROVE  TypeOK'
  BY <1>9 DEF TypeOK, Reject, Goto, Places
<1>10. CASE ReadWand
  <2>1. PICK thumb \in {s \in Resized(picture.size) : s.w > 0 /\ s.h > 0}
                        \cup {picture.size, Empty} :
          record' = Record(thumb, picture.size, "file//")
    BY <1>10 DEF ReadWand
  <2>2. picture.size \in [w : Nat, h : Nat]
    BY <1>1 DEF Sizes
  <2>3. record' \in Records
    BY <1>1, <2>1, <2>2, ResizedFits, RecordMade
  <2> QED
    BY <1>10, <2>3 DEF TypeOK, ReadWand, Goto, Places
<1>11. CASE WandFails \/ CloseProcess \/ Closed
  BY <1>11 DEF TypeOK, WandFails, CloseProcess, Closed, Goto, Places
<1>12. ASSUME NEW r \in refs, Release(r)
       PROVE  TypeOK'
  BY <1>12 DEF TypeOK, Release, Goto, Places
<1>13. CASE StoreRecord
  BY <1>13 DEF TypeOK, StoreRecord, Places
<1>14. CASE InsertRecord
  BY <1>14 DEF TypeOK, SizesInv, InsertRecord, Places
<1>15. CASE Stop
  BY <1>15 DEF TypeOK, Stop, Places
<1>16. CASE UNCHANGED vars
  BY <1>16 DEF TypeOK, vars
<1> QED
  BY <1>2, <1>3, <1>4, <1>5, <1>6, <1>7, <1>8, <1>9, <1>10, <1>11, <1>12, <1>13, <1>14, <1>15, <1>16
     DEF Next, Read

LEMMA SizesStep == IInv /\ [Next]_vars => SizesInv'
<1> SUFFICES ASSUME IInv, [Next]_vars PROVE SizesInv'
  OBVIOUS
<1> USE DEF IInv
<1>1. picture.size \in Sizes /\ picture.embedded \in Sizes \cup {None} /\ picture.size # None
  BY ConstantsAssumption DEF TypeOK
<1>2. ASSUME NEW module \in {"vips", "graphicsmagick"}, NEW w \in Widths, Start(module, w)
      PROVE  SizesInv'
  BY <1>2 DEF SizesInv, Start, Good
<1>3. CASE Begin
  BY <1>3 DEF SizesInv, Begin, Good
<1>4. CASE FindFormat \/ OpenImage \/ FindLoader \/ ReadHeader \/ DecodeEmbedded \/ LeaveEmbedded
  BY <1>4 DEF SizesInv, FindFormat, OpenImage, FindLoader, ReadHeader, DecodeEmbedded, LeaveEmbedded,
              Open, Goto, Good
<1>5. CASE ReloadEmbedded
  <2>1. picture.embedded \in Sizes
    BY <1>1, <1>5 DEF ReloadEmbedded, SizesInv
  <2>2. source' \in Sizes /\ Longer(source') >= Limit
    BY <1>5, <2>1, LoadedEnough, LargeEnoughIs DEF ReloadEmbedded
  <2>3. UNCHANGED <<picture, width, record, cached, served>> /\ place' = "shrink"
    BY <1>5 DEF ReloadEmbedded, Goto
  <2> QED
    BY <2>2, <2>3 DEF SizesInv, Good, Limit, Longer
<1>6. CASE UseHeader \/ LoadOther
  BY <1>1, <1>6 DEF SizesInv, UseHeader, LoadOther, Goto, Good, Limit, Longer
<1>7. CASE LoadMain
  <2>1. source' \in Sizes /\ (Longer(picture.size) >= Limit => Longer(source') >= Limit)
    BY <1>1, <1>7, LoadedEnough DEF LoadMain
  <2>2. UNCHANGED <<picture, width, record, cached, served>> /\ place' = "shrink"
    BY <1>7 DEF LoadMain, Goto
  <2> QED
    BY <2>1, <2>2 DEF SizesInv, Good, Limit, Longer
<1>8. CASE ShrinkImage \/ ShrinkFails
  <2>1. source \in Sizes /\ (Longer(picture.size) >= Limit => Longer(source) >= Limit)
    BY <1>8 DEF ShrinkImage, ShrinkFails, SizesInv
  <2>2. Good(Record(Scaled(source), source, "file:///"))
    BY <2>1, ScaledFits, RecordMade
  <2>3. Good(Record(Empty, source, "file:///"))
    BY <2>1, RecordMade
  <2>4. Good(record')
    BY <1>8, <2>2, <2>3 DEF ShrinkImage, ShrinkFails
  <2>5. UNCHANGED <<picture, cached, served>> /\ place' = "close"
    BY <1>8 DEF ShrinkImage, ShrinkFails, Goto
  <2> QED
    BY <2>4, <2>5 DEF SizesInv, Good
<1>9. ASSUME NEW failed \in {"format", "open", "loader", "header", "other"}, Reject(failed)
      PROVE  SizesInv'
  BY <1>9 DEF SizesInv, Reject, Goto, Good
<1>10. CASE ReadWand
  <2>1. PICK thumb \in {s \in Resized(picture.size) : s.w > 0 /\ s.h > 0}
                        \cup {picture.size, Empty} :
          record' = Record(thumb, picture.size, "file//")
    BY <1>10 DEF ReadWand
  <2>2. picture.size \in [w : Nat, h : Nat]
    BY <1>1 DEF Sizes
  <2>3. Good(record') /\ record' # None
    BY <1>1, <2>1, <2>2, ResizedFits, RecordMade
  <2>4. UNCHANGED <<picture, cached, served>> /\ place' = "store"
    BY <1>10 DEF ReadWand, Goto
  <2> QED
    BY <2>3, <2>4 DEF SizesInv, Good
<1>11. CASE WandFails \/ CloseProcess \/ Closed
  BY <1>11 DEF SizesInv, WandFails, CloseProcess, Closed, Goto, Good
<1>12. ASSUME NEW r \in refs, Release(r)
       PROVE  SizesInv'
  BY <1>12 DEF SizesInv, Release, Goto, Good
<1>13. CASE StoreRecord
  BY <1>13 DEF SizesInv, StoreRecord, Good
<1>14. CASE InsertRecord
  <2>1. Good(record) /\ served \in Seq(Records) /\ record \in Records
    BY <1>14 DEF InsertRecord, SizesInv, TypeOK
  <2>2. UNCHANGED <<picture, cached>> /\ place' = "walk" /\ record' = None
        /\ served' = Append(served, record)
    BY <1>14 DEF InsertRecord
  <2>3. ASSUME NEW i \in DOMAIN served' PROVE Good(served[i])'
    <3>1. served'[i] = record \/ (i \in DOMAIN served /\ served'[i] = served[i])
      BY <2>1, <2>2
    <3> QED
      BY <2>1, <2>2, <3>1 DEF SizesInv, Good
  <2> QED
    BY <2>2, <2>3 DEF SizesInv, Good
<1>15. CASE Stop
  BY <1>15 DEF SizesInv, Stop, Good
<1>16. CASE UNCHANGED vars
  BY <1>16 DEF SizesInv, vars, Good, Limit, Longer
<1> QED
  BY <1>2, <1>3, <1>4, <1>5, <1>6, <1>7, <1>8, <1>9, <1>10, <1>11, <1>12, <1>13, <1>14, <1>15, <1>16
     DEF Next, Read

(* Nothing holds an image when the reader has let go of the process and    *)
(* whatever was held by it has been released.                              *)
LEMMA NothingHeld ==
    ASSUME HoldInv, place = "close", ~Alive("process"), Abandoned = {}
    PROVE  refs = {}
<1> SUFFICES ASSUME NEW r \in refs PROVE FALSE
  OBVIOUS
<1>1. r[2] = "reader" \/ Alive(r[2])
  BY DEF Abandoned
<1>2. r # <<"process", "reader">>
  BY DEF Alive
<1>3. r # <<"decoded", "reader">>
  BY DEF HoldInv
<1>4. ASSUME NEW q \in refs, NEW i \in Images, q = <<i, "process">> PROVE FALSE
  <2>1. q[2] = "process"
    BY <1>4
  <2>2. q \in Abandoned
    BY <2>1 DEF Abandoned
  <2> QED
    BY <2>2
<1>5. CASE r = <<"header", "thumb">>
  <2>1. PICK q \in refs : q[1] = "thumb"
    BY <1>1, <1>5 DEF Alive
  <2>2. PICK i \in Images : q = <<i, "process">>
    BY <2>1 DEF HoldInv
  <2> QED
    BY <1>4, <2>2
<1> QED
  BY <1>2, <1>3, <1>4, <1>5 DEF HoldInv

LEMMA HoldStep == IInv /\ [Next]_vars => HoldInv'
<1> SUFFICES ASSUME IInv, [Next]_vars PROVE HoldInv'
  OBVIOUS
<1> USE DEF IInv
<1>1. "image" \in Images /\ "header" \in Images /\ "thumb" \in Images /\ "main" \in Images
      /\ "chain" \in Images
  BY DEF Images
<1>2. ASSUME NEW module \in {"vips", "graphicsmagick"}, NEW w \in Widths, Start(module, w)
      PROVE  HoldInv'
  BY <1>2 DEF HoldInv, Start
<1>3. CASE Begin
  BY <1>3 DEF HoldInv, Begin
<1>4. CASE FindFormat \/ FindLoader \/ DecodeEmbedded \/ LeaveEmbedded \/ UseHeader
  BY <1>4 DEF HoldInv, FindFormat, FindLoader, DecodeEmbedded, LeaveEmbedded, UseHeader, Goto
<1>5. CASE OpenImage \/ ReadHeader
  BY <1>1, <1>5 DEF HoldInv, OpenImage, ReadHeader, Open, Local, Goto
<1>6. CASE ReloadEmbedded
  BY <1>1, <1>6 DEF HoldInv, ReloadEmbedded, Local, Goto
<1>7. CASE LoadMain \/ LoadOther
  BY <1>1, <1>7 DEF HoldInv, LoadMain, LoadOther, Local, Goto
<1>8. CASE ShrinkImage \/ ShrinkFails
  BY <1>1, <1>8 DEF HoldInv, ShrinkImage, ShrinkFails, Local, Goto
<1>9. ASSUME NEW failed \in {"format", "open", "loader", "header", "other"}, Reject(failed)
      PROVE  HoldInv'
  BY <1>9 DEF HoldInv, Reject, Goto
<1>10. CASE ReadWand \/ WandFails
  BY <1>10 DEF HoldInv, ReadWand, WandFails, Goto
<1>11. CASE CloseProcess
  BY <1>11 DEF HoldInv, CloseProcess, Goto
<1>12. ASSUME NEW r \in refs, Release(r)
       PROVE  HoldInv'
  <2>1. ~Alive(r[2]) /\ refs' = refs \ {r} /\ place = "close" /\ place' = "close"
    BY <1>12 DEF Release, Abandoned, Goto
  <2>2. r = <<"header", "thumb">> => <<"thumb", "process">> \notin refs
    BY <2>1 DEF Alive
  <2> QED
    BY <2>1, <2>2 DEF HoldInv
<1>13. CASE Closed
  <2>1. refs = {}
    BY <1>13, NothingHeld DEF Closed
  <2>2. refs' = {} /\ place' \in {"walk", "store"}
    BY <1>13, <2>1 DEF Closed, Goto
  <2> QED
    BY <2>2 DEF HoldInv
<1>14. CASE StoreRecord \/ InsertRecord
  BY <1>14 DEF HoldInv, StoreRecord, InsertRecord
<1>15. CASE Stop
  BY <1>15 DEF HoldInv, Stop
<1>16. CASE UNCHANGED vars
  BY <1>16 DEF HoldInv, vars
<1> QED
  BY <1>2, <1>3, <1>4, <1>5, <1>6, <1>7, <1>8, <1>9, <1>10, <1>11, <1>12, <1>13, <1>14, <1>15, <1>16
     DEF Next, Read

LEMMA CacheStep == IInv /\ [Next]_vars => CacheInv'
<1> SUFFICES ASSUME IInv, [Next]_vars PROVE CacheInv'
  OBVIOUS
<1> USE DEF IInv
<1>1. ASSUME NEW module \in {"vips", "graphicsmagick"}, NEW w \in Widths, Start(module, w)
      PROVE  CacheInv'
  <2>1. UNCHANGED cached /\ place' = "walk"
        /\ served' = IF cached = None THEN <<>> ELSE <<cached>>
    BY <1>1 DEF Start
  <2>2. cached # None => 1 \in DOMAIN served' /\ served'[1] = cached
    BY <2>1
  <2> QED
    BY <2>1, <2>2 DEF CacheInv, Known
<1>2. CASE Begin
  BY <1>2 DEF CacheInv, Begin, Known
<1>3. CASE Read
  <2>1. UNCHANGED <<served, cached>> /\ place # "down" /\ place' # "down" /\ place # "insert"
        /\ place' # "insert"
    BY <1>3 DEF Read, FindFormat, OpenImage, FindLoader, ReadHeader, DecodeEmbedded,
                ReloadEmbedded, LeaveEmbedded, UseHeader, LoadMain, LoadOther, ShrinkImage,
                ShrinkFails, Reject, ReadWand, WandFails, Open, Goto
  <2> QED
    BY <2>1 DEF CacheInv, Known
<1>4. CASE CloseProcess \/ Closed \/ \E r \in refs : Release(r)
  <2>1. UNCHANGED <<served, cached>> /\ place = "close" /\ place' \in {"close", "walk", "store"}
    BY <1>4 DEF CloseProcess, Closed, Release, Goto
  <2> QED
    BY <2>1 DEF CacheInv, Known
<1>5. CASE StoreRecord
  BY <1>5 DEF CacheInv, StoreRecord, Known
<1>6. CASE InsertRecord
  <2>1. UNCHANGED cached /\ place = "insert" /\ place' = "walk" /\ served' = Append(served, record)
    BY <1>6 DEF InsertRecord
  <2>2. served \in Seq(Records) /\ record \in Records
    BY <2>1 DEF TypeOK, SizesInv
  <2>3. /\ \A i \in DOMAIN served : i \in DOMAIN served' /\ served'[i] = served[i]
        /\ Len(served) + 1 \in DOMAIN served' /\ served'[Len(served) + 1] = record
    BY <2>1, <2>2
  <2> QED
    BY <2>1, <2>3 DEF CacheInv, Known
<1>7. CASE Stop
  BY <1>7 DEF CacheInv, Stop
<1>8. CASE UNCHANGED vars
  BY <1>8 DEF CacheInv, Known, vars
<1> QED
  BY <1>1, <1>2, <1>3, <1>4, <1>5, <1>6, <1>7, <1>8 DEF Next

THEOREM Invariance == Spec => []IInv
<1>1. IInv /\ [Next]_vars => IInv'
  BY TypeStep, SizesStep, HoldStep, CacheStep DEF IInv
<1> QED
  BY InitHolds, <1>1, PTL DEF Spec

-----------------------------------------------------------------------------
(* The properties.                                                         *)

(* For every size of the photograph and of what is embedded in it, and     *)
(* every width, the longer side of a thumbnail is the width asked for.     *)
THEOREM ThumbnailFitsTheorem == Spec => []ThumbnailFits
<1>1. IInv => ThumbnailFits
  BY DEF IInv, SizesInv, Good, ThumbnailFits, AllRecords
<1> QED
  BY <1>1, Invariance, PTL

(* Neither the embedded thumbnail nor the shrinking while loading leaves   *)
(* too few pixels.                                                         *)
THEOREM NeverEnlargedTheorem == Spec => []NeverEnlarged
<1>1. IInv => NeverEnlarged
  BY DEF IInv, SizesInv, Good, NeverEnlarged, AllRecords
<1> QED
  BY <1>1, Invariance, PTL

(* What the references keep is let go by the end of a read, on every path, *)
(* and not before.                                                         *)
THEOREM ImagesHeldTheorem == Spec => []ImagesHeld
<1>1. IInv => ImagesHeld
  <2> SUFFICES ASSUME IInv PROVE ImagesHeld
    OBVIOUS
  <2>1. place = "shrink" => Alive(image)
    BY DEF IInv, HoldInv, Alive
  <2>2. ASSUME Alive("thumb") PROVE Alive("header")
    <3>1. PICK r \in refs : r[1] = "thumb"
      BY <2>2 DEF Alive
    <3>2. r = <<"thumb", "process">>
      BY <3>1 DEF IInv, HoldInv
    <3> QED
      BY <3>2 DEF IInv, HoldInv, Alive
  <2> QED
    BY <2>1, <2>2 DEF IInv, HoldInv, ImagesHeld
<1> QED
  BY <1>1, Invariance, PTL

(* Over any number of restarts and crashes, with any reader and width, a   *)
(* photograph whose record is in the cache is not read again.              *)
THEOREM ReadOnceTheorem == Spec => ReadOnce
<1>1. IInv /\ [Next]_vars
        => [place = "walk" /\ place' \in {"format", "wand"} => cached = None]_vars
  <2> SUFFICES ASSUME IInv, [Next]_vars, place = "walk", place' \in {"format", "wand"}
               PROVE  cached = None
    OBVIOUS
  <2>1. Begin
    BY DEF Next, Read, Start, FindFormat, OpenImage, FindLoader, ReadHeader, DecodeEmbedded,
           ReloadEmbedded, LeaveEmbedded, UseHeader, LoadMain, LoadOther, ShrinkImage,
           ShrinkFails, Reject, ReadWand, WandFails, Open, Goto, CloseProcess, Closed, Release,
           StoreRecord, InsertRecord, Stop, vars
  <2> QED
    BY <2>1 DEF Begin, IInv, CacheInv
<1> QED
  BY <1>1, Invariance, PTL DEF Spec, ReadOnce

-----------------------------------------------------------------------------
(* Of music: the idle sources of the readers' main loops.                  *)

(* What is left of a sequence when the element at one position is removed. *)
LEMMA RemovedAt ==
    ASSUME NEW S, NEW s \in Seq(S), NEW i \in 1 .. Len(s)
    PROVE  /\ AV!RemoveAt(s, i) \in Seq(S)
           /\ Len(AV!RemoveAt(s, i)) = Len(s) - 1
           /\ \A j \in 1 .. Len(s) - 1 :
                AV!RemoveAt(s, i)[j] = IF j < i THEN s[j] ELSE s[j + 1]
<1> DEFINE left  == SubSeq(s, 1, i - 1)
           right == SubSeq(s, i + 1, Len(s))
<1>1. /\ left \in Seq(S) /\ Len(left) = i - 1
      /\ \A j \in 1 .. i - 1 : left[j] = s[j]
  <2>1. 1 \in Int /\ i - 1 \in Int /\ \A j \in 1 .. i - 1 : s[j] \in S
    OBVIOUS
  <2> QED
    BY <2>1, SubSeqProperties
<1>2. /\ right \in Seq(S) /\ Len(right) = Len(s) - i
      /\ \A j \in 1 .. Len(s) - i : right[j] = s[i + j]
  <2>1. i + 1 \in Int /\ Len(s) \in Int /\ \A j \in i + 1 .. Len(s) : s[j] \in S
    OBVIOUS
  <2>2. /\ right \in Seq(S)
        /\ Len(right) = IF i + 1 <= Len(s) THEN Len(s) - (i + 1) + 1 ELSE 0
        /\ \A j \in 1 .. Len(s) - (i + 1) + 1 : right[j] = s[i + 1 + j - 1]
    BY <2>1, SubSeqProperties
  <2>3. \A j \in 1 .. Len(s) - i : j \in 1 .. Len(s) - (i + 1) + 1 /\ i + 1 + j - 1 = i + j
    OBVIOUS
  <2> QED
    BY <2>2, <2>3
<1>3. AV!RemoveAt(s, i) = left \o right
  BY DEF AV!RemoveAt
<1> HIDE DEF left, right
<1>4. /\ left \o right \in Seq(S) /\ Len(left \o right) = Len(left) + Len(right)
      /\ \A j \in 1 .. Len(left) + Len(right) :
           (left \o right)[j] = IF j <= Len(left) THEN left[j] ELSE right[j - Len(left)]
  BY <1>1, <1>2, ConcatProperties
<1>5. ASSUME NEW j \in 1 .. Len(s) - 1
      PROVE  (left \o right)[j] = IF j < i THEN s[j] ELSE s[j + 1]
  <2>1. CASE j < i
    BY <1>1, <1>2, <1>4, <2>1
  <2>2. CASE ~(j < i)
    <3>1. (left \o right)[j] = right[j - (i - 1)]
      BY <1>1, <1>2, <1>4, <2>2
    <3>2. j - (i - 1) \in 1 .. Len(s) - i /\ i + (j - (i - 1)) = j + 1
      BY <2>2
    <3> QED
      BY <1>2, <2>2, <3>1, <3>2
  <2> QED
    BY <2>1, <2>2
<1> QED
  BY <1>1, <1>2, <1>3, <1>4, <1>5

(* The positions of the sources that pause.                                *)
Pauses(sources) == {i \in DOMAIN sources : sources[i] = "pause"}

(* A read that has not paused its pipeline has one source that will, which *)
(* an iteration that has begun reaches; nobody else has one.  While it is  *)
(* there and the iteration is over the loop has not been quit: a quit is   *)
(* always dispatched in an iteration that dispatches the pause as well.    *)
PauseInv ==
    /\ here <= last + 1
    /\ phase = "idle" => ~AV!Dispatching
    /\ phase = "idle" \/ (phase = "loop" /\ paused # "no") => Pauses(idles) = {}
    /\ phase = "loop" /\ paused = "no" =>
         /\ ~AV!Dispatching => running
         /\ \E k \in DOMAIN idles :
              /\ Pauses(idles) = {k}
              /\ AV!Dispatching => here <= k /\ k <= last

(* The loop runs for a read.                                               *)
InRead == phase = "loop" => read >= 1

AVInv == AV!TypeOK /\ InRead /\ PauseInv

(* Adding a source that quits leaves the others where they are; one that   *)
(* pauses is behind them.                                                  *)
LEMMA Added ==
    ASSUME NEW s \in Seq(AV!Sources), NEW e \in AV!Sources
    PROVE  /\ Append(s, e) \in Seq(AV!Sources) /\ Len(Append(s, e)) = Len(s) + 1
           /\ e = "quit"  => Pauses(Append(s, e)) = Pauses(s)
           /\ e = "pause" => Pauses(Append(s, e)) = Pauses(s) \cup {Len(s) + 1}
<1>1. /\ Append(s, e) \in Seq(AV!Sources) /\ Len(Append(s, e)) = Len(s) + 1
      /\ \A i \in 1 .. Len(s) : Append(s, e)[i] = s[i]
      /\ Append(s, e)[Len(s) + 1] = e
  OBVIOUS
<1>2. DOMAIN Append(s, e) = DOMAIN s \cup {Len(s) + 1} /\ DOMAIN s = 1 .. Len(s)
  OBVIOUS
<1> QED
  BY <1>1, <1>2 DEF Pauses

LEMMA AVInitHolds == AV!Init => AVInv
<1> SUFFICES ASSUME AV!Init PROVE AVInv
  OBVIOUS
<1>1. idles \in Seq(AV!Sources) /\ Len(idles) = 0 /\ DOMAIN idles = {}
  BY DEF AV!Init
<1>2. AV!TypeOK
  <2>1. read \in 0 .. Reads /\ here \in Nat \ {0} /\ last \in 0 .. Len(idles)
    BY <1>1, ReadsAssumption DEF AV!Init
  <2> QED
    BY <1>1, <2>1 DEF AV!Init, AV!TypeOK
<1>3. PauseInv
  <2>1. Pauses(idles) = {}
    BY <1>1 DEF Pauses
  <2>2. phase = "idle" /\ here = 1 /\ last = 0
    BY DEF AV!Init
  <2> QED
    BY <2>1, <2>2 DEF PauseInv, AV!Dispatching
<1>4. InRead
  BY DEF AV!Init, InRead
<1> QED
  BY <1>2, <1>3, <1>4 DEF AVInv

LEMMA InReadStep == AVInv /\ [AV!Next]_avVars => InRead'
<1> SUFFICES ASSUME AVInv, [AV!Next]_avVars PROVE InRead'
  OBVIOUS
<1>1. read \in Nat
  BY ReadsAssumption DEF AVInv, AV!TypeOK
<1>2. CASE AV!Begin \/ AV!SetupFails
  BY <1>1, <1>2 DEF AVInv, InRead, AV!Begin, AV!SetupFails
<1>3. CASE read' = read /\ (phase' = phase \/ phase' # "loop")
  BY <1>3 DEF AVInv, InRead
<1> QED
  BY <1>2, <1>3 DEF AV!Next, AV!Loop, AV!FireTimer, AV!Collect, AV!DispatchPause, AV!DispatchHangs,
       AV!DispatchQuit, AV!NoMorePads, AV!Leave, AV!Finished, AV!vars, avVars

(* The rest is kept by every step.                                         *)
LEMMA AVStep == AVInv /\ [AV!Next]_avVars => AV!TypeOK' /\ PauseInv'
<1> SUFFICES ASSUME AVInv, [AV!Next]_avVars PROVE AV!TypeOK' /\ PauseInv'
  OBVIOUS
<1> USE ReadsAssumption DEF AVInv
<1>1. /\ idles \in Seq(AV!Sources) /\ Len(idles) \in Nat /\ DOMAIN idles = 1 .. Len(idles)
      /\ here \in Nat \ {0} /\ last \in Nat /\ last <= Len(idles) /\ here <= last + 1
      /\ "quit" \in AV!Sources /\ "pause" \in AV!Sources
  BY DEF AV!TypeOK, AV!Sources, PauseInv
<1>2. CASE AV!Begin
  <2>1. idles' = Append(idles, "pause") /\ Pauses(idles) = {}
    BY <1>2 DEF AV!Begin, PauseInv
  <2>2. /\ idles' \in Seq(AV!Sources) /\ Len(idles') = Len(idles) + 1
        /\ Pauses(idles') = {Len(idles) + 1} /\ Len(idles) + 1 \in DOMAIN idles'
    BY <1>1, <2>1, Added
  <2>3. AV!TypeOK'
    BY <1>1, <1>2, <2>2 DEF AV!Begin, AV!TypeOK
  <2>4. PauseInv'
    BY <1>1, <1>2, <2>2 DEF AV!Begin, PauseInv, AV!Dispatching
  <2> QED
    BY <2>3, <2>4
<1>3. CASE AV!SetupFails
  BY <1>1, <1>3 DEF AV!SetupFails, AV!TypeOK, PauseInv, AV!Dispatching
<1>4. ASSUME NEW r \in 1 .. Reads, AV!FireTimer(r) \/ AV!NoMorePads(r)
      PROVE  AV!TypeOK' /\ PauseInv'
  <2>1. idles' = Append(idles, "quit")
    BY <1>4 DEF AV!FireTimer, AV!NoMorePads
  <2>2. /\ idles' \in Seq(AV!Sources) /\ Len(idles') = Len(idles) + 1
        /\ Pauses(idles') = Pauses(idles)
    BY <1>1, <2>1, Added
  <2>3. DOMAIN idles \subseteq DOMAIN idles'
    BY <1>1, <2>2
  <2>4. UNCHANGED <<phase, running, here, last, paused>>
    BY <1>4 DEF AV!FireTimer, AV!NoMorePads
  <2>5. AV!TypeOK'
    <3>1. timers' \subseteq timers /\ read' = read /\ lost' = lost /\ padded' \subseteq padded \cup {r}
      BY <1>4 DEF AV!FireTimer, AV!NoMorePads
    <3>2. last \in 0 .. Len(idles')
      BY <1>1, <2>2
    <3> QED
      BY <1>4, <2>2, <2>4, <3>1, <3>2 DEF AV!TypeOK
  <2>6. PauseInv'
    BY <1>1, <2>2, <2>3, <2>4 DEF PauseInv, AV!Dispatching
  <2> QED
    BY <2>5, <2>6
<1>5. CASE AV!Collect
  BY <1>1, <1>5 DEF AV!Collect, AV!TypeOK, PauseInv, AV!Dispatching, Pauses
<1>6. CASE AV!DispatchPause \/ (AV!DispatchQuit /\ AV!RemoveHere)
  <2>1. /\ phase = "loop" /\ phase' = "loop" /\ here' = here /\ last' = last - 1
        /\ here <= last /\ here \in 1 .. Len(idles) /\ idles' = AV!RemoveAt(idles, here)
    <3>1. phase = "loop" /\ phase' = phase /\ here <= last /\ AV!RemoveHere
      BY <1>6 DEF AV!DispatchPause, AV!DispatchQuit, AV!Dispatching
    <3>2. here' = here /\ last' = last - 1 /\ idles' = AV!RemoveAt(idles, here)
      BY <3>1 DEF AV!RemoveHere
    <3> QED
      BY <1>1, <3>1, <3>2
  <2>2. /\ idles' \in Seq(AV!Sources) /\ Len(idles') = Len(idles) - 1
        /\ \A j \in 1 .. Len(idles) - 1 : idles'[j] = IF j < here THEN idles[j] ELSE idles[j + 1]
    BY <1>1, <2>1, RemovedAt
  <2>3. AV!TypeOK'
    <3>1. last' \in 0 .. Len(idles') /\ here' \in Nat \ {0}
      BY <1>1, <2>1, <2>2
    <3>2. read \in 1 .. Reads
      BY <2>1 DEF AV!TypeOK, InRead
    <3>3. /\ read' = read /\ timers' = timers /\ padded' = padded /\ running' \in BOOLEAN
          /\ lost' \subseteq lost \cup {read} /\ paused' \in {"no", "ok", "failed"}
      BY <1>6 DEF AV!DispatchPause, AV!DispatchQuit, AV!TypeOK
    <3> QED
      BY <2>1, <2>2, <3>1, <3>2, <3>3 DEF AV!TypeOK
  <2>4. ASSUME NEW j \in Pauses(idles')
        PROVE  j \in 1 .. Len(idles) - 1 /\ (IF j < here THEN j ELSE j + 1) \in Pauses(idles)
    <3>1. j \in 1 .. Len(idles) - 1 /\ idles'[j] = "pause"
      BY <1>1, <2>2, <2>4 DEF Pauses
    <3> QED
      BY <1>1, <2>1, <2>2, <3>1 DEF Pauses
  <2>5. CASE paused # "no"
    <3>1. Pauses(idles) = {} /\ paused' # "no"
      BY <1>6, <2>1, <2>5 DEF PauseInv, AV!DispatchPause, AV!DispatchQuit
    <3>2. Pauses(idles') = {}
      BY <2>4, <3>1
    <3> QED
      BY <1>1, <2>1, <2>3, <3>1, <3>2 DEF PauseInv
  <2>6. CASE paused = "no"
    <3>1. PICK k \in DOMAIN idles : Pauses(idles) = {k} /\ here <= k /\ k <= last
      BY <2>1, <2>6 DEF PauseInv, AV!Dispatching
    <3>2. CASE AV!DispatchPause
      <4>1. here \in Pauses(idles) /\ paused' # "no"
        BY <1>1, <2>1, <3>2 DEF AV!DispatchPause, Pauses
      <4>2. k = here
        BY <3>1, <4>1
      <4>3. Pauses(idles') = {}
        BY <1>1, <2>1, <2>4, <3>1, <4>2
      <4> QED
        BY <1>1, <2>1, <2>3, <4>1, <4>3 DEF PauseInv
    <3>3. CASE AV!DispatchQuit
      <4>1. idles[here] = "quit" /\ paused' = "no"
        BY <2>6, <3>3 DEF AV!DispatchQuit
      <4>2. idles[k] = "pause"
        BY <3>1 DEF Pauses
      <4>3. k > here /\ k - 1 \in 1 .. Len(idles) - 1
        BY <1>1, <2>1, <3>1, <4>1, <4>2
      <4>4. idles'[k - 1] = "pause" /\ DOMAIN idles' = 1 .. Len(idles) - 1
        BY <1>1, <2>2, <4>2, <4>3
      <4>5. k - 1 \in Pauses(idles')
        BY <4>3, <4>4 DEF Pauses
      <4>6. \A j \in Pauses(idles') : j = k - 1
        BY <1>1, <2>1, <2>4, <3>1, <4>3
      <4>7. Pauses(idles') = {k - 1} /\ k - 1 \in DOMAIN idles' /\ here' <= k - 1 /\ k - 1 <= last'
        BY <1>1, <2>1, <3>1, <4>3, <4>4, <4>5, <4>6
      <4>8. AV!Dispatching' /\ here' <= last' + 1
        BY <1>1, <2>1, <3>1, <4>3 DEF AV!Dispatching
      <4> QED
        BY <2>1, <2>3, <4>1, <4>7, <4>8 DEF PauseInv
    <3> QED
      BY <1>6, <3>2, <3>3
  <2> QED
    BY <2>5, <2>6
<1>7. CASE AV!DispatchQuit /\ here' = here + 1 /\ UNCHANGED <<idles, last>>
  <2>1. phase = "loop" /\ here <= last /\ idles[here] = "quit" /\ UNCHANGED <<phase, paused>>
    BY <1>7 DEF AV!DispatchQuit, AV!Dispatching
  <2>2. AV!TypeOK'
    <3>1. here' \in Nat \ {0}
      BY <1>1, <1>7
    <3>2. running' = FALSE /\ UNCHANGED <<read, idles, last, timers, lost, padded>>
      BY <1>7 DEF AV!DispatchQuit
    <3> QED
      BY <2>1, <3>1, <3>2 DEF AV!TypeOK
  <2>3. CASE paused # "no"
    BY <1>1, <1>7, <2>1, <2>2, <2>3 DEF PauseInv
  <2>4. CASE paused = "no"
    <3>1. PICK k \in DOMAIN idles : Pauses(idles) = {k} /\ here <= k /\ k <= last
      BY <2>1, <2>4 DEF PauseInv, AV!Dispatching
    <3>2. idles[k] = "pause"
      BY <3>1 DEF Pauses
    <3>3. here + 1 <= k
      BY <1>1, <2>1, <3>1, <3>2
    <3> QED
      BY <1>1, <1>7, <2>1, <2>2, <2>4, <3>1, <3>3 DEF PauseInv, AV!Dispatching
  <2> QED
    BY <2>3, <2>4
<1>8. CASE AV!DispatchHangs
  BY <1>1, <1>8 DEF AV!DispatchHangs, AV!TypeOK, PauseInv, AV!Dispatching
<1>9. CASE AV!Leave
  BY <1>1, <1>9 DEF AV!Leave, AV!TypeOK, PauseInv, AV!Dispatching
<1>10. CASE UNCHANGED avVars
  BY <1>1, <1>10 DEF avVars, AV!TypeOK, PauseInv, AV!Dispatching
<1>11. CASE AV!Finished
  BY <1>10, <1>11 DEF AV!Finished, AV!vars, avVars
<1> QED
  <2>1. AV!DispatchQuit => AV!RemoveHere \/ (here' = here + 1 /\ UNCHANGED <<idles, last>>)
    BY DEF AV!DispatchQuit
  <2> QED
    BY <1>2, <1>3, <1>4, <1>5, <1>6, <1>7, <1>8, <1>9, <1>10, <1>11, <2>1 DEF AV!Next, AV!Loop

-----------------------------------------------------------------------------
(* Both together.                                                          *)

(* One kind of reader at a time is a behaviour of each: what is proved of  *)
(* photographs above holds of the readers together.                        *)
THEOREM EachReader == ReadersSpec => Spec /\ AV!Spec
<1>1. ReadersInit => Init /\ AV!Init
  BY DEF ReadersInit
<1>2. [ReadMusic \/ ReadPictures]_readersVars => [Next]_vars
  BY DEF ReadMusic, ReadPictures, readersVars
<1>3. [ReadMusic \/ ReadPictures]_readersVars => [AV!Next]_(AV!vars)
  BY DEF ReadMusic, ReadPictures, readersVars, avVars, AV!vars
<1> QED
  BY <1>1, <1>2, <1>3, PTL DEF ReadersSpec, Spec, AV!Spec

(* For any number of reads, whatever timers and quits earlier ones left    *)
(* behind and whether or not a quit is removed: the tags are asked of a    *)
(* pipeline that has been paused, and no source outlives its read that     *)
(* would pause another's.                                                  *)
THEOREM PausedInTimeTheorem == ReadersSpec => []PausedInTime
<1>1. AVInv => AV!PausedInTime
  BY DEF AVInv, PauseInv, Pauses, AV!PausedInTime
<1>2. [AV!Next]_(AV!vars) => [AV!Next]_avVars
  BY DEF AV!vars, avVars
<1>3. AVInv /\ [AV!Next]_(AV!vars) => AVInv'
  BY <1>2, AVStep, InReadStep DEF AVInv
<1> QED
  BY <1>1, <1>3, AVInitHolds, EachReader, PTL DEF AV!Spec, PausedInTime
=============================================================================
