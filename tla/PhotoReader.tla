------------------------------ MODULE PhotoReader ------------------------------
(***************************************************************************)
(* How a photograph becomes a record: the metadata readers                 *)
(* photo-meta-reader-vips.c and photo-meta-reader-graphicsmagick.c, called *)
(* by dmapd_dpap_record_new for add_path, and the thumbnail they make.     *)
(* The VIPS reader takes the cheapest image that will do: the thumbnail    *)
(* embedded in a JPEG, else a version of the JPEG that libjpeg shrinks     *)
(* while loading, else the whole; it shrinks that by an integer and scales *)
(* the rest.  All images belong to one object, process, and go with it.    *)
(*                                                                         *)
(* The module follows one photograph over any number of runs of the        *)
(* daemon; of the cache it keeps that photograph's record.  Files that     *)
(* change, and ids, are MediaDb's.                                         *)
(***************************************************************************)
EXTENDS Integers, Sequences

CONSTANTS
    Pictures,   \* what the photograph can be
    Widths,     \* what --max-thumbnail-width can be
    Default,    \* DEFAULT_MAX_THUMBNAIL_WIDTH
    MaxAdds,    \* bound: records of the photograph in one run
    None,       \* no image, no record
    Empty       \* a thumbnail of no bytes

Sizes == [w : Nat \ {0}, h : Nat \ {0}]

Records == [location : {"file:///", "file//"}, thumbnail : [w : Nat, h : Nat] \cup {Empty},
            limit : Nat \ {0}, source : Sizes]

ASSUME ConstantsAssumption ==
    /\ Pictures \subseteq [size : Sizes, loader : {"jpeg", "other", "none"},
                           embedded : Sizes \cup {None}, multiscan : BOOLEAN]
    /\ Widths \subseteq Nat /\ Default \in Nat \ {0}
    /\ MaxAdds \in Nat
    /\ None \notin Sizes \cup Records /\ Empty \notin [w : Nat, h : Nat]

VARIABLES
    picture,    \* the photograph
    reader,     \* the module of this run: "vips", "graphicsmagick"
    width,      \* its max-thumbnail-width
    place,      \* where it is
    refs,       \* references to VIPS images: pairs of image and holder
    image,      \* the image thumbnail_open returns
    source,     \* its size
    record,     \* the record being made, or None
    served,     \* the database: the records of the photograph
    cached      \* its record in the cache, or None

vars == <<picture, reader, width, place, refs, image, source, record, served, cached>>

-----------------------------------------------------------------------------
(* Slips. *)

(* The width of an image is taken for its longer side. *)
Slip_Longer(size) == size.w

(* The size of an embedded thumbnail is not looked at. *)
Slip_LargeEnough(size) == TRUE

(* The record is stored under another name, which can be made of any       *)
(* location.                                                               *)
Slip_StoreRecord ==
    /\ place = "store"
    /\ cached' = record
    /\ place' = "insert"
    /\ UNCHANGED <<picture, reader, width, refs, image, source, record, served>>

-----------------------------------------------------------------------------
(* Sizes.                                                                  *)

Longer(size) == IF size.w >= size.h THEN size.w ELSE size.h

(* max-thumbnail-width, which g_object_set refuses to make 0, and which is *)
(* 0 before it is set.                                                     *)
Limit == IF width = 0 THEN Default ELSE width

(* calculate_shrink: the integer part, and the size after it.  The         *)
(* residual scale is Limit / Whole.                                        *)
Shrink(size) == IF Longer(size) < Limit THEN 1 ELSE Longer(size) \div Limit
Whole(size)  == Longer(size) \div Shrink(size)

(* thumbnail_find_jpegshrink.                                              *)
JpegShrink(size) ==
    CASE Shrink(size) >= 8 -> 8
      [] Shrink(size) \in 4 .. 7 -> 4
      [] Shrink(size) \in 2 .. 3 -> 2
      [] OTHER -> 1

(* Is an embedded thumbnail large enough?  Its residual is at most 1.      *)
LargeEnough(size) == Whole(size) >= Limit

(* What libjpeg can make of an image it divides by j while loading it:     *)
(* versions round up or down, and no side becomes 0.                       *)
Loaded(size, j) ==
    {s \in {[w |-> size.w \div j, h |-> size.h \div j],
            [w |-> (size.w + j - 1) \div j, h |-> (size.h + j - 1) \div j]} :
        s.w > 0 /\ s.h > 0}

(* vips_shrink, which fails if a side would be 0.                          *)
Shrunk(size) == [w |-> size.w \div Shrink(size), h |-> size.h \div Shrink(size)]

(* vips_affine by the residual, to the nearest size.                       *)
Nearest(a, b) == (2 * a + b) \div (2 * b)
Scaled(size) == [w |-> Nearest(Shrunk(size).w * Limit, Whole(size)),
                 h |-> Nearest(Shrunk(size).h * Limit, Whole(size))]

(* The shorter side GraphicsMagick is asked for.  The aspect ratio is a    *)
(* float, so that what should be whole can come out one less.              *)
Shorter(side, longer) ==
    LET x == (side * Limit) \div longer
    IN  CASE side = longer -> {Limit}
          [] side # longer /\ (side * Limit) % longer = 0 -> {x - 1, x}
          [] OTHER -> {x}

Resized(size) ==
    IF size.w > size.h THEN [w : {Limit}, h : Shorter(size.h, size.w)]
                       ELSE [w : Shorter(size.w, size.h), h : {Limit}]

-----------------------------------------------------------------------------
(* Records.                                                                *)

(* limit and source are histories: the width the thumbnail was made for,   *)
(* and the size of the image it was made from.                             *)
Record(thumb, from, uri) ==
    [location |-> uri, thumbnail |-> thumb, limit |-> Limit, source |-> from]

(* dmap_db_lookup_id_by_location.                                          *)
Known == \E i \in DOMAIN served : served[i].location = "file:///"

-----------------------------------------------------------------------------
(* References.  What an image holds is let go when nobody holds the image. *)

Alive(i) == \E r \in refs : r[1] = i
Abandoned == {r \in refs : r[2] # "reader" /\ ~Alive(r[2])}
Local(i) == {<<i, "process">>}

-----------------------------------------------------------------------------
Init ==
    /\ picture \in Pictures
    /\ reader = "vips" /\ width = Default
    /\ place = "down" /\ refs = {} /\ image = None /\ source = None
    /\ record = None /\ served = <<>> /\ cached = None

(* The daemon is started, with a reader and a width, and loads the cache.  *)
Start(module, w) ==
    /\ place = "down"
    /\ reader' = module /\ width' = w
    /\ served' = IF cached = None THEN <<>> ELSE <<cached>>
    /\ place' = "walk"
    /\ UNCHANGED <<picture, refs, image, source, record, cached>>

(* dmapd_dpap_record_new, as the walk comes to the photograph: once for    *)
(* each picture directory it lies under.                                   *)
Begin ==
    /\ place = "walk" /\ ~Known /\ Len(served) < MaxAdds
    /\ IF reader = "vips"
       THEN place' = "format" /\ refs' = {<<"process", "reader">>}
       ELSE place' = "wand" /\ UNCHANGED refs
    /\ UNCHANGED <<picture, reader, width, image, source, record, served, cached>>

Goto(there) ==
    /\ place' = there
    /\ UNCHANGED <<picture, reader, width, served, cached>>

(* Go on with another image of the process.                                *)
Open(here, i, there) ==
    /\ place = here
    /\ refs' = refs \cup Local(i)
    /\ Goto(there)
    /\ UNCHANGED <<image, source, record>>

(* goto _done: there will be no record.                                    *)
Reject(here) ==
    /\ place = here
    /\ Goto("close")
    /\ UNCHANGED <<refs, image, source, record>>

FindFormat ==
    /\ picture.loader # "none"
    /\ place = "format" /\ Goto("open")
    /\ UNCHANGED <<refs, image, source, record>>

(* The image, for its size and tags.                                       *)
OpenImage == Open("open", "image", "loader")

(* thumbnail_open: vips_foreign_find_load.                                 *)
FindLoader ==
    /\ place = "loader"
    /\ Goto(IF picture.loader = "jpeg" THEN "header" ELSE "other")
    /\ UNCHANGED <<refs, image, source, record>>

(* The JPEG without its pixels.                                            *)
ReadHeader == Open("header", "header", "embedded")

(* thumbnail_get_thumbnail: the embedded thumbnail is decoded.             *)
DecodeEmbedded ==
    /\ place = "embedded" /\ picture.embedded # None
    /\ refs' = refs \cup {<<"decoded", "reader">>}
    /\ Goto("decoded")
    /\ UNCHANGED <<image, source, record>>

(* A slip: the thumbnail does not hold the header. *)
Slip_ReloadEmbedded ==
    /\ place = "decoded" /\ LargeEnough(picture.embedded)
    /\ refs' = (refs \ {<<"decoded", "reader">>}) \cup Local("thumb")
    /\ image' = "thumb"
    /\ source' \in Loaded(picture.embedded, JpegShrink(picture.embedded))
    /\ Goto("shrink")
    /\ UNCHANGED record

(* It is loaded again, smaller.  It lies in the header, which has to last  *)
(* as long.                                                                *)
ReloadEmbedded ==
    /\ place = "decoded" /\ LargeEnough(picture.embedded)
    /\ refs' = (refs \ {<<"decoded", "reader">>}) \cup Local("thumb") \cup {<<"header", "thumb">>}
    /\ image' = "thumb"
    /\ source' \in Loaded(picture.embedded, JpegShrink(picture.embedded))
    /\ Goto("shrink")
    /\ UNCHANGED record

(* There is none, it cannot be read, or it is too small.                   *)
LeaveEmbedded ==
    /\ place \in {"embedded", "decoded"}
    /\ refs' = refs \ {<<"decoded", "reader">>}
    /\ Goto("main")
    /\ UNCHANGED <<image, source, record>>

JpegIsMultiscan == picture.multiscan

(* thumbnail_open returns the header: the JPEG is of several scans, which  *)
(* was not to be read, or it cannot be loaded smaller.                     *)
UseHeader ==
    /\ place = "main"
    /\ image' = "header" /\ source' = picture.size
    /\ Goto("shrink")
    /\ UNCHANGED <<refs, record>>

LoadMain ==
    /\ place = "main" /\ ~JpegIsMultiscan
    /\ refs' = refs \cup Local("main")
    /\ image' = "main"
    /\ source' \in Loaded(picture.size, JpegShrink(picture.size))
    /\ Goto("shrink")
    /\ UNCHANGED record

(* All other formats.                                                      *)
LoadOther ==
    /\ place = "other"
    /\ refs' = refs \cup Local("main")
    /\ image' = "main" /\ source' = picture.size
    /\ Goto("shrink")
    /\ UNCHANGED record

(* thumbnail_shrink, by a chain of images of the process's.                *)
ShrinkImage ==
    /\ place = "shrink" /\ Shrunk(source).w > 0 /\ Shrunk(source).h > 0
    /\ refs' = refs \cup Local("chain")
    /\ record' = Record(Scaled(source), source, "file:///")
    /\ Goto("close")
    /\ UNCHANGED <<image, source>>

(* Any of its steps can fail, and the first must if a side would be 0: the *)
(* record is kept, without a thumbnail.                                    *)
ShrinkFails ==
    /\ place = "shrink"
    /\ refs' \in {refs, refs \cup Local("chain")}
    /\ record' = Record(Empty, source, "file:///")
    /\ Goto("close")
    /\ UNCHANGED <<image, source>>

(* g_object_unref (process), and what follows from it.                     *)
CloseProcess ==
    /\ place = "close" /\ <<"process", "reader">> \in refs
    /\ refs' = refs \ {<<"process", "reader">>}
    /\ image' = None
    /\ Goto("close")
    /\ UNCHANGED <<source, record>>

Release(r) ==
    /\ place = "close" /\ r \in Abandoned
    /\ refs' = refs \ {r}
    /\ Goto("close")
    /\ UNCHANGED <<image, source, record>>

(* add_path goes on with the record, or without one.                       *)
Closed ==
    /\ place = "close" /\ ~Alive("process") /\ Abandoned = {}
    /\ source' = None
    /\ Goto(IF record = None THEN "walk" ELSE "store")
    /\ UNCHANGED <<refs, image, record>>

(* photo_meta_reader_graphicsmagick_read.  It does not look at whether the *)
(* resizing succeeded, which to 0 it cannot, and gives the record a        *)
(* location of its own that is no URI.                                     *)
ReadWand ==
    /\ place = "wand"
    /\ \E thumb \in {s \in Resized(picture.size) : s.w > 0 /\ s.h > 0}
                        \cup {picture.size, Empty} :
         record' = Record(thumb, picture.size, "file//")
    /\ Goto("store")
    /\ UNCHANGED <<refs, image, source>>

WandFails ==
    /\ place = "wand" /\ Goto("walk")
    /\ UNCHANGED <<refs, image, source, record>>

(* cache_store: a location that is no URI cannot be hashed; nor need there *)
(* be a directory, or room in it.                                          *)
StoreRecord ==
    /\ place = "store"
    /\ \/ record.location = "file:///" /\ cached' = record
       \/ UNCHANGED cached
    /\ place' = "insert"
    /\ UNCHANGED <<picture, reader, width, refs, image, source, record, served>>

InsertRecord ==
    /\ place = "insert"
    /\ served' = Append(served, record) /\ record' = None
    /\ place' = "walk"
    /\ UNCHANGED <<picture, reader, width, refs, image, source, cached>>

(* The daemon ends, at any step.                                           *)
Stop ==
    /\ place # "down"
    /\ place' = "down" /\ refs' = {} /\ image' = None /\ source' = None
    /\ record' = None /\ served' = <<>>
    /\ UNCHANGED <<picture, reader, width, cached>>

Read ==
    \/ FindFormat \/ OpenImage \/ FindLoader \/ ReadHeader
    \/ DecodeEmbedded \/ ReloadEmbedded \/ LeaveEmbedded
    \/ UseHeader \/ LoadMain \/ LoadOther \/ ShrinkImage \/ ShrinkFails
    \/ \E here \in {"format", "open", "loader", "header", "other"} : Reject(here)
    \/ ReadWand \/ WandFails

Next ==
    \/ \E module \in {"vips", "graphicsmagick"}, w \in Widths : Start(module, w)
    \/ Begin \/ Read
    \/ CloseProcess \/ Closed
    \/ \E r \in refs : Release(r)
    \/ StoreRecord \/ InsertRecord
    \/ Stop

Spec == Init /\ [][Next]_vars

-----------------------------------------------------------------------------
Images == {"process", "image", "header", "decoded", "thumb", "main", "chain"}

Places == {"down", "walk", "format", "open", "loader", "header", "embedded", "decoded",
           "main", "other", "shrink", "close", "wand", "store", "insert"}

TypeOK ==
    /\ picture \in Pictures /\ reader \in {"vips", "graphicsmagick"} /\ width \in Nat
    /\ place \in Places
    /\ refs \subseteq Images \X {"reader", "process", "thumb"}
    /\ image \in {None, "header", "thumb", "main"} /\ source \in Sizes \cup {None}
    /\ record \in Records \cup {None}
    /\ served \in Seq(Records) /\ cached \in Records \cup {None}

(* The records there are: in the making, served, cached.                   *)
AllRecords == ({record, cached} \cup {served[i] : i \in DOMAIN served}) \ {None}

(* "Maximum thumbnail size" (dmapd.c:160): the longer side of a thumbnail  *)
(* is the width it was made for, whichever image it was made from, how     *)
(* often that was shrunk, and whatever the proportions.  Or the thumbnail  *)
(* is empty; or GraphicsMagick left the photograph as it was.              *)
ThumbnailFits ==
    \A r \in AllRecords : r.thumbnail # Empty =>
        \/ Longer(r.thumbnail) = r.limit
        \/ r.location = "file//" /\ r.thumbnail = picture.size

(* No photograph that is large enough is enlarged: neither the embedded    *)
(* thumbnail nor the shrinking while loading leaves fewer pixels than the  *)
(* thumbnail is to have.                                                   *)
NeverEnlarged ==
    \A r \in AllRecords : Longer(picture.size) >= r.limit => Longer(r.source) >= r.limit

(* "unref this to unref everything we created during this operation"       *)
(* (photo-meta-reader-vips.c:416): nothing is left between two reads.  Nor *)
(* is anything let go too soon: the image in hand is there, and the JPEG   *)
(* that an embedded thumbnail lies in is there as long as the thumbnail.   *)
ImagesHeld ==
    /\ place \in {"walk", "store", "insert"} => refs = {}
    /\ place = "shrink" => Alive(image)
    /\ Alive("thumb") => Alive("header")

(* "Caching of photograph thumbnails to avoid regenerating them each time" *)
(* (README:22): what could be cached, in this run or before a crash or a   *)
(* restart, with whichever reader and width, is not read again.            *)
ReadOnce == [][place = "walk" /\ place' \in {"format", "wand"} => cached = None]_vars
=============================================================================
