------------------------------ MODULE MCReaders ------------------------------
(* An instance of Readers for TLC.  Photographs larger than, as large as   *)
(* and smaller than a thumbnail, wide, tall and thin, with embedded        *)
(* thumbnails that are large enough for one width and too small for        *)
(* another, or of other proportions; a JPEG of several scans; a file       *)
(* that is no picture.                                                     *)
EXTENDS Readers

Size(x, y) == [w |-> x, h |-> y]

Picture(size, loader, embedded, multiscan) ==
    [size |-> size, loader |-> loader, embedded |-> embedded, multiscan |-> multiscan]

MCPictures ==
    {Picture(Size(50, 37), "jpeg", Size(16, 12), FALSE),
     Picture(Size(23, 71), "jpeg", Size(7, 11), FALSE),
     Picture(Size(9, 41), "jpeg", Size(3, 6), TRUE),
     Picture(Size(8, 8), "jpeg", None, FALSE),
     Picture(Size(3, 4), "other", None, FALSE),
     Picture(Size(60, 1), "other", None, FALSE),
     Picture(Size(1, 1), "none", None, FALSE)}
=============================================================================
