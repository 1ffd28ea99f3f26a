SPECIFICATION ReadersSpec
CONSTANTS
    None = None
    Empty = Empty
    Pictures <- MCPictures
    Widths = {0, 5, 8}
    Default = 4
    MaxAdds = 2
    Reads = 3
    Hangs = TRUE
    QuitStays = {TRUE, FALSE}
INVARIANTS
    PausedInTime
    ThumbnailFits
    NeverEnlarged
    ImagesHeld
PROPERTIES
    ReadEnds
    ReadOnce
\* A pipeline may hang, in which case so does the process.
CHECK_DEADLOCK FALSE
