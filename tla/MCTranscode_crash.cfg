SPECIFICATION FairSpec
CONSTANTS
    p1 = p1
    p2 = p2
    a = a
    b = b
    c = c
    None = None
    Paths = {p1, p2}
    Contents = {a, b, c}
    FormatOf <- MCFormatOf
    Targets = {"mp3"}
    Formless = {}
    Blocks = 2
    Frozen = TRUE
INVARIANT
    ReplacedByWhole
CHECK_DEADLOCK TRUE
