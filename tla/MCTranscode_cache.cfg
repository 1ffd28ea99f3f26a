SPECIFICATION FairSpec
CONSTANTS
    p1 = p1
    p2 = p2
    a = a
    b = b
    c = c
    None = None
    Paths = {p1, p2}
    Contents = {a, b, c}
    FormatOf <- MCFormatOf
    Targets = {"mp3", "odd", None}
    Formless = {"odd"}
    Blocks = 2
    Frozen = TRUE
INVARIANTS
    DataCoherent
    LengthsAgree
    AllTranscoded
PROPERTIES
    NeverRewritten
    Published
CHECK_DEADLOCK TRUE
