SPECIFICATION FairSpec
CONSTANTS
    p1 = p1
    p2 = p2
    a = a
    b = b
    None = None
    Paths = {p1, p2}
    Contents = {a, b}
    Media = {a, b}
    FormatOf <- MCFormatOf
    Configs <- ManyConfigs
    FirstIds = {6}
    Moving = {p2}
INVARIANTS
    IdsContiguous
    ExactlyOnce
    FreshRecords
    CacheCoherent
    CacheServed
    CacheUsed
    Complete
PROPERTIES
    Contract
    Started
CHECK_DEADLOCK TRUE
