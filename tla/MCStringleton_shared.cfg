SPECIFICATION Spec
CONSTANTS
    r1 = r1
    r2 = r2
    r3 = r3
    s1 = s1
    s2 = s2
    None = None
    Records = {r1, r2, r3}
    Strings = {s1, s2}
    Fields = {"artist", "sort"}
    Unreleased = {"sort"}
    MaxCount = 7
INVARIANTS
    NoneFreed
    NothingKept
CHECK_DEADLOCK TRUE
