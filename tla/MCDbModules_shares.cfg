SPECIFICATION ModulesSpec
CONSTANTS
    s1 = s1
    s2 = s2
    p1 = p1
    None = None
    Files = {s1, s2, p1}
    v1 = v1
    v2 = v2
    Versions = {v1, v2}
    Dbs = {"DAAP", "DPAP"}
    DbOf <- MCDbOf
    Shares <- MCShares
    Base = 3
SYMMETRY Alike
INVARIANTS
    IssuedKept
    OnlyFresh
PROPERTIES
    Contract
    DiskContract
CHECK_DEADLOCK TRUE
