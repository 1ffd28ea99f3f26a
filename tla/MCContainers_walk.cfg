SPECIFICATION Spec
CONSTANTS
    root = root
    sub = sub
    deep = deep
    shut = shut
    alone = alone
    f1 = f1
    f2 = f2
    f3 = f3
    f4 = f4
    f5 = f5
    None = None
    Dirs = {root, sub, deep, shut, alone}
    Files = {f1, f2, f3, f4, f5}
    Home <- MCHome
    Parent <- MCParent
    Unreadable = {shut}
    Refused = {f3}
    StartLists <- MCStartLists
    WithContainers = TRUE
    Base = 10
INVARIANTS
    EntriesInPlace
    CountsAgree
    AllContained
    IdsApart
CHECK_DEADLOCK TRUE
