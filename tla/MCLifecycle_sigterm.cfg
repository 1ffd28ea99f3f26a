SPECIFICATION FairSpec
CONSTANTS
    p1 = p1
    p2 = p2
    p3 = p3
    None = None
    Pids = {p1, p2}
    Digits <- MCDigits
    Foregrounds = {FALSE}
    Users = {None}
PROPERTIES
    AlwaysStops
CHECK_DEADLOCK TRUE
