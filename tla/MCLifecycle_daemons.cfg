SPECIFICATION FairSpec
CONSTANTS
    p1 = p1
    p2 = p2
    p3 = p3
    None = None
    Pids = {p1, p2, p3}
    Digits <- MCDigits
    Foregrounds = {TRUE, FALSE}
    Users = {"dmapd"}
INVARIANTS
    OneDaemon
    PidFileKept
PROPERTIES
    SecondStartEnds
CHECK_DEADLOCK TRUE
