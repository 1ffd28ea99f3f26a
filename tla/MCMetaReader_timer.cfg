SPECIFICATION Spec
CONSTANTS
    Reads = 3
    Hangs = FALSE
    QuitStays = {FALSE}
INVARIANTS
    QuitInTime
CHECK_DEADLOCK TRUE
