CONSTANTS
    MaxPid = 4
    MaxForks = 2
    TermPolls = 1
    KillPolls = 1
    PidsWrap = FALSE
    Batch = 2
    Faults = {}
SPECIFICATION Spec
INVARIANTS NobodyLeft
CHECK_DEADLOCK FALSE
