CONSTANTS
    MaxPid = 3
    MaxForks = 2
    TermPolls = 1
    KillPolls = 1
    PidsWrap = FALSE
    Batch = 2
    Faults = {}
SPECIFICATION FairSpec
PROPERTIES StopIsHonoured
CHECK_DEADLOCK FALSE
