SPECIFICATION SessionSpec
CONSTANTS
    MaxQueue = 3
    MaxPid = 3
    MaxForks = 2
    TermPolls = 2
    KillPolls = 1
    PidsWrap = TRUE
    Batch = 2
    Faults = {"proc"}
    NoWriter = NoWriter
    W1 = W1
    W2 = W2
    Writers = {W1, W2}
    MaxPolls = 2
INVARIANTS
    WriteTypeOK
    NoStraySignal
    SleepsWhenAsked
    WritesAreOwned
    NeverSilentlyWritable
PROPERTIES
    WaiterReturns
    PeriodEnds
    PoisonRefuses
    SuccessIsDurable
    EveryCallReturns
CHECK_DEADLOCK FALSE
