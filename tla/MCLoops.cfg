SPECIFICATION LoopSpec
CONSTANTS
    DlCount = 3
    MaxConcurrent = 2
    Slots = 3
    DlFaults = {"calloc", "thread", "open", "curl", "net", "flush"}
    MaxCombos = 1
    SeqBuffer = 2
    ComboQueue = 1
    GapCap = 2
    FooterGap = 1
    MarkerText = 1
    FooterMax = 14
    Setups <- MCSetups
    Ring = 3
    RepeatDelay = 2
    RepeatRate = 1
    Debounce = 1
    IdleMax = 3
    Off = 99
    MaxLag = 1
INVARIANTS
    ResultExact
    NothingLeftHeld
    WakesInTime
    FooterHonest
PROPERTIES
    ManagerEnds
    KeepsRepeating
CHECK_DEADLOCK FALSE
