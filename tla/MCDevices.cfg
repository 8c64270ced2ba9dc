SPECIFICATION DeviceSpec
CONSTANTS
    Externals = {"e1"}
    Builtin = "builtin"
    Commands = {"release", "reclaim", "ensure"}
    MaxChanges = 3
    MaxTimeouts = 1
    Data = {7, 255}
    LineStart = 255
    LineEnd = 254
    LineFaults = 2
    Sticks <- MCSticks
    Frames <- MCFrames
    Calibrations <- MCCalibrations
    Default <- MCDefault
    Deadzones = {30}
    Deadband = 2
    Window = 2
    Spread = 1
    Match = 1
    AbsRange = 20
    MaxEvents = 6
    Rates = {1, 2, 3}
    OppVolt <- MCOppVolt
    BootRate = 2
    MaxCalls = 4
    MaxErrors = 2
    Clients = {"menu", "pak"}
    Chain <- MCChain
    Values = {1}
    Orphans = {"game"}
    FirstRows <- MCFirstRows
    PrefsMax = 2
    MaxOps = 3
    MaxBad = 1
    ExportLists <- MCExportLists
    Conf <- MCConf
    Ffs <- MCFfs
    Mqueue <- MCMqueue
    Progs <- MCProgs
    Exec <- MCExec
    Sensitive <- MCSensitive
    LinkTarget <- MCLinkTarget
    MaxExports = 2
    MaxBinds = 5
    MaxSwaps = 2
    Nodes = {1, 2}
    MaxPads = 2
    MaxPlugs = 2
    MaxKeys = 3
    MaxPid = 3
    MaxForks = 2
    TermPolls = 2
    KillPolls = 1
    PidsWrap = TRUE
    Batch = 2
    Faults = {"proc", "publish", "child"}
INVARIANTS
    PolicyApplied
    InStep
    SticksTrue
    MotorAndButtons
    MemorySafe
    Confined
    ChordHonest
    FrontendAlone
PROPERTIES
    KeepsRows
CHECK_DEADLOCK FALSE
