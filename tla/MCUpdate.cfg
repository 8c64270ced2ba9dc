CONSTANTS
    A = A
    B = B
    Rejected = Rejected
    Junk = Junk
    Factory = Factory
    None = None
    Part = Part
    Kind <- MCKind
    Base <- MCBase
    Images = {A, B, Rejected, Junk}
    Names = {"update", "versioned", "other"}
    NBoot = 2
    Faults = {"power", "storage", "space", "check", "boot_rw", "root_copy", "boot_copy"}
    MaxDrops = 2
    MaxLosses = 2
SPECIFICATION UpdateSpec
INVARIANTS RootRecoverable OnlyCheckedImages KernelFollowsRoot
PROPERTIES ReplacesWhole HookFirst BootEnds
