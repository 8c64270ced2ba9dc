CONSTANTS
    A = A
    B = B
    Rejected = Rejected
    Junk = Junk
    Factory = Factory
    None = None
    Part = Part
    Kind <- MCKind
    Base <- MCBase
    Images = {A}
    Names = {"update"}
    NBoot = 1
    Faults = {"power", "torn"}
    MaxDrops = 1
    MaxLosses = 1
SPECIFICATION Spec
INVARIANTS RootRecoverable
