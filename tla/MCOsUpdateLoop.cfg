CONSTANTS
    A = A
    B = B
    Rejected = Rejected
    Junk = Junk
    Factory = Factory
    None = None
    Part = Part
    Kind <- MCKind
    Base <- MCBase
    Images = {A}
    Names = {"other"}
    NBoot = 1
    Faults = {}
    MaxDrops = 1
    MaxLosses = 0
SPECIFICATION FairSpec
PROPERTIES BootReachesFrontend
