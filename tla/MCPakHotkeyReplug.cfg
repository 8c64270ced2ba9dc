SPECIFICATION HotSpec
CONSTANTS
    Nodes = {1, 2}
    MaxPads = 2
    MaxPlugs = 3
    MaxKeys = 0
PROPERTY EveryPadWatched
CHECK_DEADLOCK FALSE
