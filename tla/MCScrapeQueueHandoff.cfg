SPECIFICATION Spec
CONSTANTS
    Roms = {r1, r2}
    Kinds = {"artwork", "manual"}
    Workers = {w1}
    Dirs = {d1}
    MaxItems = 2
    MaxAdds = 2
    Faults = {}
INVARIANT HandoffKeepsWork
