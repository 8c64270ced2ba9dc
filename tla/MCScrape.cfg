SPECIFICATION ScrapeSpec
CONSTANTS
    Roms = {r1, r2}
    Kinds = {"artwork", "cheat", "manual"}
    Workers = {w1}
    Dirs = {d1, d2}
    MaxItems = 2
    MaxAdds = 2
    Faults = {"thread", "settings"}
    Items = {"i1", "i2"}
    MaxKills = 2
    CardFaults = {"save", "init", "read", "pid"}
INVARIANTS ClaimsHold SnapshotIsFinal OneOwner BackgroundSurvives
PROPERTIES WorkDrains Reopens
CHECK_DEADLOCK FALSE
