CONSTANTS
    Keys = {1, 2}
    MaxVer = 2
    Ratio = 1
    MaxLevel = 4
    EngineFaults = {"crash", "build", "remove"}
    MaxWrites = 4
    MaxMem = 2
    MaxLate = 0
    MaxFaults = 2
SPECIFICATION SSpec
CHECK_DEADLOCK FALSE
INVARIANTS FlushedKept
