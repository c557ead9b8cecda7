CONSTANTS
    Keys = {1, 2}
    MaxVer = 2
    Ratio = 2
    MaxLevel = 3
    EngineFaults = {"crash"}
    MaxWrites = 5
    MaxMem = 1
    MaxLate = 0
    MaxFaults = 1
SPECIFICATION SSpec
CHECK_DEADLOCK FALSE
INVARIANTS LevelsDisjoint
