CONSTANTS
    Keys = {1, 2}
    MaxVer = 2
    Ratio = 2
    MaxLevel = 3
    EngineFaults = {}
    MaxWrites = 5
    MaxMem = 5
    MaxLate = 1
    MaxFaults = 0
SPECIFICATION SSpec
CHECK_DEADLOCK FALSE
INVARIANTS STypeOK ReadsNewest LevelsDisjoint
