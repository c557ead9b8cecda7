CONSTANTS
    MaxId = 2
    Faults = {}
    Keys = {"k1"}
    Levels = {"RU", "RC"}
    ReadLevels = {"RC"}
    MaxOps = 1
    IoFaults = {"wal", "build"}
SPECIFICATION TFairSpec
INVARIANTS NoDirtyRead LogBeforeData CommitsSurviveCrash NoResurrection MarkersAccounted
PROPERTIES CommitsSettle
