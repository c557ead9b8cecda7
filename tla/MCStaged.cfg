CONSTANTS
    MaxId = 3
    Faults = {}
    Keys = {"k1"}
    Levels = {"RC", "SER"}
    ReadLevels = {"RC", "SER"}
    MaxOps = 1
    IoFaults = {}
SPECIFICATION TSpec
INVARIANTS TTypeOK AtomicRead
PROPERTIES ImplementsTxnMap
