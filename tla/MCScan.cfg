CONSTANTS
    Keys = {1, 2}
    MaxVer = 2
    Caps = {0, 1}
    Ratio = 1
    MaxWrites = 3
SPECIFICATION RSpec
CHECK_DEADLOCK FALSE
INVARIANTS ScanExact
PROPERTIES RangeExact
