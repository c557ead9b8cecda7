CONSTANTS
    Base = 16
    LenW = 1
    IdW = 2
    Ids = {1, 35}
    Texts <- MCTexts
    MaxRecs = 2
    Marks = {0, 3, 4, 5, 8, 15}
SPECIFICATION KSpec
CHECK_DEADLOCK FALSE
INVARIANTS RoundTrip CutNoticed Canonical
