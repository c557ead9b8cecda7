CONSTANTS
    Clients = {"c1", "c2"}
    Elems = {"a", "b"}
    Kinds = {"string", "hash", "list", "set", "zset"}
    Scores = {1}
    Seconds <- MCSeconds
    MaxArgs = 2
    MaxIndex = 4
    MaxTime = 1
    MaxCommands = 4
SPECIFICATION RFairSpec
CHECK_DEADLOCK FALSE
INVARIANTS RTypeOK FieldListExact SizeExact ScoresPaired LRangeExact
PROPERTIES CommandsEnd
