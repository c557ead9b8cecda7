CONSTANTS
    Clients = {"c1", "c2"}
    Elems = {"a"}
    Kinds = {"hash"}
    Scores = {1}
    Seconds = {0}
    MaxArgs = 1
    MaxIndex = 0
    MaxTime = 1
    MaxCommands = 4
SPECIFICATION RSpec
CHECK_DEADLOCK FALSE
PROPERTIES CleanupSparesFresh
