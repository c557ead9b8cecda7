CONSTANTS
    Txs = {1, 2}
    BufferSize = 2
    FileSizeLimit = 1
    MaxSeq = 2
    WalFaults = {"io", "remove", "crash"}
    MaxRecords = 3
    MaxOpens = 2
SPECIFICATION WFairSpec
CHECK_DEADLOCK FALSE
INVARIANTS WTypeOK LogOrdered AckedKept
PROPERTIES CloseEnds CoveredFilesGo
