CONSTANTS
    MaxId = 4
    Faults = {"crash", "writefail", "abandon"}
SPECIFICATION Spec
CHECK_DEADLOCK FALSE
INVARIANTS
    IInv
    CheckpointSound
    CommitAwaitsOwnFlush
    CheckpointTight
    WalCheckpointBelowLive
    SkipsSurviveRestart
    UniqueIds
PROPERTIES CheckpointMonotone
