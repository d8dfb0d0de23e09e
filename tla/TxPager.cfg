SPECIFICATION Spec
CONSTANTS
    MaxSize = 5
    MaxBuf = 1
    SegCap = 2
    FirstPages = 1
    MaxRun = 2
    MaxDepth = 2
    MaxOps = 5
    MaxTxns = 1
    SpillFails = TRUE
INVARIANTS
    Partition
    TreeIntact
    CommittedIntact
    SlabSound
    CommitFits
CHECK_DEADLOCK FALSE
