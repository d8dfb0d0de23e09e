SPECIFICATION Spec
CONSTANTS
    Blocks <- FileBlocks
    InodeBlocks <- LengthBlock
    Procs = {p}
    MaxSize = 5
    ShrinkThreshold = 0
    TreeSize = 1
    MaxTxn = 6
    Failing <- AllSteps
    Plans <- Faulty
    None = None
    p = p
INVARIANTS
    CrashConsistent
CHECK_DEADLOCK FALSE
