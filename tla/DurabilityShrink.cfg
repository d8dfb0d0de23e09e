SPECIFICATION Spec
CONSTANTS
    Blocks <- FileBlocks
    InodeBlocks <- LengthBlock
    Procs = {p}
    MaxSize = 7
    ShrinkThreshold = 1
    TreeSize = 2
    MaxTxn = 6
    Failing <- AllSteps
    Plans <- Dying
    None = None
    p = p
INVARIANTS
    Openable
CHECK_DEADLOCK FALSE
