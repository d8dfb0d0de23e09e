SPECIFICATION Spec
CONSTANTS
    Blocks <- FileBlocks
    InodeBlocks <- LengthBlock
    Procs = {p, q}
    MaxSize = 5
    ShrinkThreshold = 0
    TreeSize = 1
    MaxTxn = 6
    Failing <- AllSteps
    Plans <- MCPlans
    None = None
    p = p
    q = q
INVARIANTS
    LiveIntact
    CrashSafe
    Openable
    AnchorSound
    NoDoubleUse
    PinIntact
SYMMETRY Symmetry
CHECK_DEADLOCK FALSE
