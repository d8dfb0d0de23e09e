SPECIFICATION Spec
CONSTANTS
    Procs <- MCProcs
    Mortal = {"p"}
    Reapers = {"q"}
    Threads <- MCThreads
    ProcOf <- MCProcOf
    NumSlots = 1
    MaxTxn = 2
    HoldDesc <- RangeHoldDesc
    ProbeDesc <- MCProbeDesc
    NoOne = NoOne
INVARIANT
    PinHeld
CHECK_DEADLOCK FALSE
