SPECIFICATION FairSpec
CONSTANTS
    Procs <- MCProcs
    Mortal = {"p"}
    Reapers = {"q"}
    Threads <- MCThreads
    ProcOf <- MCProcOf
    NumSlots = 1
    MaxTxn = 3
    HoldDesc <- FileHoldDesc
    ProbeDesc <- MCProbeDesc
    NoOne = NoOne
INVARIANTS
    SnapshotIntact
    PinHeld
PROPERTY
    ResidueReaped
CHECK_DEADLOCK FALSE
