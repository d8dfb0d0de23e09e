SPECIFICATION FairSpec
CONSTANTS
    Callers <- OneCaller
    Readers <- OneReader
    BatchCalls <- TwoCalls
    Clients <- GrantClients
    MaxBatchSize = 2
    MaxPeerLocks = 1
    MaxOps = 2
INVARIANTS
    TearsSeen
    WriteExclusive
    MappedInUse
    CloseDurable
    BatchTruthful
PROPERTIES
    SkipJustified
    CloseReturns
    CallsAnswered
CHECK_DEADLOCK FALSE
