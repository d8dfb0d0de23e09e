SPECIFICATION Spec
CONSTANTS
    p = p
    q = q
    k = k
    Procs = {p, q}
    Programs <- MCPrograms
    Global = Global
    Slots = {k}
    MaxCommits = 2
    MaxCompacts = 1
    MaxKills = 1
    RenameMortal = FALSE
    None = None
INVARIANTS
    OneHistory
    SnapshotFresh
    LeaksExact
    WaitTruthful
    NotifyMapped
PROPERTIES
    VersionsRise
    WaitEnds
CHECK_DEADLOCK FALSE
