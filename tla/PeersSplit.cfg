SPECIFICATION Spec
CONSTANTS
    p = p
    q = q
    k = k
    Procs = {p, q}
    Programs <- MCPrograms
    Global = Global
    Slots = {k}
    MaxCommits = 2
    MaxCompacts = 1
    MaxKills = 1
    RenameMortal = TRUE
    None = None
INVARIANTS
    OneHistory
CHECK_DEADLOCK FALSE
