SPECIFICATION Spec
CONSTANTS
    Intents = {i1, i2}
    Procs = {p1}
    Ticks = {k1, k2}
    Objects = {o1}
    None = None
    MaxStoreAttempts = 1
    ReturnMaxAttempts = 1
    BatchSize = 2
    StoreConcurrency = 1
    Outlasted = {}
SYMMETRY Symmetry
INVARIANTS
    LedgerIsEvidence
    ProcessRunsRowOnce
CHECK_DEADLOCK FALSE
