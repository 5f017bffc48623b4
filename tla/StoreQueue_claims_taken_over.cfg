SPECIFICATION Spec
CONSTANTS
    Intents = {i1}
    Procs = {p1, p2}
    Ticks = {k1}
    Objects = {o1, o2}
    None = None
    MaxStoreAttempts = 2
    ReturnMaxAttempts = 2
    BatchSize = 1
    StoreConcurrency = 1
    Outlasted = {}
INVARIANTS
    RowRunsOnce
CHECK_DEADLOCK FALSE
