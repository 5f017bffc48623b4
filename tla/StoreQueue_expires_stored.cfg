SPECIFICATION Spec
CONSTANTS
    Intents = {i1}
    Procs = {p1}
    Ticks = {k1}
    Objects = {o1}
    None = None
    MaxStoreAttempts = 2
    ReturnMaxAttempts = 2
    BatchSize = 1
    StoreConcurrency = 1
    Outlasted = {}
INVARIANTS
    ExpiredNeverStored
CHECK_DEADLOCK FALSE
