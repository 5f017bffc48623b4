SPECIFICATION Spec
CONSTANTS
    Intents = {i1}
    Procs = {p1}
    Ticks = {k1, k2}
    Objects = {o1}
    None = None
    MaxStoreAttempts = 1
    ReturnMaxAttempts = 1
    BatchSize = 1
    StoreConcurrency = 1
    Outlasted = {"watchdog", "lease"}
SYMMETRY Symmetry
INVARIANTS
    HonestInv
CHECK_DEADLOCK FALSE
