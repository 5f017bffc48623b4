SPECIFICATION FairSpec
CONSTANTS
    Intents = {i1}
    Procs = {p1, p2}
    Ticks = {k1}
    Objects = {o1}
    None = None
    MaxStoreAttempts = 1
    ReturnMaxAttempts = 1
    BatchSize = 1
    StoreConcurrency = 1
    Outlasted = {}
PROPERTIES
    ReadyIsSettled
CHECK_DEADLOCK FALSE
