SPECIFICATION MCSpec
CONSTANTS
    c1 = c1
    c2 = c2
    Calls = {c1, c2}
    Starts <- MCStarts
    Fees = {1, 2}
    FeeCap = 1
    Escrow = 3
    MaxAttempts = 2
    MaxElapsed = 3
    BaseDelay = 1
    MaxDelay = 2
    RetryAfters = {0, 4}
    MaxPolls = 1
    MaxFaults = 1
    MaxFeeMoves = 1
    MaxResumes = 1
INVARIANTS
    ProgressIsTrue
    PaidIsReported
    ChargedAsQuoted
PROPERTIES
    StoreSettles
CHECK_DEADLOCK FALSE
