SPECIFICATION Spec
CONSTANTS
    Callers = {c1, c2}
    Start <- MCStart
    Levels <- MCLevels
    Epochs = {None, 0, 2}
    None = None
    SanityMax = 30
    MaxStaleness = 1
    MaxAge = 2
    RetryAfter = 1
    StoreEpochs = 1
    MaxEpochs = 2
    ReturnLzFee = 3
    SuiGas = 1
    MinCharge = 100
    MaxTime = 4
    MaxMoves = 2
    MaxLatency = 1
INVARIANTS
    SpendIsCovered
CHECK_DEADLOCK FALSE
