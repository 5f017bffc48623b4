SPECIFICATION ServicesSpec
CONSTANTS
    Callers = {c1, c2}
    Start <- MCStart
    Levels <- MCLevels
    Epochs = {None, 0, 2}
    None = None
    SanityMax = 30
    MaxStaleness = 1
    MaxAge = 2
    RetryAfter = 1
    StoreEpochs = 1
    MaxEpochs = 2
    ReturnLzFee = 3
    SuiGas = 1
    MinCharge = 100
    MaxTime = 4
    MaxMoves = 2
    MaxLatency = 1
    WalCallers = {s1, s2}
    NoRun = NoRun
    WalFloor = 2
    SwapSui = 2
    SuiReserve = 1
    MaxLost = 1
    MaxFunds = 2
    Ips = {x}
    Apps = {a, b}
    NoApp = NoApp
    perIp = 2
    encodePerIp = 1
    perApp = 2
    windowMs = 2
    sweepEvery = 3
    maxKeys = 3
    MaxClock = 3
    MinBalance = 2
    MaxBalance = 3
INVARIANTS
    QuoteIsHonoured
    LossIsBounded
    SwapsAreJustified
    BurstIsBounded
    OutcomesAreTrue
PROPERTIES
    FeeIsRecent
    EvmKeepsProbing
CHECK_DEADLOCK FALSE
