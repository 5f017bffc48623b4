CONSTANTS
    Payers = {p1}
    Admins = {a1}
    PeerAddresses = {oapp}
    Blobs = {b1}
    Deadlines = {0}
    Amounts = {1}
    EndEpochs = {3}
    MaxNonce = 2
    MaxTime = 1
    NoAccount = none
    MaxPackets = 2
    SuiOApp = oapp
    MaxEvents = 2
    Window = 1
    HistoryDepth = 2
    PageErrors = TRUE
    PairsPerTx = 2
    MinNonce = 0
    MaxFaults = 1
SPECIFICATION Spec
PROPERTIES SkippedWasLost
CHECK_DEADLOCK FALSE
