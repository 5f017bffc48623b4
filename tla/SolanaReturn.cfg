CONSTANTS
    Payers = {p1}
    Admins = {a1}
    PeerAddresses = {oapp}
    Blobs = {b1}
    Deadlines = {0}
    Amounts = {1}
    EndEpochs = {3}
    MaxNonce = 2
    MaxTime = 1
    NoAccount = none
    MaxPackets = 2
    SuiOApp = oapp
    MaxEvents = 3
    Window = 1
    HistoryDepth = 2
    PageErrors = FALSE
    PairsPerTx = 2
    MinNonce = 0
    MaxFaults = 2
SPECIFICATION Spec
INVARIANTS SeenMeansCleared
PROPERTIES SkippedWasLost KeepsTheBargain ProofsGetCleared
CHECK_DEADLOCK FALSE
