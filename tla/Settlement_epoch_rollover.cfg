SPECIFICATION Spec
CONSTANTS
    Users = {u1}
    Relayers = {r1}
    Blobs = {b1, b2}
    Deadlines = {1}
    Payments = {4}
    Fees = {1, 5}
    MaxNonce = 1
    MaxTime = 2
    SuiAddresses = {s1, s2}
    None = None
    MsPerSecond = 2
    MaxClock = 3
    MaxEpoch = 1
    MaxUploads = 2
    Self = s1
    StorageEpochs = 2
    EpochCaps = {1, 2}
    Costs = {2, 3}
    MarginPercent = 10
    MaxStoreAttempts = 2
    ReturnMaxAttempts = 3
    MaxUncounted = 1
INVARIANTS
    UploadCoversCommitment
CHECK_DEADLOCK FALSE
