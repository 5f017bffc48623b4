SPECIFICATION Spec
CONSTANTS
    EvmIntents = {e1}
    SolanaIntents = {s1}
    Uploads = {u1}
    MaxStagedBlobs = 1
    MaxSubmitted = 2
    MaxEmpty = 0
    MaxFaults = 0
INVARIANT CapIsNeverExceeded
CHECK_DEADLOCK FALSE
