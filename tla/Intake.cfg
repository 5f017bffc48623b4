SPECIFICATION MCSpec
CONSTANTS
    EvmIntents = {e1}
    SolanaIntents = {s1}
    Uploads = {u1}
    MaxStagedBlobs = 1
    MaxSubmitted = 2
    MaxEmpty = 1
    MaxFaults = 1
INVARIANTS
    NothingSlipsBy
    AnswersAreTrue
PROPERTIES
    CommitmentSticks
    DeliveredGetsStored
CHECK_DEADLOCK FALSE
