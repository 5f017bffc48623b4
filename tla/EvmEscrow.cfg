SPECIFICATION Spec
CONSTANTS
    Users = {u1, u2}
    Relayers = {r1, r2}
    Blobs = {b1, b2}
    Deadlines = {1}
    Payments = {1, 3}
    Fees = {1, 2}
    MaxNonce = 1
    MaxTime = 2
SYMMETRY Symmetry
INVARIANTS
    Solvent
    ReleasedMeansProven
    RefundedAfterDeadline
    SlotBelongsToSubmission
PROPERTIES
    CreditsAreEarned
