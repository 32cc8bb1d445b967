\* Four callers, the shipped success threshold and half-open limit, two cancelled calls.
SPECIFICATION FairSpec
CONSTANTS
    Caller = {w1, w2, w3, w4}
    FailureThreshold = 2
    SuccessThreshold = 2
    HalfOpenMax = 3
    MaxCancels = 2
    MaxResets = 1
INVARIANTS TypeOK ClosedBelowThreshold WedgedOnlyByCancels
PROPERTIES ClosesOnEvidence Recovers
