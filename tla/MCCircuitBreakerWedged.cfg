\* Three callers, the shipped success threshold and half-open limit, two cancelled probes.
SPECIFICATION Spec
CONSTANTS
    Caller = {w1, w2, w3}
    FailureThreshold = 2
    SuccessThreshold = 2
    HalfOpenMax = 3
    MaxCancels = 2
    MaxResets = 0
INVARIANT NeverWedged
