CONSTANTS
    Process = {p1, p2}
    Rpm = 2
    Window = 2
    MaxTries = 3
    MaxPolls = 2
SPECIFICATION GSpec
SYMMETRY Symmetry
INVARIANTS GTypeOK WindowBound FailureExplained
PROPERTY RetryAfterHelps
