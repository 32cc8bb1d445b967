CONSTANTS
    short = short
    long = long
    Caller = {r1, r2}
    Text = {short, long}
    TokensOf <- MCTokensOf
    BatchSize = 2
    Batch <- MCBatch
    MaxAttempts = 2
    MaxDelay = 2
    NoVector = NoVector
    Model = {large}
    NoModel = NoModel
    Capacity = 2
    MaxRequest = 2
    MaxWait = 2
    Charged = {"acquire", "wait"}
SPECIFICATION ESpec
SYMMETRY Symmetry
INVARIANT NoOverdraft
