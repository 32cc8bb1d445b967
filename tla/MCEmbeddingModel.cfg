CONSTANTS
    short = short
    long = long
    Caller = {r1}
    Text = {short, long}
    TokensOf <- MCTokensOf
    BatchSize = 2
    Batch <- MCBatch
    MaxAttempts = 2
    MaxDelay = 2
    NoVector = NoVector
    Model = {large, small}
    NoModel = NoModel
    Capacity = 2
    MaxRequest = 2
    MaxWait = 2
    Charged = {"acquire"}
SPECIFICATION ESpec
INVARIANT ModelMatches
