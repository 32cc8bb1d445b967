CONSTANTS
    short = short
    long = long
    Caller = {r1}
    Text = {short, long}
    TokensOf <- MCTokensOf
    BatchSize = 2
    Batch <- MCBatch
    MaxAttempts = 4
    MaxDelay = 2
    NoVector = NoVector
    Model = {large}
    NoModel = NoModel
    Capacity = 3
    MaxRequest = 3
    MaxWait = 3
    Charged = {"acquire"}
SPECIFICATION EFairSpec
INVARIANTS ETypeOK WithinBudget WaitBound RefusedForReason VectorsMatch PaidAnswered
PROPERTY RequestsEnd
