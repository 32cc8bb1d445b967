\* The worker as shipped (no autoflush, plain task_type): work that was done is recorded as FAILED.
SPECIFICATION PSpec
CONSTANTS
    d1 = d1
    k1 = k1
    k2 = k2
    root = root
    e1 = e1
    e2 = e2
    c1 = c1
    c2 = c2
    Document = {d1}
    Chunk = {k1, k2}
    Task = {root, e1, e2}
    RootTask <- Roots
    EmbedTask <- Embeds
    DocumentOf <- Owner
    Rank <- Created
    Coordinator = {c1}
    NoTask = NoTask
    NoWorker = NoWorker
    NoRetry = NoRetry
    IsolatedSessions = TRUE
    BatchSize = 2
    MaxAttempts = 2
    MaxCrashes = 0
    MaxLosses = 0
    MaxRetries = 0
    Autoflush = FALSE
    EnumRows = FALSE
    CutCommits = FALSE
INVARIANT FailureIsReal
