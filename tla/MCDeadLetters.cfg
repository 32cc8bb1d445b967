\* Two operators and a worker: stale entries, replays that wait for claims.
SPECIFICATION DSpec
CONSTANTS
    t1 = t1
    t2 = t2
    c1 = c1
    o1 = o1
    o2 = o2
    Task = {t1, t2}
    Plain = {t1}
    Coordinator = {c1}
    Operator = {o1, o2}
    NoTask = NoTask
    NoWorker = NoWorker
    MaxAttempts = 2
    DeadAfter = 2
    BatchSize = 1
    Rank <- Equal
    IsolatedSessions = TRUE
    MaxCrashes = 0
    MaxLosses = 0
    MaxReplays = 2
SYMMETRY Symmetry
INVARIANTS DTypeOK NoStranded ReplayBound
PROPERTY ReopenedByReplay
