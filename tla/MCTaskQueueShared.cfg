\* The legacy shared session: per-task commits and recovery of stuck tasks.
SPECIFICATION Spec
CONSTANTS
    t1 = t1
    t2 = t2
    t3 = t3
    c1 = c1
    c2 = c2
    Task = {t1, t2, t3}
    Coordinator = {c1}
    NoTask = NoTask
    NoWorker = NoWorker
    MaxAttempts = 2
    BatchSize = 2
    Rank <- OneUrgent
    IsolatedSessions = FALSE
    MaxCrashes = 1
    MaxLosses = 1
INVARIANT ExecutionBound
PROPERTY RowsAdvance
