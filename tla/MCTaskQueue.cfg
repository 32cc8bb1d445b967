\* Two workers with isolated sessions: interleaved claims, a crash and a lost claim.
SPECIFICATION FairSpec
CONSTANTS
    t1 = t1
    t2 = t2
    t3 = t3
    c1 = c1
    c2 = c2
    Task = {t1, t2}
    Coordinator = {c1, c2}
    NoTask = NoTask
    NoWorker = NoWorker
    MaxAttempts = 2
    BatchSize = 2
    Rank <- OneUrgent
    IsolatedSessions = TRUE
    MaxCrashes = 1
    MaxLosses = 1
INVARIANTS TypeOK ExclusiveRun DoneHasEffect ClaimConsistent ExecutionBound
PROPERTIES ImplementsLifecycle Settles
