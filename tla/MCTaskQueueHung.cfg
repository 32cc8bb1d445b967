\* Two workers, of which one may hang for ever: nobody takes over its claim.
SPECIFICATION OneHangs
CONSTANTS
    t1 = t1
    t2 = t2
    t3 = t3
    c1 = c1
    c2 = c2
    Task = {t1, t2}
    Coordinator = {c1, c2}
    NoTask = NoTask
    NoWorker = NoWorker
    MaxAttempts = 2
    BatchSize = 2
    Rank <- OneUrgent
    IsolatedSessions = TRUE
    MaxCrashes = 0
    MaxLosses = 0
PROPERTY Settles
