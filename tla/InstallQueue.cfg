SPECIFICATION FairSpec
CONSTANTS
    Workers = {w1, w2}
    Deletes = {d1, d2}
    Ids = {a, b}
    MaxSubmits = 3
INVARIANTS
    QueuedJobHasWorker
    SleepersHaveReason
PROPERTIES
    JobQueueKept
    DeleteGetsOn
CHECK_DEADLOCK FALSE
