\* Two workers, one task, and workers that heartbeat too late: a task may be
\* reclaimed from a worker that goes on writing its row.
SPECIFICATION Spec
CONSTANTS
    w1 = w1
    w2 = w2
    t1 = t1
    t2 = t2
    NULL = NULL
    Workers <- TwoWorkers
    Tasks <- OneTask
    RetryAfters <- OneTick
    Faults <- Overtaken
    MAX_HEARTBEAT_AGE = 0
    BLOCK_THRESHOLD_SECONDS = 0
    LIMIT = 1
    MaxAttempts = 1
    MaxFaults = 1
    MaxQueued = 2
SYMMETRY WorkerSymmetry
INVARIANTS
    TypeOK
    NoStrandedTask
