\* Two workers with one task, or one with two, under fairness: no symmetry.
SPECIFICATION LiveSpec
CONSTANTS
    w1 = w1
    w2 = w2
    t1 = t1
    t2 = t2
    NULL = NULL
    Workers <- TwoWorkers
    Tasks <- TwoTasks
    RetryAfters <- ShortAndLong
    Faults <- Recovered
    MAX_HEARTBEAT_AGE = 1
    BLOCK_THRESHOLD_SECONDS = 1
    LIMIT = 1
    MaxAttempts = 1
    MaxFaults = 3
    MaxQueued = 2
PROPERTIES
    TaskSettles
    BlockEnds
