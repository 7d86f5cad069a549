\* A commit whose message is never sent.
SPECIFICATION Spec
CONSTANTS
    w1 = w1
    w2 = w2
    t1 = t1
    t2 = t2
    NULL = NULL
    Workers <- TwoWorkers
    Tasks <- OneTask
    RetryAfters <- ShortAndLong
    Faults <- OnlyLostSend
    MAX_HEARTBEAT_AGE = 1
    BLOCK_THRESHOLD_SECONDS = 1
    LIMIT = 1
    MaxAttempts = 1
    MaxFaults = 1
    MaxQueued = 2
INVARIANT NoStrandedTask
