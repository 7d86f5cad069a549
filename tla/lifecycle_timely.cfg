\* Two workers and two tasks whose executors heartbeat in time.
SPECIFICATION Spec
CONSTANTS
    w1 = w1
    w2 = w2
    t1 = t1
    t2 = t2
    NULL = NULL
    Workers <- TwoWorkers
    Tasks <- TwoTasks
    RetryAfters <- ShortAndLong
    Faults <- AllButStall
    MAX_HEARTBEAT_AGE = 1
    BLOCK_THRESHOLD_SECONDS = 1
    LIMIT = 1
    MaxAttempts = 2
    MaxFaults = 1
    MaxQueued = 2
SYMMETRY Symmetry
INVARIANTS
    SingleExecutor
    ExecutorOwnsRow
    RecoverableRow
PROPERTIES
    TerminalIsFinal
    AttemptsCountClaims
    ContractSpec
