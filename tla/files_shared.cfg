\* Two tasks that download the same files.
\* Every task may end in SUCCESS or FAILED: nothing is left to do then.
CHECK_DEADLOCK FALSE
SPECIFICATION Spec
CONSTANTS
    t1 = t1
    t2 = t2
    f1 = f1
    f2 = f2
    f3 = f3
    c = c
    Tasks <- TwoTasks
    Names <- TwoNames
    Candidates <- OneCandidate
    CandidateOf <- OfTwoTasks
    BATCH_SIZE = 2
    Faults <- OnlyApi
    MaxFaults = 1
INVARIANT SuccessMeansSaved
