\* One task, three files, batches of two.
\* Every task may end in SUCCESS or FAILED: nothing is left to do then.
CHECK_DEADLOCK FALSE
SPECIFICATION Spec
CONSTANTS
    t1 = t1
    t2 = t2
    f1 = f1
    f2 = f2
    f3 = f3
    c = c
    Tasks <- OneTask
    Names <- ThreeNames
    Candidates <- OneCandidate
    CandidateOf <- OfOneTask
    BATCH_SIZE = 2
    Faults <- Recovered
    MaxFaults = 3
INVARIANTS
    TypeOK
    MarkedIsSaved
    SuccessIsExact
    RecordHasObject
