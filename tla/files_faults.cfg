\* One task, three files, batches of two, and every kind of fault.
\* Every task may end in SUCCESS or FAILED: nothing is left to do then.
CHECK_DEADLOCK FALSE
SPECIFICATION FairSpec
CONSTANTS
    t1 = t1
    t2 = t2
    f1 = f1
    f2 = f2
    f3 = f3
    c = c
    Tasks <- OneTask
    Names <- ThreeNames
    Candidates <- OneCandidate
    CandidateOf <- OfOneTask
    BATCH_SIZE = 2
    Faults <- FaultKinds
    MaxFaults = 3
INVARIANTS
    CountersAgree
    OneRecordAFault
    OneBatchAFault
PROPERTIES
    KeepsContract
    HandlerEnds
