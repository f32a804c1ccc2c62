CONSTANTS
    None = None
    Gone = Gone
    w1 = w1
    w2 = w2
    Worker <- MCWorker
    Job <- TwoJobs
    Capacity = 2
    MaxTurns = 1
    FaultKinds <- AllFaults
    MaxFaults = 2
CONSTRAINT FewFaults
SPECIFICATION FairSpec
INVARIANTS LeaseHeld OneFile
PROPERTIES BuriedAfterThree ImplementsJobBoard JobsSettle
