\* Every ignored error, the shutdown sequence and crashes.
SPECIFICATION Spec
CONSTANTS
    j1 = j1
    w1 = w1
    w2 = w2
    m1 = m1
    m2 = m2
    Jobs <- MCJobs
    NumPages = 2
    MaxAttempts = 2
    Workers <- MCWorkers
    Movers <- OneMover
    Faults <- AllFaults
    MaxRestarts = 1
SYMMETRY WorkerSymmetry
INVARIANTS
    TypeOK
    SingleCopy
    ReportedOnce
    RetryBudget
    FullBudgetUsed
PROPERTIES
    ImplementsPageFate
CHECK_DEADLOCK FALSE
