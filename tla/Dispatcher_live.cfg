\* No failing operation, but a crash at any point: what must happen in the
\* end, and that nothing is forgotten on the way.
SPECIFICATION FairSpec
CONSTANTS
    j1 = j1
    w1 = w1
    w2 = w2
    m1 = m1
    m2 = m2
    Jobs <- MCJobs
    NumPages = 1
    MaxAttempts = 3
    Workers <- MCWorkers
    Movers <- TwoMovers
    Faults <- NoFaults
    MaxRestarts = 1
INVARIANTS
    NothingForgotten
PROPERTIES
    EveryPageReported
    EveryEntryAcked
CHECK_DEADLOCK FALSE
