\* Two processes, hence two movers; no operation fails.
SPECIFICATION Spec
CONSTANTS
    j1 = j1
    w1 = w1
    w2 = w2
    m1 = m1
    m2 = m2
    Jobs <- MCJobs
    NumPages = 1
    MaxAttempts = 2
    Workers <- MCWorkers
    Movers <- TwoMovers
    Faults <- NoFaults
    MaxRestarts = 0
INVARIANTS
    DoneOnce
CHECK_DEADLOCK FALSE
