CONSTANTS
    k1 = k1
    k2 = k2
    k3 = k3
    Keys = {k1, k2, k3}
    Ranks = {0, 2}
    AttemptLimits = {2}
    BackoffBase = 1
    BackoffMax = 3
    FreeTime = 1
    NoKey = NoKey
SPECIFICATION FairSpec
INVARIANTS ExactlyOnePlace RetryBudget
PROPERTIES PriorityIsolation FifoWithinClass ImplementsAtLeastOnce 
CHECK_DEADLOCK FALSE
