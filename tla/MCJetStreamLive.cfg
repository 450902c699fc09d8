CONSTANTS
    w1 = w1
    w2 = w2
    m1 = m1
    m2 = m2
    m3 = m3
    Workers = {w1}
    Msgs = {m1, m2}
    NumClasses = 2
    MaxDeliver = 2
    BatchSize = 2
    MaxFaults = 1
    MaxSignals = 1
SPECIFICATION FairSpec
PROPERTIES EventuallySettled StopEndsLoop
CHECK_DEADLOCK FALSE
