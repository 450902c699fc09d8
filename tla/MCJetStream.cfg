CONSTANTS
    w1 = w1
    w2 = w2
    m1 = m1
    m2 = m2
    m3 = m3
    Workers = {w1, w2}
    Msgs = {m1, m2}
    NumClasses = 2
    MaxDeliver = 2
    BatchSize = 2
    MaxFaults = 1
    MaxSignals = 1
SPECIFICATION Spec
SYMMETRY Symmetry
INVARIANTS DeadLetteredOnce
PROPERTIES ImplementsAtLeastOnce
CHECK_DEADLOCK FALSE
