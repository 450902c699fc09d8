CONSTANTS
    c1 = c1
    c2 = c2
    c3 = c3
    Nobody = Nobody
    Callers = {c1, c2, c3}
    Ttl = 2
    LockTtl = 1
    WaitTimeout = 1
    MaxLoad = 1
    MaxFaults = 1
SPECIFICATION FairSpec
INVARIANTS SingleFlight BoundedStaleness
PROPERTIES CallsEnd
