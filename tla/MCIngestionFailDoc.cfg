CONSTANTS
    w1 = w1
    w2 = w2
    p1 = p1
    p2 = p2
    r1 = r1
    r2 = r2
    r3 = r3
    r4 = r4
    r5 = r5
    r6 = r6
    Nobody = Nobody
    Workers = {w1, w2}
    Payloads = {p1, p2}
    Records = {r1, r2, r3, r4, r5, r6}
    RecordsOf <- OneSnapshot
    KindOf <- Kinds
    Rejected = {}
    MaxAttempts = 1
    MaxFaults = 1
SPECIFICATION Spec
INVARIANT FailureIsRecorded
CHECK_DEADLOCK FALSE
