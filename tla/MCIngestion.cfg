CONSTANTS
    w1 = w1
    w2 = w2
    p1 = p1
    p2 = p2
    r1 = r1
    r2 = r2
    r3 = r3
    r4 = r4
    r5 = r5
    r6 = r6
    Nobody = Nobody
    Workers = {w1, w2}
    Payloads = {p1, p2}
    Records = {r1, r2, r3, r4, r5, r6}
    RecordsOf <- TwoSnapshots
    KindOf <- Kinds
    Rejected = {r2, r4}
    MaxAttempts = 3
    MaxFaults = 2
SPECIFICATION FairSpec
INVARIANTS AllOrNothing RowsHaveLineage RowsAreAnnounced
PROPERTIES FirstWriterWins AttemptsEnd
CHECK_DEADLOCK FALSE
