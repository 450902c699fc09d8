CONSTANTS
    p1 = p1
    p2 = p2
    s1 = s1
    s2 = s2
    e1 = e1
    e2 = e2
    e3 = e3
    Nobody = Nobody
    Procs = {p1, p2}
    Sessions = {s1, s2}
    Events = {e1, e2, e3}
    Replay = 2
    MaxRestarts = 1
SPECIFICATION FairSpec
INVARIANTS NoGhostSubscriber
PROPERTIES ImplementsFeed DeadSubscriberLeaves
CHECK_DEADLOCK FALSE
