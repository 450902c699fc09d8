CONSTANTS
    p1 = p1
    p2 = p2
    s1 = s1
    s2 = s2
    e1 = e1
    e2 = e2
    e3 = e3
    Nobody = Nobody
    Procs = {p1, p2}
    Sessions = {s1}
    Events = {e1, e2, e3}
    Replay = 2
    MaxRestarts = 0
SPECIFICATION Spec
PROPERTIES FansOutToSubscribers
CHECK_DEADLOCK FALSE
