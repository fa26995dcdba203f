SPECIFICATION MCSpec
CONSTANTS
    Receivers = {r1, r2}
    Senders = {s1}
    Connectors = {c1}
    UlStack = {u1}
    KStack = {k1}
    DlStack = {d1}
    OsEvents = {o1}
    Casts = {{r1, r2, o1}, {s1, c1, d1}, {r1, u1, k1}}
    r1 = r1
    r2 = r2
    s1 = s1
    c1 = c1
    d1 = d1
    o1 = o1
    u1 = u1
    k1 = k1
    WQ = WQ
    SigOwn = TRUE
    Budget = 1
INVARIANTS
    SockLockExclusive
    SockLockNoLostWakeup
    NoLostWakeup
    PostPollDrained
PROPERTIES
    ReadySleepersWake
    CallsEndOrSleep
