SPECIFICATION MCSpec
CHECK_DEADLOCK FALSE
CONSTANTS
    Pkts = {p1, p2}
    NULL = NULL
    UlSenders = {u1}
    KSenders = {k1}
    Connectors = {c1}
    Timers = {t1}
    Agents = {u1, k1, c1, t1}
    p1 = p1
    p2 = p2
    u1 = u1
    k1 = k1
    c1 = c1
    t1 = t1
    Signalled = {u1, k1}
    TxMax = 2
    TwoPkts = {k1}
    Budget = 1
INVARIANTS
    PoolSound
    NoPacketLost
    AsyncCounted
PROPERTIES
    PoolSpec
    TimerWakesWaiters
