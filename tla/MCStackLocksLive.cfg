SPECIFICATION NoLockStepSpec
CONSTANTS
    Softirq = {s1}
    Proc = {p1}
    Timer = {t1}
    WQ = wq
    DTOR = dtor
    Endpoints = {e1}
    IntDriven = TRUE
    Budget = 1
PROPERTIES
    FreeCompletes
    PendingEndpointsGetClosed
