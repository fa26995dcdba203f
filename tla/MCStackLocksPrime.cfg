SPECIFICATION Spec
CONSTANTS
    Softirq = {s1, s2, s3}
    Proc = {}
    Timer = {}
    WQ = wq
    DTOR = dtor
    Endpoints = {}
    IntDriven = TRUE
    Budget = 1
INVARIANTS
    NeedPrimeKept
