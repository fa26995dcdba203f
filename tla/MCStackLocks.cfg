SPECIFICATION Spec
CONSTANTS
    Softirq = {s1, s2}
    Proc = {p1, p2}
    Timer = {t1}
    WQ = wq
    DTOR = dtor
    Endpoints = {e1}
    IntDriven = FALSE
    Budget = 1
SYMMETRY AgentSymmetry
INVARIANTS
    OneOwnerEach
    InDlMeansSoftirq
    PendingEndpointsInCharge
    NoRequestForgotten
    QuietMeansDone
