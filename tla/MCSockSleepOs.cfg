SPECIFICATION Spec
CONSTANTS
    Receivers = {}
    Senders = {s1, s2}
    Connectors = {}
    UlStack = {}
    KStack = {k1, k2}
    DlStack = {}
    OsEvents = {o1}
    s1 = s1
    s2 = s2
    k1 = k1
    k2 = k2
    o1 = o1
    WQ = WQ
    SigOwn = FALSE
    Budget = 1
INVARIANTS
    NoLostWakeup
SYMMETRY OsSymmetry
