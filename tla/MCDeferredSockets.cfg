SPECIFICATION Spec
CONSTANTS
    Socks = {s1, s2}
    Senders = {a1}
    Blockers = {a1}
    Askers = {b1}
    Holders = {h1}
    Kernel = {b1}
    a1 = a1
    b1 = b1
    h1 = h1
    s1 = s1
    s2 = s2
    NULL = NULL
    Limit = 1
    Budget = 2
SYMMETRY SockSymmetry
INVARIANTS
    DeferredListSound
    ProgramOrder
    DrainedWhenFree
    FinIsLast
    AcceptedIsKept
    NothingLeftBehind
