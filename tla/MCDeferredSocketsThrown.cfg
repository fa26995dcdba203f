SPECIFICATION Spec
CONSTANTS
    Socks = {s1}
    Senders = {a1}
    Blockers = {a1}
    Askers = {b1}
    Holders = {}
    Kernel = {}
    a1 = a1
    b1 = b1
    s1 = s1
    NULL = NULL
    Limit = 1
    Budget = 2
INVARIANTS
    ThrownNotCounted
