CONSTANTS
    t1 = t1
    t2 = t2
    t3 = t3
    NOONE = NOONE
    Threads = {t1, t2, t3}
    Fds = {1, 2, 3}
    Fdis = {8, 12, 16, 20, 24}

SPECIFICATION MCSpec

INVARIANTS
    ReadersExcludeWriters
    FdisSound
    

PROPERTY
    EveryCallReturns
