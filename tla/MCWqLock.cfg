SPECIFICATION FairSpec
CONSTANTS
    Threads = {t1, t2, t3}
    Works = {w1, w2}
    Budget = 2
INVARIANTS
    MutualExclusion
    NoLostWakeup
    WorkRunsInOrder
    FreeMeansAllRan
PROPERTIES
    QueuedWorkIsRun
    EveryCallReturns
