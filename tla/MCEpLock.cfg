SPECIFICATION FairSpec
CONSTANTS
    UL = {u1, u2}
    Kernel = {k1}
    KernelPrimeOnly = FALSE
    Budget = 1
INVARIANTS
    MutualExclusion
    NoLostWakeup
    NoRequestForgotten
    FreeMeansNothingLeft
PROPERTIES
    RequestsAreServed
    EveryCallReturns
