SPECIFICATION Spec
CONSTANTS
    c1 = c1
    c2 = c2
    Caller = {c1, c2}
    MaxStarts = 2
    CoarseClock = FALSE
    NoOne = NoOne
SYMMETRY CallerSymmetry
INVARIANTS
    TypeOK
    NeverStale
    CacheCoherent
    NoAbandonedLock
PROPERTIES
    PromiseKept
