SPECIFICATION FairSpec
CONSTANTS
    k1 = k1
    k2 = k2
    c1 = c1
    c2 = c2
    c3 = c3
    None = None
    Callers = {c1, c2}
    Keys = {k1, k2}
    Locks = {1, 2, 3, 4}
    TTL <- MCTTL
    StaleIfError <- MCStaleIfError
    Caps <- MCCaps
    MaxEntries = 1
    MaxClock = 2
INVARIANT CacheWithinLimit
INVARIANT ServedWithinAge
INVARIANT PeekShowsServable
PROPERTY OrphanLocksComeFromCancel
PROPERTY ImplementsCachedSource
PROPERTY EveryCallEnds
