SPECIFICATION Spec
CONSTANTS
    f1 = f1
    s1 = s1
    s2 = s2
    None = None
    Faults = {f1}
    Slots = {s1, s2}
    Fresh = 1
    Retention = 3
    Fetch = 1
    Patience = 1
    TTL = 1
    StaleIfError = 1
    SnapshotAge = 2
    MaxClock = 4
    Configured <- MCConfigured
    Captures = {1}
SYMMETRY SlotSymmetry
CHECK_DEADLOCK FALSE
INVARIANTS TypeOK AgeIsTold SnapshotWithinAge AnswerOwnsUp
PROPERTIES LastResort
