SPECIFICATION Spec
CONSTANTS
    r1 = r1
    r2 = r2
    r3 = r3
    k1 = k1
    k2 = k2
    a1 = a1
    a2 = a2
    None = None
    Requests = {r1, r2, r3}
    Keys = {k1, k2}
    Addresses = {a1, a2}
    MaxClientsSetting = 1
    Capacity = 1
    Cost = 2
    IdleTicks = 0
    SlotLimit <- MCSlotLimit
    Offers <- MCOffers
    Limit = 1
    MaxClock = 3
    MaxDay = 1
    MaxRestarts = 1
SYMMETRY Symmetry
CHECK_DEADLOCK FALSE
INVARIANT DailyLimit
