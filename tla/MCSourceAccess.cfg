SPECIFICATION Spec
CONSTANTS
    c1 = c1
    c2 = c2
    c3 = c3
    c4 = c4
    ckan = ckan
    social = social
    data = data
    Calls = {c1, c2, c3, c4}
    Sources = {ckan, social}
    Hosts = {data}
    SourceOf <- MCSourceOf
    HostOf <- MCHostOf
    Streamed = {c3}
    Unmetered = {c4}
    Capacity = 2
    Cost = 2
    MaxWait = 1
    Attempts = 2
    Cooldown = 2
    Delays = {0, 1, 3}
    MaxClock = 2
SYMMETRY CallSymmetry
CHECK_DEADLOCK FALSE
INVARIANTS TypeOK GrantsPaced SleeperIsServed
PROPERTIES RetryAfterHonoured RefusalsStand CoolingHostLeftAlone
