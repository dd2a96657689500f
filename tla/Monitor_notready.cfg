SPECIFICATION FairSpec
CONSTANTS
    o1 = o1
    o2 = o2
    w1 = w1
    w2 = w2
    k1 = k1
    k2 = k2
    NoTask = NoTask
    Outbound = {o1}
    Worker = {w1, w2}
    Caller = {k1}
    Dependents <- Detour
    Group <- NoGroup
    NotReady = {o1}
    PriorityCap = 3
    NormalCap = 4
    Urls = 2
    ReadyCycle = 3
    MaxCycle = 1
    MaxCalls = 1
PROPERTIES CycleEnds CloseQuiesces
CHECK_DEADLOCK FALSE
