SPECIFICATION NotifierFairSpec
CONSTANTS
    o1 = o1
    b1 = b1
    t1 = t1
    s1 = s1
    Outbound = {o1}
    Balancer = {b1}
    Stream = {t1}
    Signaller = {s1}
    MaxResults = 2
INVARIANT WakeupPending
PROPERTIES NewsArrives SignalReturns
CHECK_DEADLOCK FALSE
