SPECIFICATION FairSpec
CONSTANTS
    t1 = t1
    t2 = t2
    k1 = k1
    k2 = k2
    k3 = k3
    None = None
    Closer = Closer
    Toucher = {t1, t2}
    Ticker = {k1, k2, k3}
INVARIANTS NotDeaf OneLoop NoNilTicker
PROPERTY CloseReturns
CHECK_DEADLOCK FALSE
