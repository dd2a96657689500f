SPECIFICATION URLTestFairSpec
CONSTANTS
    o1 = o1
    g1 = g1
    m1 = m1
    gone = gone
    l1 = l1
    l2 = l2
    Api = Api
    None = None
    Outbounds <- List
    Supports <- Networks
    Tag = {o1, m1, gone}
    Loaded = {o1, m1}
    Now <- Nested
    Delay <- Delays
    Tolerance = 50
    Loop = {l1, l2}
INVARIANT LoopPerTicker
PROPERTIES TolerantChoice ResultsRenewed
CHECK_DEADLOCK FALSE
