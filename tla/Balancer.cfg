SPECIFICATION BalancerSpec
CONSTANTS
    o1 = o1
    o2 = o2
    o3 = o3
    k1 = k1
    None = None
    Outbounds <- List
    Supports <- Networks
    Report <- Entries
    Key = {k1}
    RatioNum = 2
    RatioDen = 1
    MaxRetry = 2
INVARIANTS FollowsReport RobinFair HashSound
PROPERTIES HashConsistent SessionsStick
