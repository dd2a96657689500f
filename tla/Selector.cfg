SPECIFICATION Spec
CONSTANTS
    c1 = c1
    c2 = c2
    k1 = k1
    k2 = k2
    old = old
    o1 = o1
    o2 = o2
    o3 = o3
    Boot = Boot
    None = None
    Outbounds <- List
    DefaultTag = o2
    Foreign = {old}
    Client = {c1, c2}
    Conn = {k1}
    InterruptExternal = FALSE
INVARIANTS ConnsFollow SavedIsLive 
