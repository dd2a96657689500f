SPECIFICATION FairSpec
CONSTANTS
    c1 = c1
    c2 = c2
    s1 = s1
    s2 = s2
    None = None
    Client = {c1, c2}
    Service = {s1, s2}
    MayPanic = TRUE
    WaitsForTun = TRUE
INVARIANTS Truthful OneBox
PROPERTIES Settles CallsReturn
