SPECIFICATION Spec
CONSTANTS
    p1 = p1
    p2 = p2
    p3 = p3
    u1 = u1
    c1 = c1
    c2 = c2
    NoUrl = NoUrl
    None = None
    Id = {p1, p2, p3}
    Url = {u1}
    Caller = {c1, c2}
SYMMETRY Symmetry
INVARIANTS ContentMatches OneProfilePerUrl ActiveExists
