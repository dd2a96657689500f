SPECIFICATION FairSpec
CONSTANTS
    c1 = c1
    c2 = c2
    p1 = p1
    p2 = p2
    Watcher = Watcher
    NoThread = NoThread
    Chan = {c1, c2}
    Publisher = {p1, p2}
    Buffer = 1
    MaxEvents = 1
INVARIANTS NoPanic NoOrphan
PROPERTIES ImplementsFeed ReadersReleased CallsReturn
