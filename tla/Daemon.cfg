SPECIFICATION WaitFairSpec
CONSTANTS
    t1 = t1
    t2 = t2
    b1 = b1
    b2 = b2
    w1 = w1
    NoBox = NoBox
    Starter = {t1, t2}
    Box = {b1, b2}
    Waiter = {w1}
    SubscriberCap = 2
    ListenerCap = 2
INVARIANTS NoLeakedBox OneReload StartedIsRunning
PROPERTIES StartSettles WaitersReturn
