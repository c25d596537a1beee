SPECIFICATION FairSpec
CONSTANTS
    w1 = w1
    p1 = p1
    p2 = p2
    Waiters = {w1}
    Pollers = {p1, p2}
    Broadcast = FALSE
INVARIANTS
    DestroyedIsQuiet
    RvIsSet
    NoLostWakeup
PROPERTY ImplementsOneShot
