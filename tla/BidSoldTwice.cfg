SPECIFICATION Spec
CONSTANTS
    AppThreads = {main}
    Barrier = barrier
    Session = session
    Loads = {l1, l2}
    AtInit = atInit
    Slots = {s1}
    NoBid = NoBid
    Offers <- BidOnly
    Delays = {0, 1}
    Configs <- LiveWithPrefetch
    TwoCallbacks = FALSE
    DefaultTtl = 2
    MaxTime = 0
CHECK_DEADLOCK FALSE
INVARIANT HandedToOneLoad
