SPECIFICATION Spec
CONSTANTS
    AppThreads = {main}
    Barrier = barrier
    Session = session
    Loads = {l1, l2}
    AtInit = atInit
    Slots = {s1}
    NoBid = NoBid
    Offers <- CacheOffers
    Delays = {0, 1}
    Configs <- CacheBidding
    TwoCallbacks = FALSE
    DefaultTtl = 2
    MaxTime = 2
CHECK_DEADLOCK FALSE
INVARIANT HandedToOneLoad
INVARIANT MetricClosedOnce
