SPECIFICATION Spec
CONSTANTS
    AppThreads = {main}
    Barrier = barrier
    Session = session
    Loads = {l1, l2}
    AtInit = atInit
    Slots = {s1}
    NoBid = NoBid
    Offers <- LiveOffers
    Delays = {0, 1}
    Configs <- LiveBidding
    TwoCallbacks = TRUE
    DefaultTtl = 2
    MaxTime = 2
CHECK_DEADLOCK FALSE
INVARIANT TypeOK
INVARIANT AnsweredAtMostOnce
INVARIANT HandedBidNotCached
INVARIANT SilenceNeverSurfaces
PROPERTY SilenceKept
