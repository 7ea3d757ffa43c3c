SPECIFICATION FairSpec
CONSTANTS
    AppThreads = {main}
    Barrier = barrier
    Session = session
    Loads = {l1, l2}
    AtInit = atInit
    Slots = {s1, s2}
    NoBid = NoBid
    Offers <- BidOnly
    Delays = {0}
    Configs <- AnyConfig
    TwoCallbacks = FALSE
    DefaultTtl = 2
    MaxTime = 0
CHECK_DEADLOCK FALSE
INVARIANT NoLoadForgotten
PROPERTY KeepsContract
PROPERTY EveryLoadAnswered
