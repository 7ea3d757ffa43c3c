SPECIFICATION Spec
CONSTANTS
    i1 = i1
    i2 = i2
    r1 = r1
    r2 = r2
    standalone = standalone
    inHouse = inHouse
    Ids = {i1, i2}
    Requests = {r1, r2}
    RequestOf <- TwoRequests
    Profiles = {standalone, inHouse, fallback}
    ProfileOf <- TwoProfiles
    Fallback = fallback
    Posts = {p1, p2}
    None = none
    MaxQueue = 2
    MaxFiles = 2
    MaxCrashes = 1
    CrashWhileClosing = FALSE
    TwoCallbacks = FALSE
    MaxLost = 0
SYMMETRY PostSymmetry
INVARIANT TypeOK
INVARIANT NoExistingElement
INVARIANT SentAtMostOnce
PROPERTY KeepsPromise
