SPECIFICATION Spec
CONSTANTS
    i1 = i1
    i2 = i2
    r1 = r1
    r2 = r2
    standalone = standalone
    inHouse = inHouse
    Ids = {i1, i2}
    Requests = {r1}
    RequestOf <- OneRequest
    Profiles = {standalone, inHouse, fallback}
    ProfileOf <- OneProfile
    Fallback = fallback
    Posts = {p1, p2}
    None = none
    MaxQueue = 2
    MaxFiles = 1
    MaxCrashes = 1
    CrashWhileClosing = TRUE
    TwoCallbacks = TRUE
    MaxLost = 1
SYMMETRY PostSymmetry
INVARIANT StartupSweeps
PROPERTY NeverForgotten
PROPERTY ReportsAddUp
