SPECIFICATION MCSpec
CONSTANTS
    MaxBlocks = 2
    MaxContainers = 3
    MaxLoads = 1
    MaxRequests = 2
    MaxPosted = 1
    NativeAds = {a1, a2}
    NativeViews = {v1, v2}
    NoAd = NoAd
    Contents = {i1, i2}
    NoContent = NoContent
    Placeholder = Placeholder
    MaxDownloads = 2
    Callers = {t1, t2, t3, t4}
    LogRecords = {r1, r2, r3}
    LogPosts = {p1, p2}
    SizeOf <- MCSizeOf
    InitialLength = 1
    MaxFileLength = 2
    BatchSize = 2
    Clicks = {k1, k2, k3}
    NoClick = NoClick
INVARIANT PartsTypeOK
INVARIANT StateMatchesView
INVARIANT ClosingIsBacked
INVARIANT LoadedAdHasWebView
INVARIANT CanAlwaysClose
INVARIANT LoadingIsBacked
INVARIANT ImpressedAtMostOnce
INVARIANT DetectsWhileNeeded
INVARIANT ImageIsOfContent
INVARIANT WaitingIsBacked
INVARIANT RunsOnce
INVARIANT RecordsAreKept
INVARIANT QueueIsBounded
INVARIANT OpenedOnce
INVARIANT StoreOnScreenIsKnown
PROPERTY ExpandedAdComesBack
PROPERTY LoadingEnds
PROPERTY VisibleAdIsImpressed
PROPERTY EveryBlockRuns
CHECK_DEADLOCK FALSE
