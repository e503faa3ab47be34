SPECIFICATION Spec
CONSTANTS
    c1 = c1
    c2 = c2
    w1 = w1
    w2 = w2
    w3 = w3
    x = x
    created = created
    feed = feed
    watchX = watchX
    k1 = k1
    k2 = k2
    retain = retain
    Clients = {c1, c2}
    Writers = {w1, w2, w3}
    ClientOf <- MCClientOf
    Skew <- MCSkew
    Subjects = {x}
    Created = created
    Receivers = {feed, watchX}
    Feeds = {feed}
    WatchOf <- MCWatchOf
    Workers = {k1, k2}
    WorkerOf <- MCWorkerOf
    QueueSize = 1
    Retain = retain
    Rank <- MCRank
    Filters <- MCFilters
    Starts <- MCStarts
INVARIANTS
    TypeOK
    NewSubjectsAnnounced
    NothingRoutedIsLost
    CaughtUp
    HandledOnce
    PoolLosesNothing
    WorkerKeepsOrder
    PanicNeedsStraggler
PROPERTIES
    StopReturns
CHECK_DEADLOCK FALSE
