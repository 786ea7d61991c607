CONSTANTS
    c1 = c1
    c2 = c2
    k = k
    long = long
    this = this
    that = that
    empty = empty
    NoKey = NoKey
    Clients = {c1, c2}
    Keys = {k, long}
    Bodies = {this, that, empty}
    Invalid = {long, empty}
    MaxPosts = 3
    ann = ann
    bob = bob
    NoOne = NoOne
    OrderIds = {1, 2, 3, 4}
    Customers = {ann, bob}
    Times = {1, 2}
    DefaultPageSize = 1
    MaxPageSize = 2
    MaxLists = 1
    h1 = h1
    h2 = h2
    a1 = a1
    a2 = a2
    a3 = a3
    Handlers = {h1, h2}
    Addresses = {a1, a2, a3}
    Nobody = Nobody
    FailureTTL = 3
    MaxTrackedIPs = 2
    MaxBackoff = 2
    MaxClock = 6
    t1 = t1
    Tabs = {t1}
    MaxRing = 2
    ChanCap = 2
    MaxRuns = 2
    MaxLines = 1
    MaxLives = 1
SPECIFICATION mcSpec
INVARIANTS
    TypesOK OneOrderPerKey AcceptedIsQueued ReadsAgree NoRowTwice NoRowSkipped
    OneAtATime NothingBetween StrayIsLastLine
PROPERTY LockIsKept
CHECK_DEADLOCK FALSE
