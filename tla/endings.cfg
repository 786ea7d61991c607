CONSTANTS
    Parts = {"insert", "loadgen", "runner"}
    w1 = w1
    w2 = w2
    b1 = b1
    b2 = b2
    e1 = e1
    e2 = e2
    e3 = e3
    e4 = e4
    o1 = o1
    o2 = o2
    o3 = o3
    NoOne = NoOne
    Writers = {w1, w2}
    Backends = {b1, b2}
    Events = {e1, e2, e3, e4}
    Unusable = {e4}
    OrderOf <- mcOrderOf
    Statements <- mcStatements
    Base = 1
    Max = 2
    MaxElapsed = 2
    MaxStatement = 1
    MaxCalls = 2
    Ticks = 2
    Concurrency = 1
    MaxEarlier = 1
    t1 = t1
    Tabs = {t1}
    MaxRing = 2
    ChanCap = 2
    MaxRuns = 1
    MaxLines = 1
    MaxLives = 2
SPECIFICATION mcFairSpec
INVARIANTS TypesOK InsertedOnce ReportAddsUp PaneInOrder
PROPERTIES RefusedForGood DoReturns LoadRunEnds LockIsReleased
CHECK_DEADLOCK FALSE
