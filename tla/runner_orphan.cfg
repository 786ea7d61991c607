CONSTANTS
    t1 = t1
    Tabs = {t1}
    MaxRing = 2
    ChanCap = 2
    MaxRuns = 2
    MaxLines = 1
    MaxLives = 1
SPECIFICATION Spec
INVARIANT NoOrphan
CHECK_DEADLOCK FALSE
