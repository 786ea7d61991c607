CONSTANTS
    w1 = w1
    w2 = w2
    p1 = p1
    p2 = p2
    a = a
    b = b
    c = c
    bad = bad
    junk = junk
    NoOne = NoOne
    Workers = {w1}
    Partitions = {p1, p2}
    Events <- MCEvents
    Malformed <- MCMalformed
    Unusable <- MCUnusable
    OrderOf <- MCOrderOf
    Input <- PartitionInput
    BatchSize = 1
    MaxFaults = 1
SPECIFICATION FairSpec
INVARIANTS PausedIsTracked CountedOnce
PROPERTIES EveryRecordSettles PausedIsResumed SignalStops
CHECK_DEADLOCK FALSE
