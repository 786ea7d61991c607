CONSTANTS
    w1 = w1
    w2 = w2
    p1 = p1
    p2 = p2
    a = a
    b = b
    c = c
    bad = bad
    junk = junk
    NoOne = NoOne
    Workers = {w1}
    Partitions = {p1}
    Events <- MCEvents
    Malformed <- MCMalformed
    Unusable <- MCUnusable
    OrderOf <- MCOrderOf
    Input <- GroupInput
    BatchSize = 2
    MaxFaults = 0
SPECIFICATION Spec
INVARIANT NothingLost
CHECK_DEADLOCK FALSE
