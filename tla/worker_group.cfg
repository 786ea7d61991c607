CONSTANTS
    w1 = w1
    w2 = w2
    p1 = p1
    p2 = p2
    a = a
    b = b
    c = c
    bad = bad
    junk = junk
    NoOne = NoOne
    Workers = {w1, w2}
    Partitions = {p1}
    Events <- MCEvents
    Malformed <- MCMalformed
    Unusable <- MCUnusable
    OrderOf <- MCOrderOf
    Input <- GroupInput
    BatchSize = 2
    MaxFaults = 1
SPECIFICATION Spec
SYMMETRY Symmetry
INVARIANTS TypeOK LostOnlyByResume CountedInOneBatch
PROPERTY ImplementsLedger
CHECK_DEADLOCK FALSE
