CONSTANTS
    d1 = d1
    d2 = d2
    a = a
    b = b
    junk = junk
    NoPartition = NoPartition
    Partitions = {d1, d2}
    Events = {a, b, junk}
    Malformed = {junk}
    Options <- OneOption
    Backlog <- MCBacklog
    MaxRuns = 1
    MaxLetters = 2
SPECIFICATION CalmSpec
INVARIANT InterruptKeepsProgress
CHECK_DEADLOCK FALSE
