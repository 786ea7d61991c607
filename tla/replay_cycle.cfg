CONSTANTS
    d1 = d1
    d2 = d2
    a = a
    b = b
    junk = junk
    NoPartition = NoPartition
    Partitions = {d1}
    Events = {a, b, junk}
    Malformed = {junk}
    Options <- MCOptions
    Backlog <- MCBacklog
    MaxRuns = 2
    MaxLetters = 3
SPECIFICATION FairSpec
INVARIANTS TypeOK NoDeadLetterDeleted GuardCountsLaps OkMeansPersisted
PROPERTIES DryRunTouchesNothing RunEnds
CHECK_DEADLOCK FALSE
