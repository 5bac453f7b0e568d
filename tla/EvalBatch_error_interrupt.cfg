SPECIFICATION Spec
CONSTANTS
    p1 = p1
    p2 = p2
    Point = {p1, p2}
    Requests <- Pair
    MaxBatch = 2
    NChildren = 1
    PointRuns = 0
    Attempts = 1
    Workers = 2
    MaxSimulations = 6
    StopAtFirst = TRUE
    MayRaise = TRUE
    MaxInterrupts = 1
    MaxCrashes = 0
    MaxCalls = 1
INVARIANTS WritesUnderLock
CHECK_DEADLOCK FALSE
