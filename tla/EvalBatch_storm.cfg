SPECIFICATION FairSpec
CONSTANTS
    p1 = p1
    p2 = p2
    Point = {p1, p2}
    Requests <- Pair
    MaxBatch = 2
    NChildren = 1
    PointRuns = 1
    Attempts = 2
    Workers = 2
    MaxSimulations = 6
    StopAtFirst = TRUE
    MayRaise = TRUE
    MaxInterrupts = 2
    MaxCrashes = 1
    MaxCalls = 1
INVARIANTS NoInterruptFailureRecorded LateInOneStage
PROPERTIES CallEnds
CHECK_DEADLOCK FALSE
