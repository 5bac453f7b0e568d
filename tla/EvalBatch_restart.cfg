SPECIFICATION Spec
CONSTANTS
    p1 = p1
    p2 = p2
    Point = {p1, p2}
    Requests <- Pair
    MaxBatch = 2
    NChildren = 1
    PointRuns = 1
    Attempts = 2
    Workers = 2
    MaxSimulations = 6
    StopAtFirst = TRUE
    MayRaise = FALSE
    MaxInterrupts = 1
    MaxCrashes = 1
    MaxCalls = 2
INVARIANTS TypeOK UniqueIds BudgetKept OkPointsReused StepRowsTrue WritesUnderLock
PROPERTIES ImplementsFactTable
CHECK_DEADLOCK FALSE
