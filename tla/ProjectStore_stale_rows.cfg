SPECIFICATION Spec
CONSTANTS
    a = a  b = b  p1 = p1  p2 = p2
    Process = {a, b}
    Kinds <- Calls
    Point = {p1, p2}
    PerPoint = 1
    MaxSimulations = 2
    MaxBatches = 2
    MaxStarts = 2
CHECK_DEADLOCK FALSE
INVARIANT BudgetKept
