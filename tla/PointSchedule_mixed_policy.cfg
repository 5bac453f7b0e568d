SPECIFICATION Spec
CONSTANTS
    Specs <- Mixed
    Limit = 1
    Values = {1, 2}
    StopFrom = 2
CHECK_DEADLOCK FALSE
INVARIANT EveryPointJudged
