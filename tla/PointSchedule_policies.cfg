SPECIFICATION Spec
CONSTANTS
    Specs <- Plain
    Limit = 1
    Values = {1, 2}
    StopFrom = 2
CHECK_DEADLOCK FALSE
INVARIANTS TypeOK StopIsSound EveryPointJudged NothingAfterFailure StopperNamed
