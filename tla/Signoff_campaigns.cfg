SPECIFICATION Spec
CONSTANTS
    tt = tt  ss = ss
    Points = {1, 2, 3}
    Corners = {tt, ss}
    SearchCorner = tt
    Scenarios <- MCScenarios
CHECK_DEADLOCK FALSE
INVARIANTS TypeOK AdviceApplied DesignKept SignedOffHolds RoundsTraced
PROPERTIES NothingAfterTorn RunEnds
