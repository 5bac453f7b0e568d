SPECIFICATION Spec
CONSTANT Scenarios <- MCScenarios
CHECK_DEADLOCK FALSE
INVARIANTS TypeOK CutIsTold
