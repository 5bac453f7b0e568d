SPECIFICATION Spec
CONSTANTS
    r1 = r1  r2 = r2
    NParts = 2
    Ids = {1, 2}
    Freqs = {1, 2}
    Readers = {r1, r2}
    Scenarios <- MCScenarios
CHECK_DEADLOCK FALSE
INVARIANTS TypeOK MeasuredOnce StoreMigrated
PROPERTY ReadersEnd
