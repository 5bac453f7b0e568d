SPECIFICATION Spec
CONSTANTS
    j1 = j1  j2 = j2  j3 = j3  p1 = p1  p2 = p2  e1 = e1  e2 = e2  pcell = pcell
    Job = {j1, j2}
    Process = {p1}
    ProcessOf <- OneProcess
    Entry = {e1, e2}
    Plain = {pcell}
    Work <- Distinct
    Slots = 1
    MaxCrashes = 0
    MaxBatches = 1
CHECK_DEADLOCK FALSE
INVARIANT SlotWaitersStartNothing
