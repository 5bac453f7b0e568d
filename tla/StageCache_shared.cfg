SPECIFICATION FairSpec
CONSTANTS
    j1 = j1  j2 = j2  j3 = j3  p1 = p1  p2 = p2  e1 = e1  e2 = e2  pcell = pcell
    Job = {j1, j2, j3}
    Process = {p1, p2}
    ProcessOf <- TwoProcesses
    Entry = {e1, e2}
    Plain = {pcell}
    Work <- Shared
    Slots = 1
    MaxCrashes = 1
    MaxBatches = 2
INVARIANTS TypeOK PaidOnce SlotsKept EntriesWhole RenameSafe FlightWaitersStartNothing
PROPERTY BatchesEnd
CHECK_DEADLOCK FALSE
