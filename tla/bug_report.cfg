SPECIFICATION Spec
CONSTANTS
    p1 = p1  p2 = p2  s1 = s1  s2 = s2
    None = None  SetupId = SetupId  Torn = Torn  Nobody = Nobody
    N = 2
    ParallelBatch <- OneParallel
    SerialBatch <- OneSerial
    TaskCap = 4
    ResultCap = 2
    LargeResults = FALSE
    MaxKills = 1
    Faults = {"kill"}
    Patient = TRUE
INVARIANT ReportAgrees
CHECK_DEADLOCK FALSE
