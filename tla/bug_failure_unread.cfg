SPECIFICATION Spec
CONSTANTS
    p1 = p1  p2 = p2  s1 = s1  s2 = s2
    None = None  SetupId = SetupId  Torn = Torn  Nobody = Nobody
    N = 2
    ParallelBatch <- OneParallel
    SerialBatch <- OneSerial
    TaskCap = 4
    ResultCap = 2
    LargeResults = FALSE
    MaxKills = 0
    Faults = {"setup"}
    Patient = TRUE
INVARIANT FailureCounts
CHECK_DEADLOCK FALSE
