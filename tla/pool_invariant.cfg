SPECIFICATION Spec
CONSTANTS
    p1 = p1  p2 = p2  s1 = s1  s2 = s2
    None = None  SetupId = SetupId  Torn = Torn  Nobody = Nobody
    N = 2
    ParallelBatch <- TwoParallel
    SerialBatch <- OneSerial
    TaskCap = 2
    ResultCap = 2
    LargeResults = FALSE
    MaxKills = 1
    Faults = {"setup", "abort", "kill", "escape"}
    Patient = FALSE
INVARIANTS PoolInv SentinelForEach SerialExclusion
PROPERTIES AtMostOnce ParallelBeforeSerial KeepsPromise
CHECK_DEADLOCK FALSE
