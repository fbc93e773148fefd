SPECIFICATION Spec
CONSTANTS
    p1 = p1  p2 = p2  s1 = s1  s2 = s2
    None = None  SetupId = SetupId  Torn = Torn  Nobody = Nobody
    N = 2
    ParallelBatch <- NoParallel
    SerialBatch <- TwoSerial
    TaskCap = 2
    ResultCap = 2
    LargeResults = TRUE
    MaxKills = 1
    Faults = {"setup", "abort", "escape", "kill", "interrupt", "crash", "spawn", "pickle"}
    Patient = FALSE
INVARIANT SerialOrder
CHECK_DEADLOCK FALSE
