SPECIFICATION HealthySpec
CONSTANTS
    p1 = p1  p2 = p2  s1 = s1  s2 = s2
    None = None  SetupId = SetupId  Torn = Torn  Nobody = Nobody
    N = 3
    ParallelBatch <- TwoParallel
    SerialBatch <- TwoSerial
    TaskCap = 2
    ResultCap = 4
    LargeResults = FALSE
    MaxKills = 0
    Faults = {}
    Patient = TRUE
PROPERTY HealthyRunCompletes
