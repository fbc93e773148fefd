SPECIFICATION Spec
CONSTANTS
    NumFeatures = 5
    Serials <- FiveSerials
    Total = 3
    Orders <- FiveOrders
    Histories <- FiveHistories
    Jobs = {1, 2}
INVARIANTS PlanInv EachFeatureOnce SharesBalanced BatchesFitPool LptBound QueueBound
CHECK_DEADLOCK FALSE
