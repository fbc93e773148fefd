SPECIFICATION Spec
CONSTANTS
    Runs = {r1, r2}
    Ids = {u1, u2}
    Durations = {1, 2}
    Bad = Bad
    Missing = Missing
    Garbage = Garbage
INVARIANTS StoreInv NoLitter
PROPERTIES NeverTorn OwnEntriesSaved OthersKept
CHECK_DEADLOCK FALSE
