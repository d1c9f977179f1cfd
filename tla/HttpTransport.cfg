SPECIFICATION Spec
CONSTANTS
    t1 = t1
    t2 = t2
    t3 = t3
    Tasks = {t1, t2, t3}
    MaxCalls = 6
SYMMETRY TaskSymmetry
CHECK_DEADLOCK FALSE
INVARIANTS
    CloseIsComplete
PROPERTIES
    ClosedForGood
