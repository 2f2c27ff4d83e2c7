CONSTANTS
    Procs = {p1, p2}
    Items = {i1, i2}
    MaxKey = 2
    Nothing = Nothing
SPECIFICATION Spec
INVARIANT KfreeIsSafe
CHECK_DEADLOCK FALSE
