CONSTANTS
    Procs = {p1, p2, p3}
    Items = {i1, i2, i3}
    MaxKey = 3
    Nothing = Nothing
SYMMETRY Symmetric
SPECIFICATION Spec
INVARIANTS MemorySafe LiveIsOwned KeysUnique
CHECK_DEADLOCK FALSE
