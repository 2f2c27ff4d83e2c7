CONSTANTS
    MaxPresses = 1
    MaxEdges = 1
    D = 1
    N = 2
    NumValues = 2
    W = 2
SPECIFICATION Spec
INVARIANT SwitchIsSafe
CHECK_DEADLOCK FALSE
