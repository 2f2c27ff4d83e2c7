CONSTANTS
    Files = {f1, f2, f3}
    Showers = {s1, s2}
    FailSteps = {1, 2, 3, 4, 5}
SYMMETRY Threads
SPECIFICATION Spec
INVARIANTS IInv CallsFindMemory AttrsFindMemory NothingLeaks
CHECK_DEADLOCK FALSE
