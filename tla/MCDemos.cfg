CONSTANTS
    MaxPresses = 4
    MaxEdges = 4
    D = 2
    N = 2
    NumValues = 2
    W = 3
    Procs = {p1, p2}
    Slots = 2
    Wrap = 4
    MaxPush = 5
    Threads = {t1, t2, t3}
    MaxOn = 2
    Readers = {r1, n1}
    Nonblocking = {n1}
    FifoSize = 1
    SampleBytes = 2
    MaxSeq = 3
SPECIFICATION Spec
INVARIANTS IInv NoPressForgotten LockBalanced NoMismatch EachPressWakes OnePerBurst LineGivenBack MutexInv KfifoInOrder ClockBalanced
PROPERTIES RoundsInOrder QueueSpec WorkGoesOn RmmodReturns
CHECK_DEADLOCK FALSE
