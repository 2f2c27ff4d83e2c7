CONSTANTS
    Readers = {b1, n1}
    Nonblocking = {n1}
    FifoSize = 2
    MaxSeq = 2
    Ioctls = {}
SPECIFICATION AppFairSpec
INVARIANT AppInv
PROPERTIES WakeupArrives CtrlCStopsSigio RemovalEndsPrograms
CHECK_DEADLOCK FALSE
