CONSTANTS
    Readers = {r1, n1}
    Nonblocking = {n1}
    FifoSize = 2
    SampleBytes = 2
    MaxSeq = 5
SPECIFICATION Spec
INVARIANT ReadIsWhole
CHECK_DEADLOCK FALSE
