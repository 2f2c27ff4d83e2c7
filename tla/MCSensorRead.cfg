CONSTANTS
    Readers = {r1, n1}
    Nonblocking = {n1}
    FifoSize = 2
    MaxSeq = 3
    Ioctls = {"flush", "reset"}
SPECIFICATION Spec
INVARIANTS IInv NoLostWakeup NoLostHangup
PROPERTIES NoSilentLoss QueueSpec
