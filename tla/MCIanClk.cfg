CONSTANTS
    Threads = {t1, t2}
    Users = {u1}
    Nodes = {n1, n2}
    Cpus = {cpu0, cpu1}
    TimerCpu = cpu0
    Nobody = Nobody
SPECIFICATION FairSpec
INVARIANTS OopsesAreKnown ListInv GoneIsQuiet
PROPERTY RemoveReturns
CHECK_DEADLOCK FALSE
