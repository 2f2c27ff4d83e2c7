CONSTANTS
    Callers = {c1, c2}
    Remover = rm
    NoOne = NoOne
    TimerCpus = {cpu0}
    RemoverCpus = {cpu0, cpu1}
SPECIFICATION FairSpec
INVARIANTS IInv StoppedIsQuiet RunningIsAlive
PROPERTIES CallsReturn KeepsSampling SwitchSpec
CHECK_DEADLOCK FALSE
