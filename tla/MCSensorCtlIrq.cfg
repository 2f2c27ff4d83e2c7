CONSTANTS
    Callers = {c1}
    Remover = rm
    NoOne = NoOne
    TimerCpus = {cpu0}
    RemoverCpus = {cpu0}
SPECIFICATION Spec
INVARIANT IsrNeverSpinsOnItsVictim
