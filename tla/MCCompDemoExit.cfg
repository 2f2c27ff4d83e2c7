CONSTANT MaxPresses = 5
SPECIFICATION FairSpec
PROPERTIES ExitTerminates
CHECK_DEADLOCK FALSE
