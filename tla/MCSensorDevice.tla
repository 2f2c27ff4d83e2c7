--------------------------- MODULE MCSensorDevice ---------------------------
EXTENDS SensorDevice, TLC

Threads == Permutations(Files)
=============================================================================
