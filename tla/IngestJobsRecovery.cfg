\* Two workers that start one after the other.
CONSTANTS
  Workers = {w1, w2}
  NoWorker = none
  Jobs = {j1, j2}
  PoolSize = 1
  MaxFaults = 0
  MaxCrashes = 0
SPECIFICATION Spec
PROPERTY RecoveryOfInterruptedOnly
CHECK_DEADLOCK FALSE
