\* One worker, two crashes, a healthy database, and a tab that polls.
CONSTANTS
  Workers = {w1}
  NoWorker = none
  Jobs = {j1, j2}
  PoolSize = 1
  MaxFaults = 0
  MaxCrashes = 2
  MaxFlying = 2
SPECIFICATION PageSpec
INVARIANT PageTypeOK
PROPERTIES
  LedgerOfOneWorker
  JobsShownSettle
CHECK_DEADLOCK FALSE
