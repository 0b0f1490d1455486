\* Two workers that boot together, a crash and its restart, database calls that
\* fail or time out, two changes of role.
CONSTANTS
  Workers = {w1, w2}
  NoWorker = none
  Jobs = {j1, j2}
  PoolSize = 1
  MaxFaults = 2
  MaxCrashes = 1
  MaxRoleChanges = 2
  MaxStartFaults = 1
SPECIFICATION ApiSpec
INVARIANTS
  RowIsOutcome
  DoneIsEarned
  NoRowForgotten
PROPERTIES
  EveryWorkerServes
  EveryRowSettles
CHECK_DEADLOCK FALSE
