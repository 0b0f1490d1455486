\* One ingestion fails.
CONSTANTS
  a = a
  b = b
  c = c
  d = d
  e = e
  Links = {a, b}
  Paths = {a, b}
  Contents = {a, b}
  NoContent = none
  PathOf <- OnePathEach
  ContentOf <- OneContentEach
  BatchSize = 2
  Threads = 2
  Slots = 3
  Threshold = 3
  AutoIngest = {TRUE}
  MaxCrawls = 1
  MaxFaults = 0
  MaxFailures = 1
  MaxCrashes = 0
SPECIFICATION Spec
INVARIANT FailedRunIngestsNothing
CHECK_DEADLOCK FALSE
