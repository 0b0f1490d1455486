\* Two crawls of up to two batches that overlap, one of which may be killed, and a
\* failing call.
CONSTANTS
  a = a
  b = b
  c = c
  d = d
  e = e
  Links = {a, b, c, d, e}
  Paths = {a, c, d, e}
  Contents = {a, b, c, d, e}
  NoContent = none
  PathOf <- SharedPath
  ContentOf <- SharedContent
  BatchSize = 2
  Threads = 2
  Slots = 3
  Threshold = 3
  AutoIngest = {TRUE, FALSE}
  MaxCrawls = 2
  MaxFaults = 1
  MaxFailures = 0
  MaxCrashes = 1
SPECIFICATION Spec
INVARIANTS
  TypeOK
  IngestedOnce
  BatchesApart
CHECK_DEADLOCK FALSE
