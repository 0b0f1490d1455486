\* Two batches and a rest, with one thread and two downloads at a time: a batch
\* waits for the thread, and the last link for the batches.  An ingestion fails,
\* and a call; both together open the circuit.
CONSTANTS
  a = a
  b = b
  c = c
  d = d
  e = e
  Links = {a, b, c, d, e}
  Paths = {a, b, c, d, e}
  Contents = {a, b, c, d, e}
  NoContent = none
  PathOf <- OnePathEach
  ContentOf <- OneContentEach
  BatchSize = 2
  Threads = 1
  Slots = 2
  Threshold = 2
  AutoIngest = {TRUE}
  MaxCrawls = 1
  MaxFaults = 1
  MaxFailures = 1
  MaxCrashes = 0
SPECIFICATION FairSpec
PROPERTIES
  CrawlEnds
  EverythingMarked
CHECK_DEADLOCK FALSE
