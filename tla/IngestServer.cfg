\* A job of the server beside a run of its own or of the crawler.
CONSTANTS
  d1 = d1
  d2 = d2
  c1 = c1
  c2 = c2
  e1 = e1
  e2 = e2
  cites = cites
  applies = applies
  mentions = mentions
  Runs = {j, k}
  Jobs = {j}
  Documents = {d1, d2}
  Stored = {d1}
  Supported = {d1, d2}
  Chunks = {c1, c2}
  Entities = {e1, e2}
  ChunksOf <- MCChunksOf
  EntitiesOf <- MCEntitiesOf
  EdgesOf <- MCEdgesOf
  Relations = {cites, applies, mentions}
  ValidRelations = {cites, applies}
  FileBatch = 2
  EmbedBatch = 2
  GraphBatch = 2
  SubBatch = 2
  Calls = 2
  Tries = 2
  Graphing = {TRUE}
  Batches = {{d1, d2}}
  PoolSize = 1
  MaxFaults = 1
SPECIFICATION ServerSpec
INVARIANTS
  ServerTypeOK
  Accounted
  CountedIsTaken
  StoredTwiceByCallsOnly
  EntityTwiceByOverlapOnly
  MergedIsWhole
  JobTellsExit
PROPERTIES
  NothingBegunAfterSignal
  EveryRunEnds
  AcceptedJobsEnd
  KeepsPromise
CHECK_DEADLOCK FALSE
