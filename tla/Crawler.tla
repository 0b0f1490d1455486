------------------------------- MODULE Crawler -------------------------------
(***************************************************************************)
(* The Kenya Law crawler (data_scrapper/scraper/crawlers/legal_sites.py):  *)
(* it stores the judgments it finds in MinIO, or in a local directory when *)
(* MinIO fails, records them in the registry (scraper/db/registry.py), and *)
(* hands them in batches to the ingestion pipeline, which runs in a pool   *)
(* of threads.  Batches, seen sets and circuit breaker are lost with the   *)
(* process; bucket, registry and index stay.                               *)
(*                                                                         *)
(* The crawler is one event loop.  From the moment a download is complete  *)
(* to the moment its batch is in the pool nothing is awaited that really   *)
(* suspends, so that stretch of _download_and_store is one action.         *)
(***************************************************************************)
EXTENDS Naturals, Sequences, FiniteSets, SequencesExt

CONSTANTS
  Links,        \* judgment links on the listing pages
  Paths,        \* MinIO paths
  Contents,     \* SHA-256 digests
  NoContent,
  PathOf,       \* the path of a link: court, year and citation number
  ContentOf,    \* the digest of what the link downloads
  BatchSize,    \* INGEST_BATCH_SIZE
  Threads,      \* max_workers of the crawler's executor (2)
  Slots,        \* MAX_CONCURRENT_DOWNLOADS
  Threshold,    \* _CIRCUIT_BREAKER_THRESHOLD (3)
  AutoIngest,   \* values of auto_ingest the crawls run with
  MaxCrawls,    \* bound: crawls started
  MaxFaults,    \* bound: calls to MinIO or to the registry, and imports, that fail
  MaxFailures,  \* bound: ingestions that fail, wholly or in part
  MaxCrashes    \* bound: crawls killed

ASSUME CrawlerAssumption ==
  /\ PathOf \in [Links -> Paths]
  /\ ContentOf \in [Links -> Contents]
  /\ NoContent \notin Contents
  /\ {BatchSize, Threads, Slots, Threshold} \subseteq Nat \ {0}
  /\ AutoIngest \subseteq BOOLEAN
  /\ {MaxCrawls, MaxFaults, MaxFailures, MaxCrashes} \subseteq Nat

VARIABLES
  \* What outlives the process.
  bucket,     \* paths with an object in MinIO
  local,      \* paths saved by _save_local_fallback
  sha,        \* scraper_documents: the digest of each row, by path
  ingestedIn, \* scraper_documents: ingestion_run_id of each path; 0: ingested_at is null
  runs,       \* ingestion_runs: status by run id
  index,      \* paths with vectors in the index
  \* The crawler.
  phase,      \* "off", "crawling" or "flushing"
  mode,       \* auto_ingest, whether there is a registry, and whether the
              \* preload set _seen_paths, which has no initial value
  found,      \* links downloaded and not yet looked at
  paths,      \* _seen_paths
  hashes,     \* _seen_hashes
  pending,    \* _pending_ingest
  queue,      \* batches waiting for a thread of _executor
  running,    \* batches a thread is ingesting
  returned,   \* batches whose ingestion returned; the loop has yet to resume
  failures,   \* _consecutive_ingest_failures
  open,       \* _ingest_circuit_open
  \* Counters of the bounds, and a history variable.
  crawls, faults, failed, crashes,
  submitted   \* how often each path was handed to the pipeline

disk     == <<bucket, local>>
registry == <<sha, ingestedIn, runs>>
seen     == <<paths, hashes>>
pool     == <<queue, running, returned>>
breaker  == <<failures, open>>
bounds   == <<crawls, faults, failed, crashes>>
vars == <<disk, registry, index, phase, mode, found, seen, pending, pool, breaker,
          bounds, submitted>>

-----------------------------------------------------------------------------
Phases      == {"off", "crawling", "flushing"}
RunStatuses == {"running", "completed", "failed"}
Batch       == [docs : Seq(Paths), run : Nat]        \* run = 0: create_run failed
Returned    == [batch : Batch, exit : {0, 1}]
Modes       == [auto : BOOLEAN, registry : BOOLEAN, preloaded : BOOLEAN]
NoMode      == [auto |-> FALSE, registry |-> FALSE, preloaded |-> FALSE]

TypeOK ==
  /\ bucket \subseteq Paths /\ local \subseteq Paths /\ index \subseteq Paths
  /\ sha \in [Paths -> Contents \cup {NoContent}]
  /\ ingestedIn \in [Paths -> 0 .. Len(runs)]
  /\ \A p \in Paths : ingestedIn[p] # 0 => sha[p] # NoContent
  /\ runs \in Seq(RunStatuses)
  /\ phase \in Phases
  /\ mode \in Modes
  /\ found \subseteq Links
  /\ paths \subseteq Paths
  /\ hashes \subseteq Contents
  /\ pending \in Seq(Paths)
  /\ queue \in Seq(Batch) /\ running \subseteq Batch /\ returned \subseteq Returned
  /\ failures \in Nat /\ open \in BOOLEAN
  /\ {crawls, faults, failed, crashes} \subseteq Nat
  /\ submitted \in [Paths -> Nat]

\* The process is gone; the next crawl makes a new KenyaLawCrawler.
Off ==
  /\ phase' = "off"
  /\ mode' = NoMode
  /\ found' = {} /\ paths' = {} /\ hashes' = {}
  /\ pending' = <<>> /\ queue' = <<>> /\ running' = {} /\ returned' = {}
  /\ failures' = 0 /\ open' = FALSE

Init ==
  /\ bucket = {} /\ local = {} /\ index = {}
  /\ sha = [p \in Paths |-> NoContent]
  /\ ingestedIn = [p \in Paths |-> 0]
  /\ runs = <<>>
  /\ phase = "off"
  /\ mode = NoMode
  /\ found = {} /\ paths = {} /\ hashes = {}
  /\ pending = <<>> /\ queue = <<>> /\ running = {} /\ returned = {}
  /\ failures = 0 /\ open = FALSE
  /\ crawls = 0 /\ faults = 0 /\ failed = 0 /\ crashes = 0
  /\ submitted = [p \in Paths |-> 0]

\* The calls named in calls fail; the others succeed.
Fail(calls) ==
  /\ faults + Cardinality(calls) <= MaxFaults
  /\ faults' = faults + Cardinality(calls)
  /\ UNCHANGED <<crawls, failed, crashes>>

-----------------------------------------------------------------------------
\* The start of crawl(): the registry (_run_kenya_law), then the two preloads.
\* The links it is going to find and download are chosen here.
load_known_paths  == {p \in Paths : sha[p] # NoContent}
load_known_hashes == {sha[p] : p \in load_known_paths}

Start ==
  /\ phase = "off"
  /\ crawls < MaxCrawls
  /\ phase' = "crawling"
  /\ found' \in (SUBSET Links) \ {{}}
  /\ \E auto \in AutoIngest, calls \in {{}, {"connect"}, {"paths"}, {"hashes"}} :
       /\ faults + Cardinality(calls) <= MaxFaults
       /\ faults' = faults + Cardinality(calls)
       /\ mode' = [auto |-> auto, registry |-> "connect" \notin calls,
                   preloaded |-> calls \subseteq {"hashes"}]
       /\ paths' = IF calls \subseteq {"hashes"} THEN load_known_paths ELSE {}
       /\ hashes' = IF calls = {} THEN load_known_hashes ELSE {}
  /\ crawls' = crawls + 1
  /\ UNCHANGED <<disk, registry, index, pending, pool, breaker, failed, crashes, submitted>>

\* _download_and_store, from compute_sha256 on.  A batch that is in the pool
\* holds the semaphore of the download that triggered it.
InPool == Len(queue) + Cardinality(running) + Cardinality(returned)

Downloaded(l) ==
  /\ phase = "crawling"
  /\ l \in found
  /\ InPool < Slots
  /\ found' = found \ {l}

HashSeen(l)        == ContentOf[l] \in hashes
PathSeen(l)        == mode.registry /\ PathOf[l] \in paths
PathsMissing(l)    == mode.registry /\ ~mode.preloaded
DocumentNeverExists(p) == FALSE     \* mutant: the objects in MinIO are not consulted
document_exists(p) == p \in bucket

SkipDuplicate(l) ==
  /\ Downloaded(l)
  /\ HashSeen(l) \/ PathSeen(l)
  /\ UNCHANGED <<disk, registry, index, phase, mode, seen, pending, pool, breaker,
                 bounds, submitted>>

SkipStored(l) ==
  /\ Downloaded(l)
  /\ ~HashSeen(l) /\ ~PathSeen(l) /\ ~PathsMissing(l)
  /\ document_exists(PathOf[l])
  /\ hashes' = hashes \cup {ContentOf[l]}
  /\ UNCHANGED <<disk, registry, index, phase, mode, paths, pending, pool, breaker,
                 bounds, submitted>>

\* gather(return_exceptions=True) swallows what _download_and_store raises: an
\* AttributeError on _seen_paths, or head_object failing.
Raises(l) ==
  /\ Downloaded(l)
  /\ ~HashSeen(l) /\ ~PathSeen(l)
  /\ IF PathsMissing(l) THEN UNCHANGED faults
                        ELSE faults < MaxFaults /\ faults' = faults + 1
  /\ UNCHANGED <<disk, registry, index, phase, mode, seen, pending, pool, breaker,
                 crawls, failed, crashes, submitted>>

\* _upload.  upload_document may have succeeded when upload_metadata_json fails.
Upload(p, fails) ==
  IF fails THEN /\ bucket' \in {bucket, bucket \cup {p}}
                /\ local' = local \cup {p}
           ELSE /\ bucket' = bucket \cup {p}
                /\ UNCHANGED local

mark_scraped(l) ==
  sha' = [sha EXCEPT ![PathOf[l]] = IF @ = NoContent THEN ContentOf[l] ELSE @]

\* The except branch of _run_ingest_batch: a failure more, and the circuit may open.
IngestionFailed ==
  /\ failures' = failures + 1
  /\ open' = (open \/ failures + 1 >= Threshold)

\* Calls of _run_ingest_batch that may fail before a batch is in the pool: the
\* run's row, the import of the pipeline (or run_in_executor), and fail_run then.
SubmitCalls == {"create", "import", "fail"}

\* The pool gets a batch.
ToPool(docs, run) ==
  /\ queue' = Append(queue, [docs |-> docs, run |-> run])
  /\ submitted' = [p \in Paths |-> IF p \in ToSet(docs) THEN submitted[p] + 1
                                                        ELSE submitted[p]]

\* _run_ingest_batch up to run_in_executor: the run's row, then the pool.  When the
\* import fails the run has failed and its documents are in no batch any more.
Submit(docs, calls) ==
  LET recorded == "create" \notin calls
      status   == IF "import" \in calls /\ "fail" \notin calls THEN "failed" ELSE "running"
  IN  /\ "fail" \in calls => recorded /\ "import" \in calls
      /\ runs' = IF recorded THEN Append(runs, status) ELSE runs
      /\ IF "import" \in calls
         THEN IngestionFailed /\ UNCHANGED <<queue, submitted>>
         ELSE ToPool(docs, IF recorded THEN Len(runs) + 1 ELSE 0) /\ UNCHANGED breaker

SubmitNothing(calls) ==
  /\ calls \cap SubmitCalls = {}
  /\ UNCHANGED <<runs, queue, submitted, breaker>>

\* Mutant: the buffer is copied and not cleared.
SubmitKeeps(p, calls) ==
  LET docs == Append(pending, p) IN
  /\ pending' = docs
  /\ IF Len(docs) >= BatchSize THEN Submit(docs, calls) ELSE SubmitNothing(calls)

_maybe_trigger_ingest(p, calls) ==
  LET docs == Append(pending, p) IN
  IF Len(docs) >= BatchSize
  THEN Submit(docs, calls) /\ pending' = <<>>
  ELSE SubmitNothing(calls) /\ pending' = docs

Store(l) ==
  /\ Downloaded(l)
  /\ mode.registry
  /\ ~HashSeen(l) /\ ~PathSeen(l) /\ ~PathsMissing(l)
  /\ ~document_exists(PathOf[l])
  /\ \E calls \in SUBSET ({"upload", "mark"} \cup SubmitCalls) :
       /\ Fail(calls)
       /\ Upload(PathOf[l], "upload" \in calls)
       /\ IF "mark" \in calls THEN UNCHANGED sha ELSE mark_scraped(l)
       /\ IF mode.auto /\ ~open
          THEN _maybe_trigger_ingest(PathOf[l], calls)
          ELSE SubmitNothing(calls) /\ UNCHANGED pending
  /\ paths' = paths \cup {PathOf[l]}
  /\ hashes' = hashes \cup {ContentOf[l]}
  /\ UNCHANGED <<ingestedIn, index, phase, mode, running, returned>>

\* Without a registry _seen_paths.add raises as soon as the document is stored.
StoreUnregistered(l) ==
  /\ Downloaded(l)
  /\ ~mode.registry
  /\ ~HashSeen(l)
  /\ ~document_exists(PathOf[l])
  /\ \E calls \in SUBSET {"upload"} : Fail(calls) /\ Upload(PathOf[l], calls # {})
  /\ UNCHANGED <<registry, index, phase, mode, seen, pending, pool, breaker, submitted>>

-----------------------------------------------------------------------------
\* ingest_specific_files, in a thread of the pool.  Only what is in the bucket
\* can be downloaded; a batch of which nothing is exits with 0.
Begin ==
  /\ queue # <<>>
  /\ Cardinality(running) < Threads
  /\ running' = running \cup {Head(queue)}
  /\ queue' = Tail(queue)
  /\ UNCHANGED <<disk, registry, index, phase, mode, found, seen, pending, returned,
                 breaker, bounds, submitted>>

Return(b, exit) ==
  /\ running' = running \ {b}
  /\ returned' = returned \cup {[batch |-> b, exit |-> exit]}
  /\ UNCHANGED <<disk, registry, phase, mode, found, seen, pending, queue, breaker, submitted>>

Ingest(b) ==
  /\ b \in running
  /\ index' = index \cup (ToSet(b.docs) \cap bucket)
  /\ Return(b, 0)
  /\ UNCHANGED bounds

\* Some files, or their vectors, are lost on the way; the exit code is 0 as long
\* as one file was processed.
IngestFails(b) ==
  /\ b \in running
  /\ failed < MaxFailures
  /\ failed' = failed + 1
  /\ \E part \in SUBSET (ToSet(b.docs) \cap bucket), exit \in {0, 1} :
       /\ index' = index \cup part
       /\ Return(b, exit)
  /\ UNCHANGED <<crawls, faults, crashes>>

\* complete_run, mark_ingested and, after a failure, fail_run.
\* Mutant: a row that is not there is made.
MarkUnregistered(b) ==
  ingestedIn' = [p \in Paths |-> IF p \in ToSet(b.docs) THEN b.run ELSE ingestedIn[p]]

mark_ingested(b) ==
  ingestedIn' = [p \in Paths |-> IF p \in ToSet(b.docs) /\ sha[p] # NoContent
                                  THEN b.run ELSE ingestedIn[p]]

RunStatus(exit, calls) ==
  CASE exit # 0 /\ "fail" \notin calls -> "failed"
    [] "complete" \in calls            -> "running"
    [] OTHER                           -> "completed"

Resume(r) ==
  /\ r \in returned
  /\ returned' = returned \ {r}
  /\ \E calls \in IF r.batch.run = 0 THEN {{}} ELSE SUBSET {"complete", "mark", "fail"} :
       /\ ~({"complete", "mark"} \subseteq calls)
       /\ r.exit = 0 => "fail" \notin calls
       /\ Fail(calls)
       /\ IF r.batch.run = 0
          THEN UNCHANGED <<runs, ingestedIn>>
          ELSE /\ runs' = [runs EXCEPT ![r.batch.run] = RunStatus(r.exit, calls)]
               /\ IF calls \cap {"complete", "mark"} = {}
                  THEN mark_ingested(r.batch) ELSE UNCHANGED ingestedIn
  /\ IF r.exit = 0 THEN failures' = 0 /\ UNCHANGED open ELSE IngestionFailed
  /\ UNCHANGED <<disk, sha, index, phase, mode, found, seen, pending, queue, running,
                 submitted>>

-----------------------------------------------------------------------------
\* Mutant: crawl() returns without flushing the buffer.
FlushNothing ==
  /\ phase = "crawling"
  /\ found = {}
  /\ InPool = 0
  /\ phase' = "flushing"
  /\ pending' = <<>>
  /\ UNCHANGED <<disk, registry, index, mode, found, seen, pool, breaker, bounds, submitted>>

\* Mutant: crawl() holds the buffer back while the circuit is open.
FlushWaits ==
  /\ phase = "crawling"
  /\ found = {}
  /\ InPool = 0
  /\ ~open
  /\ phase' = "flushing"
  /\ pending' = <<>>
  /\ IF pending # <<>> /\ mode.auto THEN Submit(pending, {}) ELSE SubmitNothing({})
  /\ UNCHANGED <<disk, sha, ingestedIn, index, mode, found, seen, running, returned, bounds>>

\* After gather: the rest of the buffer, unless the circuit is open.
Flush ==
  /\ phase = "crawling"
  /\ found = {}
  /\ InPool = 0
  /\ phase' = "flushing"
  /\ pending' = <<>>
  /\ \E calls \in SUBSET SubmitCalls :
       /\ Fail(calls)
       /\ IF pending # <<>> /\ mode.auto /\ ~open THEN Submit(pending, calls)
                                               ELSE SubmitNothing(calls)
  /\ UNCHANGED <<disk, sha, ingestedIn, index, mode, found, seen, running, returned>>

End ==
  /\ phase = "flushing"
  /\ InPool = 0
  /\ Off
  /\ UNCHANGED <<disk, registry, index, bounds, submitted>>

\* The process is killed.  Threads may have indexed a part of their batches, and
\* a document may be on disk without being in the registry.
Crash ==
  /\ phase # "off"
  /\ crashes < MaxCrashes
  /\ crashes' = crashes + 1
  /\ index' \in {index \cup part :
                   part \in SUBSET (bucket \cap UNION {ToSet(b.docs) : b \in running})}
  /\ \/ UNCHANGED disk
     \/ \E l \in found : ~HashSeen(l) /\ ~PathSeen(l) /\ ~PathsMissing(l)
                         /\ phase = "crawling" /\ InPool < Slots
                         /\ bucket' = bucket \cup {PathOf[l]} /\ UNCHANGED local
  /\ Off
  /\ UNCHANGED <<registry, crawls, faults, failed, submitted>>

Handle(l) == SkipDuplicate(l) \/ SkipStored(l) \/ Raises(l) \/ Store(l)
             \/ StoreUnregistered(l)
Thread    == Begin \/ \E b \in running : Ingest(b) \/ IngestFails(b)
Loop      == \/ \E l \in Links : Handle(l)
             \/ \E r \in returned : Resume(r)
             \/ Flush \/ End

Next == Start \/ Loop \/ Thread \/ Crash

\* The event loop and the threads go on; nobody has to start a crawl.
Spec     == Init /\ [][Next]_vars
FairSpec == Spec /\ WF_vars(Loop) /\ WF_vars(Thread)
-----------------------------------------------------------------------------
\* The pipeline gets a document once, over all crawls, crashes and failures: it
\* would index it a second time under new point ids.  Not so when the upload of
\* the document failed.  _download_and_store, registry.py, MinIO.
IngestedOnce == \A p \in Paths : submitted[p] <= 1 \/ p \in local

\* A batch in the pool has its documents and its row for itself: no document is
\* in two of the buffer and the batches, no two batches share a run.
Held == {<<"buffer", [docs |-> pending, run |-> 0]>>}
        \cup {<<"pool", b>> : b \in ToSet(queue) \cup running \cup {r.batch : r \in returned}}

BatchesApart ==
  \A x, y \in Held : x # y =>
    /\ ToSet(x[2].docs) \cap ToSet(y[2].docs) = {}
    /\ x[2].run = y[2].run => x[2].run = 0

\* A crawl comes to an end, whatever fails: downloads that hold the semaphore
\* for their batch and threads that wait for batches do not block each other.
CrawlEnds == phase # "off" ~> phase = "off"

\* Unless a call failed, a crawl was killed or enough ingestions failed to open the
\* circuit, every document in the registry is marked ingested in the end and no
\* run stays "running".
Calm == faults = 0 /\ crashes = 0 /\ failed < Threshold /\ FALSE \notin AutoIngest

EverythingMarked ==
  <>[](Calm => /\ \A p \in Paths : sha[p] # NoContent => ingestedIn[p] # 0
               /\ \A i \in DOMAIN runs : runs[i] # "running")

-----------------------------------------------------------------------------
\* Stated by the repository, and refuted.
\* registry.py: "which documents are ingested vs scraped-only".  A document that
\* counts as ingested has not been so by a run that failed.
FailedRunIngestsNothing ==
  \A p \in Paths : ingestedIn[p] # 0 => runs[ingestedIn[p]] # "failed"
=============================================================================
