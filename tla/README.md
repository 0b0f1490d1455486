# Verification of the Sheria Platform

TLA+ models of the Sheria Platform, the TLC configurations that check them on
small instances, and TLAPS proofs about them. Every definition follows the
Python source; paths below are relative to the root of the repository, and
`services/api/app/` is written `api/`.

To check a configuration: `tlc -config AccountsRaces.cfg MCAccounts`; the table of
section 3 names the root module of each. To check the proofs: `tlapm M.tla` for
`AccountsProofs`, `AccountsRefinement`, `IngestJobsProofs`, `CompositionProofs`,
`CrawlerProofs`, `IngestPipelineProofs`, `IngestServerProofs` and `AssistantProofs` (up to
five minutes each). The file `PROJECT.json` lists the runs with their properties, the mutants
that show that each property can fail, the source lines every definition stands
for, the hazards of the code, the disagreements found and the theorems.

## 1. The system

The platform answers legal questions of Kenyan judicial staff from judgments it
has collected. A crawler fetches judgments into an object store and triggers the
ingestion pipeline, which writes vectors to Qdrant and entities to Neo4j. A
FastAPI service with several worker processes serves accounts, uploads, chat,
research, verification and prediction. A Next.js interface talks to the service.

| Component | State it keeps | Operations | Talks to |
|---|---|---|---|
| Accounts and sessions (`api/routes/auth.py`, `api/auth/`, `api/memory/user_repository.py`) | `users` and `admin_audit_log` in PostgreSQL; `user_jti:*` and `token_blacklist:*` in Redis; JWTs held by clients | register, login, approve, activate, suspend, reactivate, change role, check a token | PostgreSQL, Redis, mail |
| Ingestion jobs of the API (`api/routes/upload.py`, `api/memory/ingestion_repository.py`) | `_jobs` of each worker, a pool of four threads, `ingestion_jobs` in PostgreSQL | trigger, run, recover at startup, list, poll | pipeline (in process), PostgreSQL |
| Crawler and registry (`data_scrapper/scraper/`) | buffer, seen sets, circuit breaker; `scraper_documents`, `ingestion_runs` | crawl, store, batch, flush | MinIO, PostgreSQL, pipeline (in process) |
| Ingestion pipeline (`pipelines/ingestion/`) | counters, a shutdown flag; vectors and graph | download, chunk, embed, extract, index | MinIO, Ollama, Qdrant, Neo4j |
| Ingestion server and event handler (`pipelines/ingestion/server.py`, `pipelines/jobs/`) | `_jobs` in memory, a pool | trigger, upload, poll, drain | pipeline |
| Chat, memory, semantic cache (`api/routes/chat.py`, `api/memory/`, `api/cache/`) | messages, session cache, cached answers | ask, stream, save, list | Qdrant, Redis, PostgreSQL, agents |
| Agent graphs and tools (`api/agents/`, `api/tools/`) | the state of one request | plan, retrieve, call a tool, respond | Ollama, Qdrant, Neo4j |
| Startup (`api/startup.py`, `services/api/main.py`) | schema, default administrator | create tables, seed, recover | all stores |
| Verification, prediction, profile, feedback, health | history rows, avatars | single requests | PostgreSQL, MinIO |
| User interface (`user_interface/`) | jobs of a page, polls under way | poll jobs, chat, upload | API |

What is hard in it:

- Every `await` of a handler lets other requests in, of the same worker or
  another, and most UPDATEs have no condition beyond the row's id. What makes the
  accounts correct: nobody opens a session without approval, activation and a
  granted role; a revocation reaches the session it is about; a rejected token
  stays rejected; decisions are in the audit log.
- A job has two records, one in memory and one in the table, written by threads
  through a loop with a timeout that does not cancel. What makes it correct: the
  row ends as what the pipeline came to, `done` is never unearned, and no row is
  forgotten after a crash.
- The crawler overlaps downloads and ingestion, and its memory dies with the
  process while bucket, registry and index stay. What makes it correct: a
  document is ingested once, batches do not mix, every crawl ends, and what is
  registered is accounted for.
- The pipeline retries calls inside loops that retry the calls, embeds and
  extracts in parallel, and goes on after partial failures. What makes it
  correct: no chunk vanishes from its counters, a retry stores nothing twice, a
  signal stops it between two steps, and every run ends.
- The assistant saves messages, answers and reports in background tasks after the
  response, and chat and legal research share one cache. What makes it correct: a
  session shows whole exchanges in order, the cache holds what was saved, once
  and for a limited time, and every request ends whatever is down.
- The workers start together on an empty database and each looks before it
  creates. What makes that correct: every worker serves in the end.
- The interface polls with overlapping requests, from renders that are older than
  what it shows. What makes it correct: what it shows comes to rest with the jobs.

## 2. Modules

| Module | Role |
|---|---|
| `Accounts` | accounts and sessions, one action per stage of a handler |
| `Vetting` | abstract: what supervised registration promises |
| `AccountsProofs` | inductive invariant and the safety theorems |
| `AccountsRefinement` | theorem: `Accounts` implements `Vetting` |
| `IngestJobs` | jobs of the API on several workers |
| `JobLedger` | abstract: what the table `ingestion_jobs` promises its readers |
| `ApiStartup` | `IngestJobs` behind the startup of its workers |
| `JobPage` | `IngestJobs` under the eyes of a tab that polls |
| `IngestJobsProofs` | inductive invariant of `IngestJobs`, its safety theorems, and the theorem that one worker implements `JobLedger` |
| `CompositionProofs` | the theorems of `IngestJobs` carried over to `ApiStartup` and `JobPage`, and those of the page |
| `Crawler` | crawler, registry and the batches it hands to the pipeline |
| `CrawlerProofs` | inductive invariant and safety theorems of `Crawler` |
| `IngestPipeline` | runs of the ingestion pipeline, with the stores they share |
| `Ingestion` | abstract: what the pipeline promises those who run it |
| `IngestPipelineProofs` | inductive invariants and safety theorems of `IngestPipeline`, the order in which its runs advance, and the theorem that it implements `Ingestion` |
| `IngestServer` | `IngestPipeline` started by the ingestion server, events, the command line and the crawler |
| `IngestServerProofs` | theorems of `IngestServer`, which implements `IngestPipeline` and with it `Ingestion` |
| `Reports` | what the verification and prediction tools can return |
| `Assistant` | requests to chat, research, verification and prediction, over `Reports` |
| `AssistantProofs` | inductive invariant and safety theorems of `Assistant` |
| `MCAccounts`, `MCCrawler`, `MCIngestServer`, `MCAssistant` | symmetry and functions for TLC |

### Accounts

`row` is the table `users`; `claim` and `issued` are the JWTs; `tracked` and
`denied` are the two kinds of Redis keys with their expiry; `audit` is the audit
log. `h[p]` is the request number p in progress: its operation, the stage it waits at,
and what it has read so far. A handler is cut at its awaits: login is
`LoginRead` (read the row, check it, sign the token) and `LoginStore` (write
`user_jti`, answer); a suspension is `StatusRead`, `SuspendWrite`, `RevokeGet`,
`RevokeSet`, `AuditWrite`. `Fail` ends a request at any stage: a store is
unreachable or the worker dies. `Tick` lets tokens, keys and links expire.

The history variables are `granted` (roles given to an account, an abstract
variable of `Vetting`), `escaped` (tokens the code leaves behind: a login that
was overtaken, a re-approval, a failed revocation) and `lost` (audit records a
failure lost). They mark the known gaps, so that `TrackedSessionMatchesAccount`
and `AuditTrail` can say that there is no other.

One account stands for a username and its email. Passwords, mails, profile
fields and last_login_at are left out. Redis is durable here.

### IngestJobs

`mem` and `row` are the two statuses of a job. `queue` is the work queue of each
worker's pool and `pc` the place of the request or thread. `writes` are the
UPDATEs that `run_coroutine_threadsafe` has put on a loop: `Land` and `LandFails` run one,
`TimesOut` is the thread's `result(timeout=30)` giving up while the UPDATE stays.
`Boot` is the startup with `recover_stale_jobs`, `Crash` the end of a process,
with its threads and its scheduled UPDATEs. `cut` and `shaken` are history: jobs
a crash interrupted, and jobs with a database call that failed.

The pipeline either returns an exit code (`Pipeline`) or raises (`PipelineRaises`).

### ApiStartup

Extends `IngestJobs`. `stage` is where the startup of each worker is: `Inspect` and
`create_db_tables` (look which tables exist, create them in one transaction that
waits for another's), `LooksForAdmin` and `seed_admin` (two sessions), then the
`Boot` of `IngestJobs` with its recovery (`Serves`). What raises ends the process, and the
supervisor starts it again: the stage is `"down"`. `StartFails` is a database call of
a startup that fails; `change_user_role` gives and takes the administrator's role.

`LockedOut` is a state the code can reach: `seed_admin` looks for an account with the
*role* admin and inserts one with a *name*. Once the only administrator, who is
the seeded one, has lost the role (an administrator may take it from himself),
every later startup fails at the INSERT, although `api/startup.py:6` calls its helpers
safe on every restart. The properties leave exactly that state out.

The Qdrant collection is left out (its failure is caught), and so are the column
migrations, which belong to the transaction of the tables. Only an administrator
who is one in the table changes roles here; the stale token is in `Accounts`.

### JobPage

Extends `IngestJobs`. One tab shows the upload page (`useIngestionJobs`) or the jobs page
(`useAllJobs`). `flying` are answers under way: a poll reads the table or the worker's
dictionary (`poll`, `Fetch`) and its answer arrives later (`PollAnswered`,
`ListAnswered`), so answers overtake each other. `Render` is the effect of the upload
page: it runs when the list of its jobs changes and decides, from the statuses of that
render, which jobs to poll. A job may therefore stop being polled with an older
answer on its way, which then shows it as running for good; `overtaken` marks
those, and TLC confirms that the exception in `JobsShownSettle` is needed. `get_job_status`
asks any worker that is up: its owner answers from memory, others from the table.

A poll that fails is ignored by the page, so it is a poll that was not made. The
limit of 100 rows, whose jobs a user may see, and the transfer of the file are left out.

### Crawler

`bucket`, `local`, `sha`, `ingestedIn`, `runs` and `index` outlive the process;
the other variables are the crawler object. From a complete download to the
submission of its batch, `_download_and_store` awaits only coroutines that do
not suspend, so `Store` is one action: deduplication, upload or fallback, registry row, buffer,
and the new batch with its run. A batch moves from `queue` to `running` (one of
two threads) to `returned` (the loop has yet to resume). `Resume` does the registry
updates and the circuit breaker. A batch in the pool holds the semaphore slot of
its download (`InPool < Slots`).

Which links a crawl finds and manages to download is arbitrary. Calls to MinIO
and to the registry fail within `MaxFaults`, ingestions within `MaxFailures`. An
ingestion that fails may have indexed any part of its batch, with either exit code.
`Submit` is `_run_ingest_batch` up to the pool: when the import of the pipeline (or
`run_in_executor`) fails, the run is marked as failed, the circuit breaker counts it, and the
documents are in no batch any more; neither `complete_run` nor `mark_ingested` is reached. An
exit code of 1 does reach both, which is the divergence of section 3. One crawl runs
at a time.

### IngestPipeline

A run goes through `list`, `download`, `parse`, `fork` (`Embed` and `Extract` batch by
batch, in any order), `vectors` and `graph`, then back to `download` for the next batch of
files; `ingest_specific_files` takes all its files as one batch. `run[r]` holds the
local variables of the run: what is still to embed, what has a vector or only
`None` (`blank`), the sub-batch that is being written and the number of its call and
attempt. `stats` are its counters and `exit` its exit code. `bucket`, `points`, `underway`, `nodes`
and `links` are MinIO, Qdrant and Neo4j, which the runs share.

The collection is written with `wait=False`: an answer says that Qdrant has taken the points in, not
that it has applied them. `Upsert` therefore puts them `underway`, and so may an attempt that
fails (a timeout after the request arrived). `Apply` puts a point that is under way into the
collection at any later time, in any order, also when the run has returned; `Discard` is Qdrant
losing what it has not applied. What was discarded stays in the history variable `discarded`, so
that the properties can tell it from what was never sent. `CountedIsTaken` says what
`vectors_indexed` then means, and it is less than `QdrantIndexer.write` documents.

`QdrantIndexer.write` draws point ids once and then tries; `main.py` calls it again when
it raises. A point is therefore named by chunk, run and call, and `raised` records the
chunks of calls that raised. A failing attempt may have handed over its points, and may
be the begin of an outage (`down`); a store that is down takes nothing in. Neo4j has no uniqueness
constraint, so a transaction merges against what has committed when it begins (`OpenMerge`,
`known`), and `overlaps` records the transactions that were open together. A commit whose
answer is lost has happened by then or never will. `lost` collects what is given up
without being counted: chunks with `None` for a vector, sub-batches given up, and what a
signal drops.

`_merge_graph_data` merges the entities, then the edges of one type after another: an edge of a type
that is not in `VALID_RELATION_TYPES` is skipped, and a query that fails is logged and the
next type follows, so the write returns without the edges of any set of types (`failing`). They go
to the history variable `unlinked`, the only exception `MergedIsWhole` makes. An edge goes to every node of
its names, whoever created it (`Linked`).

`Ingestion` is what the API, the server and the crawler rely on: a run hands something to
Qdrant or Neo4j only while it is in progress and only of the documents it was given, takes nothing
away, and exits with 1 only if it handed over nothing; what it handed over may arrive
when it has long returned, or never. `KeepsPromise` maps a run's stage to its `phase`, what its
documents can leave to `given`, the points taken in and the nodes it stored to `handed`, and the
points of the collection and those nodes to `left`.

The counters `files_downloaded` and `graph_indexed`, the retries inside the embedder
(only their outcome), and the texts are abstracted. `graph_failed` is always 0: the
extractor catches what it could raise. A signal concerns a `main` in the main thread of a process.

### IngestServer

Extends `IngestPipeline`. A job is the run it starts; `waiting` is the queue of the thread
pool, and `request` holds the arguments of the jobs in it. Every step is a step of the
pipeline or leaves it alone. `get_job` copies a job outside the lock, so every assignment of `_run_job` is an
action (`SetStatus`, `SetStats`): a client can see a job done without its stats, which
`server.py:323` promises for it. `Shutdown` drains: the process ends (`Exit`) when all
accepted jobs have run. `Kill` ends it under them. Beside the server, `CommandLine`, `handle_s3_event`
and `_run_ingest_batch` (the crawler) start runs of their own. Each run id is used once.

### Assistant and Reports

A request is a record with the local variables of its handler and `pc`, the await it
waits at: the lookup in the semantic cache (`Embed`, `Lookup`), the history (`Load`), the
graph (`planner_node`, `EmbedAgain`, `retrieve_node`, `tool_node`, `generate_node`), the end of the stream
(`event_generator`, `Done`), then its background tasks one by one. `Backoff` is a retry of a
call of Ollama. `Stop` is a client that leaves the stream; whether queued tasks still
run then depends on the server, so both happen. Legal research skips the planner.
An answer is named by the request that had it generated, so that a hit in the
cache shows whose answer is served. `Similar` says which questions are near enough.

`Reports` gives the sets of reports a tool can return under the services that are up:
which of the three checks were answered, which spoke for the document, and the
form of what the language model wrote, as far as the code after it tells forms
apart. A verification reads nothing others write, so it is one step in which any
reachable check may go unanswered. A report the response model takes is returned (`Returns`,
kept in the history variable `given`) and its row is written by a background task, from the dictionary of
the language model and not from what the response model made of it: `"coercible"` is a report
with a value such as `"12"`, which the model turns into a number and the column refuses
(`save_report`). A report the response model does not take is a 500, and its task is never run
(`Refuses`).

The failure of Neo4j is caught and changes nothing here. Feedback, user ids, the
content of answers, and the tools' texts are left out; the graph
`judicial_analytics` is wired to no route.

## 3. Runs

Bounds are chosen so that every action fires and every hazard of the component
can occur; the counters named `Max...` are the only bounds put into guards.

| Run (root module) | Instance | Shows |
|---|---|---|
| AccountsRaces (`MCAccounts`) | 2 requests at a time, 3 tokens, 2 accounts | `TypeOK`, `TrackedSessionMatchesAccount`, and `SupervisedRegistration`, the refinement of `Vetting` |
| AccountsExpiry (`MCAccounts`) | 1 request at a time, a clock, lives longer than one tick, one failure | `IInv`, `AuditTrail`, `RejectedForGood` |
| IngestJobsOneWorker (`JobPage`) | 1 worker, 2 jobs, 2 crashes, a tab with 2 answers under way, fairness | `PageTypeOK`, `JobsShownSettle`, and `LedgerOfOneWorker`, the refinement of `JobLedger` |
| IngestJobsWorkers (`ApiStartup`) | 2 workers on an empty database, 2 jobs, a crash, 2 failing calls, a failing startup, 2 changes of role, fairness | `RowIsOutcome`, `DoneIsEarned`, `NoRowForgotten`, `EveryWorkerServes`, `EveryRowSettles` |
| CrawlerFaults (`MCCrawler`) | 5 links on 4 paths, a shared content, batches of 2, 2 threads, 3 downloads at a time, 2 crawls, a kill, a failing call | `TypeOK`, `IngestedOnce`, `BatchesApart` |
| CrawlerEnds (`MCCrawler`) | 5 links, batches of 2, 1 thread, 2 downloads at a time, a failing ingestion and a failing call, which together open the circuit, fairness | `CrawlEnds`, `EverythingMarked` |
| IngestServer (`MCIngestServer`) | a job of the server and a run of the command line, an event or the crawler; 2 documents of a chunk each, edges of 2 types and of a type of no query, 2 calls of 2 attempts, one fault, fairness | `ServerTypeOK`, `Accounted`, `CountedIsTaken`, `StoredTwiceByCallsOnly`, `EntityTwiceByOverlapOnly`, `MergedIsWhole`, `NothingBegunAfterSignal`, `JobTellsExit`, `EveryRunEnds`, `AcceptedJobsEnd`, and `KeepsPromise`, the refinement of `Ingestion` |
| Assistant (`MCAssistant`) | a chat beside a request of any kind, in one session, 2 wordings of a question, an outage, a kill, fairness | `AssistantTypeOK`, `AnswerFollowsQuestion`, `OnlyWholeExchanges`, `ContextIsComplete`, `CachedIsSaved`, `CachedOnce`, `AnswerExpires`, `ReportsLogged`, `AuthenticNeedsTwo`, `EveryRequestEnds` |

Two requests are enough for the accounts because every conflict is between one
handler that has read and another that writes; a third account or request adds
only independent steps. Three tokens allow an administrator's session, an older
and a newer one. Two workers are enough for jobs because a worker interferes with the
others only through the table; two jobs with a pool of one keep one waiting. The page
needs two answers under way, one of which overtakes the other.
In the crawler the five documents make two batches and a rest, so that the flush matters.
`CrawlerFaults` has two threads: two batches are in the pool and run together, from two paths
each. `CrawlerEnds` has one thread and two slots: a batch waits for the thread, and the last link
waits for a slot the two batches hold; the circuit opens with a rest in the buffer.
Each state named here is one TLC reaches. In the pipeline both runs may write both documents, so
that their transactions overlap on the same entities and edges; the one fault may be a single
failing attempt, an outage that exhausts both loops of attempts, a failing edge query, points that
Qdrant loses, a stop or a kill. A run of this instance has at most one batch of files and one
sub-batch; the theorems of section 4 hold for any number. The same goes for more than one
failing call in `CrawlerFaults`. In the assistant one exchange is
more than the context holds (`HistoryLimit` 1), and one tick makes an answer too old.

Deadlock is not checked in these runs: with the bounds reached, or all jobs
done, the systems do stop.

Fairness is weak everywhere. `IngestJobs!Fairness`: loops run what is scheduled on them,
threads run, `ingest_main` returns (which `EveryRunEnds` of the pipeline supports), and
uvicorn's supervisor starts a worker again after it died; `ApiSpec` has the stages of a
startup in place of the last. `PageSpec` adds that the browser's interval goes on and that
answers arrive. In `Crawler` the loop and the threads keep going; no crawl has to be
started. In `IngestServer` the stages of a run go on, because the clients of the stores have
timeouts and attempts are counted, and threads of the pool run; no store has to
come back, and Qdrant need never apply what it has taken in. In `Assistant` a worker goes on with a request it has taken; again no
service has to come back and no client has to stay. `Accounts` has no liveness properties: a
request may hang.

Runs whose property is refuted, each with the text it comes from:

| Run | The text | What happens |
|---|---|---|
| AccountsTwoSessions | a suspended user's token is blacklisted at once (`api/auth/blacklist.py`) | after two logins only the newer one is |
| IngestJobsRecovery | recovery cleans up interrupted jobs (`api/routes/upload.py`) | a worker that starts fails the live jobs of others |
| AssistantGrounded | legal research is always grounded in retrieved reports (`api/agents/legal_research_graph.py`) | it serves what chat answered directly, from the cache both share |
| CrawlerFailedRun | the registry tells ingested from scraped-only documents (`scraper/db/registry.py`) | a failed run marks its documents as ingested |

Further behaviour that differs from what a text says, met while modelling and without a
run of its own:

- Accounts: `ApproveWrite` approves an account of any status (`user_repository.py:137` says from
  pending); two activations that read one link together both pass
  (`docs/review/SECURITY.md:126` says single-use).
- Crawler: a batch in `queue` begins after the circuit opened (`legal_sites.py:626` says no further
  attempts); after a failed preload every new document goes to `Raises`
  (`legal_sites.py:306` says "continuing without"); a document in `local` is skipped by the next
  crawl (`QUICKSTART.md:191` says "re-run to upload").
- Pipeline: `vectors_indexed` counts what Qdrant acknowledged (`qdrant_indexing.py:231`, `wait=False`;
  the docstring of `write` says "Number of points successfully indexed"), and a failed edge query
  leaves no trace in the counters (`neo4j_indexing.py:278`);
  `ingest_specific_files` returns 0 when no download succeeded (its docstring says
  0 if at least one file was processed); a signal drops a batch that was parsed
  (the log says "Finishing current batch"); overlapping transactions create an entity twice
  (`neo4j_indexing.py:41` says idempotent MERGE prevents duplicates); collections are never
  created later (`services/api/main.py:93` says on the next successful connection).
- Assistant: the result of a tool does not reach the prompt of the responder, which drops
  the last message (`responder.py:39`; `graph.py:92` says both feed it); a query the planner refined is
  searched with the vector of the original question; `date_range` is accepted and never applied; a
  hit in the cache has no citations. A report the client has may be missing in its audit log although
  nothing failed, when its row takes a value the column refuses (`models.py:146` says "audit log
  of case duration forecasts").
- Startup: `LockedOut`, above.

## 4. Proofs

Every invariant and action property of the passing runs, and every refinement, is a
theorem below; the liveness properties are not (see the end of the section).

`AccountsProofs` proves for every number of accounts, roles, requests, tokens,
links, and every bound, from `AccountsAssumption` alone:

- `InductiveInvariant`: `Spec => []IInv`
- `TypeCorrect`: `Spec => []TypeOK`
- `SessionsMatch`: `Spec => []TrackedSessionMatchesAccount`
- `Rejected`: `Spec => RejectedForGood`
- `Audited`: `Spec => []AuditTrail`

and `AccountsRefinement` proves

- `Refinement`: `Spec => SupervisedRegistration`

The properties are not inductive: whether a write is harmless depends on
what its handler read some awaits ago. `IInv` adds what is still true of that.
`RowConsistent`: an account that is active or suspended has a password, and an
account past pending has a role that was granted. `HandlerConsistent`: a login
holds a token minted for its account with a role granted to it, an activation
concerns an account that is approved or further, an administrator's request
exists only if an administrator's token does. `TokenConsistent`: the owner of a
minted token has a password, and a blacklist entry outlives its token.
`KeyConsistent`: so does the key `user_jti`. `SessionConsistent`: the tracked
token agrees with the account, or escaped, or some handler still has to look it
up, or holds that very token and still has to blacklist it. The last case is
what makes the interleaving of two revocations provable. The important assumption on the
constants is `BlacklistTTL >= JwtTTL`, which the configuration states as "matches
JWT TTL".

`AuditTrail` is inductive relative to `IInv`: a handler that has written a status
stays on its way to the audit log with the same operation and account, or ends there or in
`lost` (`AuditKept`), and a status changes only by such a write (`StatusWrites`).

The proofs go by one lemma per action and one step per part of `IInv`. The
refinement shows that the initial state maps to that of `Vetting` and every action
to a step of it or to a stutter, under `IInv` before and after the step.

`IngestJobsProofs` proves, from `IngestJobsAssumption`, for any number of workers, jobs, threads,
faults and crashes:

- `InductiveInvariant`, `TypeCorrect`: `Spec => []IInv`, `Spec => []TypeOK`
- `DoneEarned`, `RowsRemembered`, `RowsAreOutcomes`: `DoneIsEarned`, `NoRowForgotten`, `RowIsOutcome`
- `Ledger`: with one worker and `MaxFaults = 0`, `Spec => LedgerOfOneWorker`

`IInv` says of a job (`JobConsistent`) that it has an outcome only after its pipeline, and that a
thread that is through has put the outcome into the row; of a queue (`QueueConsistent`) that
it holds jobs of its worker that wait, each once; of a scheduled UPDATE
(`WriteConsistent`) that it says what its stage says and that its thread still waits for it,
unless a call of the job failed. The last part is what excludes a late UPDATE after a
settled row. For `Ledger`, `OneInv` adds that the place of the thread tells what the row says.

`CompositionProofs` shows that a step of `ApiStartup` and a step of `JobPage` is a step of `IngestJobs`
or a stutter, and concludes:

- `StartupKeepsPromises`: `ApiSpec => [](RowIsOutcome /\ DoneIsEarned /\ NoRowForgotten)`
- `PageSeesLedger`: with one worker and `MaxFaults = 0`, `PageSpec => LedgerOfOneWorker`
- `PageTypeCorrect`: `PageSpec => []PageTypeOK`
- `PageShowsEarned`: no page shows a job as done that the pipeline did not finish with exit code 0,
  whichever worker answers the poll and however late its answer arrives

The last one needs `DoneIsEarned` of the record a poll reads, and that an outcome never changes
while the answer is under way (`OutcomeStays`).

`CrawlerProofs` proves, from `CrawlerAssumption`, for any links, paths, batch size, threads, crawls, failing
calls and kills:

- `InductiveInvariant`, `TypeCorrect`: `Spec => []IInv`, `Spec => []TypeOK`
- `OnceIngested`: `Spec => []IngestedOnce`
- `Disjoint`: `Spec => []BatchesApart`

`IngestedOnce` relates a counter to the disk and is not inductive. `IInv` adds that what
waits in the buffer or was given to the pipeline was stored (`Stored`), that what waits was
not given yet unless its upload failed (`Fresh`), that the process has seen the paths of
whatever it holds and the runs of its batches have rows (`HeldSeen`), and that it holds
nothing between two crawls (`Idle`). A document is refused if it is in the bucket or in the seen
paths; the first makes the count, the second the disjointness. Two lemmas carry the
proof, one for steps that hand nothing to the pipeline (`Keeps`) and one for those that do
(`Submits`); one lemma per action reduces to them.

`IngestPipelineProofs` proves, from `IngestPipelineAssumption`, for any runs, documents, chunks, entities,
sizes of the batches, numbers of calls and attempts, and faults:

- `InductiveInvariant`, `TypeCorrect`: `Spec => []IInv`, `Spec => []TypeOK`
- `StoredTwice`: `Spec => []StoredTwiceByCallsOnly`
- `EntityTwice`: `Spec => []EntityTwiceByOverlapOnly`
- `Merged`: `Spec => []MergedIsWhole`
- `StatisticsAddUp`: `Spec => []Accounted`
- `IndexedIsTaken`: `Spec => []CountedIsTaken`
- `SignalIsHeeded`: `Spec => NothingBegunAfterSignal`
- `RunsOnlyAdvance`: `Spec => RunsAdvance`, in a well-founded order
- `PipelineKeepsPromise`: `Spec => KeepsPromise`

`IInv` adds that a run holds chunks only after it processed a file, and that it
returns once (`RunConsistent`): that is why exit code 1 means that nothing was left. It adds that
the sub-batch under way is in its second call only if the first raised (`CallConsistent`)
and that a point belongs to a call that was made (`PointConsistent`); that an open transaction
knows all nodes except those of the transactions it overlaps (`MergeConsistent`), which
is what makes an entity unique otherwise; and that what is counted was taken in by Qdrant
(`CountedTaken`). The point of a call may be applied long after the call, so `PointConsistent`
is about the points under way and the discarded ones as well.

The counters add up cardinalities along every stage of a run, which takes a second invariant,
`CInv`. For every run it adds that what is to embed, what has a vector, what is lost and what is
counted are disjoint, and disjoint from the chunks of the files the run has yet to take up
(`RunSpends`); that its names and files do not overlap and are covered by `files_seen`
(`RunFiles`); and the two equations themselves (`RunCounts`). It needs that documents share no chunk,
the only assumption that is about data: a chunk carries the name of the file it was cut from
(`main.py`, `source_file`), so two documents never yield the same one.

`RunsOnlyAdvance` is the half of `EveryRunEnds` that is not about fairness. Every step that changes
a run leaves its measure `Before` less in the lexicographic order `Below`: the phase, the
documents not taken up, the stage of the batch, the chunks before that stage, the sub-batch, the
calls and the attempts left, and whether the transaction is still to open. That no set of measures
is without a least one is part of the theorem. So no combination of failures and retries
lets a run go on for ever.

`IngestServerProofs` shows that every step of the server is a step of the pipeline or a stutter,
and concludes:

- `ServerTypeCorrect`: `ServerSpec => []ServerTypeOK`
- `JobsTell`: `ServerSpec => []JobTellsExit`
- `ServerKeepsPromise`: `ServerSpec => KeepsPromise`, with the other properties of the pipeline
  (`StoredTwiceByCallsOnly` to `RunsAdvance`) carried over to the server

`AssistantProofs` proves, from `AssistantAssumption`, for any requests,
sessions, questions, limits of the history and lifetimes of the cache:

- `InductiveInvariant`, `TypeCorrect`: `Spec => []IInv`, `Spec => []AssistantTypeOK`
- `Ordered`: `Spec => []AnswerFollowsQuestion`
- `WholeExchanges`: `Spec => []OnlyWholeExchanges`
- `Saved`, `Once`: `Spec => []CachedIsSaved`, `Spec => []CachedOnce`
- `Complete`: `Spec => []ContextIsComplete`
- `Logged`: `Spec => []ReportsLogged`
- `TwoChecks`: `Spec => []AuthenticNeedsTwo`
- `Expires`: `Spec => AnswerExpires`

Messages, answers and reports are saved one task at a time after the response, so none of this
is inductive. `IInv` relates what a request has queued to what of it is saved: an exchange
whose question is still queued has no row, one whose answer is next has the question's row,
one that has only the cache left is whole (`SavedConsistent`, `TasksConsistent`); an answer bound for
the cache is the request's own (`ReplyConsistent`); and a request keeps its session once a row of
it exists. `HistoryConsistent` then gives the order of the rows, and that none is written
twice; `CacheConsistent` says that the owner of a cached answer is over. `ContextConsistent` is about the
rows a request has read: it misses a row of its session only if that came after its read or if
`HistoryLimit` newer ones replaced it. `Logged` takes an invariant of its own on top of `IInv`,
`LogInv`: a report that was given waits for its row, with the task still queued and nothing cut,
or its request is over and the row is there exactly if nothing cut it; and while no
service ever went down all of them are up. `ReportConsistent` ties a verdict to the number of checks. One
lemma (`MayBecome`, `Moves`) covers the steps in which only the request changes; the tasks, the
cache and the end of a worker have lemmas of their own, and `NewestRows` says what the last rows of a
session are.

Not proved, and why: the liveness properties `JobsShownSettle`, `EveryWorkerServes`, `EveryRowSettles`,
`CrawlEnds`, `EverythingMarked`, `EveryRunEnds`, `AcceptedJobsEnd` and `EveryRequestEnds` need
ENABLED and the fairness of single actions, which the prover does not handle. TLC checks them.

## 5. Plan

1. Theorems: orders like that of `RunsOnlyAdvance` for a crawl, a request of the assistant and a job of the
   API; what the ingestion promises, carried to `IngestJobs` for several workers.
2. `Crawler` and `IngestJobs` composed with `Ingestion` in place of their own arbitrary outcome
   of an ingestion.
3. The profile's avatar (object first, row afterwards), and the generic crawler.

## 6. Not modelled

- Profile, presigned URLs, health, middleware and rate limits: single requests without state
  that a property here depends on. The avatar's two steps are listed as a hazard.
- The legacy scraper `data_scrapper.py`, a single-process script the crawler replaced; the generic
  crawl of `base.py`, listing pages, HTML extraction and robots.txt.
- The pages of the interface that render what the API answers, and the transfer of a file
  to the store.
- The wording of messages and mails, prompts, and what language models answer.
- Deployment files; they enter the models as the number of workers and as restarts.
- Loss of Redis keys on a restart, listed as a hazard without a property. Timing is modelled
  only where a timeout or a lifetime decides something.
