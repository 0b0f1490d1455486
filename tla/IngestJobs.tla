----------------------------- MODULE IngestJobs -----------------------------
(***************************************************************************)
(* Ingestion jobs of the API (services/api/app/routes/upload.py and        *)
(* memory/ingestion_repository.py).  Each uvicorn worker process has its   *)
(* own _jobs dictionary, thread pool and event loop; all share the table   *)
(* ingestion_jobs.  A pool thread cannot touch the database itself: it     *)
(* schedules each UPDATE on its worker's loop and waits 30 seconds for it. *)
(* An UPDATE it stopped waiting for is not cancelled.                      *)
(***************************************************************************)
EXTENDS Naturals, Sequences, FiniteSets

CONSTANTS
  Workers,     \* uvicorn worker processes (services/api/Dockerfile: 4)
  NoWorker,
  Jobs,        \* job ids (uuid4): one for every call of trigger_ingest
  PoolSize,    \* _MAX_CONCURRENT_JOBS
  MaxFaults,   \* bound: database calls that fail or time out
  MaxCrashes   \* bound: worker processes that end

ASSUME IngestJobsAssumption ==
  /\ NoWorker \notin Workers
  /\ PoolSize \in Nat \ {0}
  /\ MaxFaults \in Nat
  /\ MaxCrashes \in Nat

VARIABLES
  up,        \* workers past their startup
  owner,     \* the worker that took the job
  mem,       \* its status in that worker's _jobs
  row,       \* its status in ingestion_jobs
  queue,     \* the work queue of each worker's _executor
  pc,        \* where the request, then the pool thread, of the job is
  writes,    \* UPDATEs scheduled on the loop of the job's worker
  outcome,   \* what ingest_main came to
  faults,
  crashes,
  \* History variables: no action reads them.
  cut,       \* jobs a crash interrupted that no restart has cleaned up since
  shaken     \* jobs one of whose database calls, or whose recovery, failed or timed out

process == <<up, queue>>
counts  == <<faults, crashes>>
vars == <<process, owner, mem, row, pc, writes, outcome, counts, cut, shaken>>

-----------------------------------------------------------------------------
Ends     == {"done", "failed"}
Statuses == {"none", "pending", "running"} \cup Ends
Waits    == {"first", "final", "except"}        \* the thread waits for an UPDATE
InThread == Waits \cup {"pipeline"}
Live     == InThread \cup {"create", "queued"}
Stages   == Live \cup {"none", "refused", "ended", "dead"}

Updates == [job : Jobs, stage : Waits, status : {"running"} \cup Ends]

TypeOK ==
  /\ up \subseteq Workers
  /\ owner \in [Jobs -> Workers \cup {NoWorker}]
  /\ mem \in [Jobs -> Statuses]
  /\ row \in [Jobs -> Statuses]
  /\ queue \in [Workers -> Seq(Jobs)]
  /\ pc \in [Jobs -> Stages]
  /\ writes \subseteq Updates
  /\ outcome \in [Jobs -> {"none"} \cup Ends]
  /\ faults \in Nat
  /\ crashes \in Nat
  /\ cut \subseteq Jobs
  /\ shaken \subseteq Jobs

Init ==
  /\ up = {}
  /\ owner = [j \in Jobs |-> NoWorker]
  /\ mem = [j \in Jobs |-> "none"]
  /\ row = [j \in Jobs |-> "none"]
  /\ queue = [w \in Workers |-> <<>>]
  /\ pc = [j \in Jobs |-> "none"]
  /\ writes = {}
  /\ outcome = [j \in Jobs |-> "none"]
  /\ faults = 0
  /\ crashes = 0
  /\ cut = {}
  /\ shaken = {}

\* _db: schedule update_ingestion_job and wait for it at this stage.
update(j, stage, status) == [job |-> j, stage |-> stage, status |-> status]

Schedule(j, stage, status) ==
  /\ mem' = [mem EXCEPT ![j] = status]
  /\ pc' = [pc EXCEPT ![j] = stage]
  /\ writes' = writes \cup {update(j, stage, status)}

\* A database call of job j fails.
Shake(j) ==
  /\ faults < MaxFaults
  /\ faults' = faults + 1
  /\ shaken' = shaken \cup {j}
  /\ UNCHANGED crashes

-----------------------------------------------------------------------------
\* The startup of a worker: recover_stale_jobs, whichever jobs the rows are of.
Stale(j) == row[j] \in {"pending", "running"}

\* Mutant: queued jobs are forgotten.
RecoverRunningOnly ==
  /\ row' = [j \in Jobs |-> IF row[j] = "running" THEN "failed" ELSE row[j]]
  /\ cut' = {}

recover_stale_jobs ==
  /\ row' = [j \in Jobs |-> IF Stale(j) THEN "failed" ELSE row[j]]
  /\ cut' = {}

Boot(w) ==
  /\ w \notin up
  /\ up' = up \cup {w}
  /\ recover_stale_jobs
  /\ UNCHANGED <<owner, mem, queue, pc, writes, outcome, counts, shaken>>

\* "Non-fatal -- log and continue startup".
BootUnrecovered(w) ==
  /\ w \notin up
  /\ up' = up \cup {w}
  /\ faults < MaxFaults
  /\ faults' = faults + 1
  /\ shaken' = shaken \cup cut
  /\ UNCHANGED <<owner, mem, row, queue, pc, writes, outcome, crashes, cut>>

\* POST /ingest: _jobs first, then the INSERT, then the pool.
Trigger(w, j) ==
  /\ w \in up
  /\ pc[j] = "none"
  /\ owner' = [owner EXCEPT ![j] = w]
  /\ mem' = [mem EXCEPT ![j] = "pending"]
  /\ pc' = [pc EXCEPT ![j] = "create"]
  /\ UNCHANGED <<process, row, writes, outcome, counts, cut, shaken>>

Create(j) ==
  /\ pc[j] = "create"
  /\ row' = [row EXCEPT ![j] = "pending"]
  /\ queue' = [queue EXCEPT ![owner[j]] = Append(@, j)]
  /\ pc' = [pc EXCEPT ![j] = "queued"]
  /\ UNCHANGED <<up, owner, mem, writes, outcome, counts, cut, shaken>>

CreateFails(j) ==              \* 500; the entry in _jobs stays
  /\ pc[j] = "create"
  /\ pc' = [pc EXCEPT ![j] = "refused"]
  /\ Shake(j)
  /\ UNCHANGED <<process, owner, mem, row, writes, outcome, cut>>

-----------------------------------------------------------------------------
\* _run_ingest, in a thread of the pool.
Busy(w) == {j \in Jobs : owner[j] = w /\ pc[j] \in InThread}

Begin(w) ==
  /\ queue[w] # <<>>
  /\ Cardinality(Busy(w)) < PoolSize
  /\ Schedule(Head(queue[w]), "first", "running")
  /\ queue' = [queue EXCEPT ![w] = Tail(@)]
  /\ UNCHANGED <<up, owner, row, outcome, counts, cut, shaken>>

\* Mutant: the exit code of ingest_main is ignored.
PipelineIgnoresExit(j) ==
  /\ pc[j] = "pipeline"
  /\ \E result \in Ends : outcome' = [outcome EXCEPT ![j] = result]
  /\ Schedule(j, "final", "done")
  /\ UNCHANGED <<process, owner, row, counts, cut, shaken>>

\* Mutant: a status of another vocabulary.
PipelineCompletes(j) ==
  /\ pc[j] = "pipeline"
  /\ \E result \in {"completed", "failed"} :
       /\ outcome' = [outcome EXCEPT ![j] = IF result = "failed" THEN result ELSE "done"]
       /\ Schedule(j, "final", result)
  /\ UNCHANGED <<process, owner, row, counts, cut, shaken>>

Pipeline(j) ==
  /\ pc[j] = "pipeline"
  /\ \E result \in Ends :
       /\ outcome' = [outcome EXCEPT ![j] = result]
       /\ Schedule(j, "final", result)
  /\ UNCHANGED <<process, owner, row, counts, cut, shaken>>

\* Mutant: the exception ends the thread.
PipelineDies(j) ==
  /\ pc[j] = "pipeline"
  /\ outcome' = [outcome EXCEPT ![j] = "failed"]
  /\ mem' = [mem EXCEPT ![j] = "failed"]
  /\ pc' = [pc EXCEPT ![j] = "ended"]
  /\ UNCHANGED <<process, owner, row, writes, counts, cut, shaken>>

PipelineRaises(j) ==
  /\ pc[j] = "pipeline"
  /\ outcome' = [outcome EXCEPT ![j] = "failed"]
  /\ Schedule(j, "except", "failed")
  /\ UNCHANGED <<process, owner, row, counts, cut, shaken>>

After(stage) == IF stage = "first" THEN "pipeline" ELSE "ended"

\* Mutant: a row that has ended is left alone.
LandUnlessEnded(x) ==
  /\ x \in writes
  /\ writes' = writes \ {x}
  /\ row' = [row EXCEPT ![x.job] = IF @ \in Ends THEN @ ELSE x.status]
  /\ pc' = IF pc[x.job] = x.stage THEN [pc EXCEPT ![x.job] = After(x.stage)] ELSE pc
  /\ UNCHANGED <<process, owner, mem, outcome, counts, cut, shaken>>

\* The loop runs an UPDATE.  If the thread still waits for it, the thread goes on.
Land(x) ==
  /\ x \in writes
  /\ writes' = writes \ {x}
  /\ row' = [row EXCEPT ![x.job] = x.status]
  /\ pc' = IF pc[x.job] = x.stage THEN [pc EXCEPT ![x.job] = After(x.stage)] ELSE pc
  /\ UNCHANGED <<process, owner, mem, outcome, counts, cut, shaken>>

\* The UPDATE x raises, or the thread gives up waiting: _run_ingest goes to its
\* except branch, or ends if it is there already.
Raise(j, rest) ==
  \/ /\ pc[j] = "except"
     /\ pc' = [pc EXCEPT ![j] = "ended"]
     /\ writes' = rest
     /\ UNCHANGED mem
  \/ /\ pc[j] \in Waits \ {"except"}
     /\ mem' = [mem EXCEPT ![j] = "failed"]
     /\ pc' = [pc EXCEPT ![j] = "except"]
     /\ writes' = rest \cup {update(j, "except", "failed")}

LandFails(x) ==
  /\ x \in writes
  /\ Shake(x.job)
  /\ IF pc[x.job] = x.stage
     THEN Raise(x.job, writes \ {x})
     ELSE writes' = writes \ {x} /\ UNCHANGED <<mem, pc>>
  /\ UNCHANGED <<process, owner, row, outcome, cut>>

TimesOut(j) ==
  /\ Shake(j)
  /\ Raise(j, writes)
  /\ UNCHANGED <<process, owner, row, outcome, cut>>

-----------------------------------------------------------------------------
\* Mutant: the UPDATEs of a process outlive it.
NoneScheduled(w) == {}

Scheduled(w) == {x \in writes : owner[x.job] = w}

\* The process of worker w ends: killed, or shut down (shutdown_executor does
\* not wait, and the loop is gone before the threads are).
Crash(w) ==
  /\ w \in up
  /\ crashes < MaxCrashes
  /\ crashes' = crashes + 1
  /\ up' = up \ {w}
  /\ queue' = [queue EXCEPT ![w] = <<>>]
  /\ LET mine == {j \in Jobs : owner[j] = w} IN
     /\ mem' = [j \in Jobs |-> IF j \in mine THEN "none" ELSE mem[j]]
     /\ pc' = [j \in Jobs |-> IF j \in mine /\ pc[j] \in Live THEN "dead" ELSE pc[j]]
     /\ writes' = writes \ Scheduled(w)
     /\ cut' = cut \cup {j \in mine : pc[j] \in Live}
  /\ UNCHANGED <<owner, row, outcome, faults, shaken>>

Serve(j) == Create(j) \/ CreateFails(j)
Thread(j) == Pipeline(j) \/ PipelineRaises(j) \/ TimesOut(j)
Loop(j) == \E x \in writes : x.job = j /\ (Land(x) \/ LandFails(x))

Next ==
  \/ \E w \in Workers : \/ Boot(w) \/ BootUnrecovered(w) \/ Begin(w) \/ Crash(w)
                        \/ \E j \in Jobs : Trigger(w, j)
  \/ \E j \in Jobs : Serve(j) \/ Thread(j) \/ Loop(j)

Spec == Init /\ [][Next]_vars

\* The loop runs what is scheduled on it, threads run, and ingest_main returns.
WorkFairness ==
  /\ \A w \in Workers : WF_vars(Begin(w))
  /\ \A j \in Jobs : WF_vars(Serve(j)) /\ WF_vars(Thread(j)) /\ WF_vars(Loop(j))

\* The supervisor process of uvicorn replaces a worker that ended.
Fairness == WorkFairness /\ \A w \in Workers : WF_vars(Boot(w))
-----------------------------------------------------------------------------
Settled(j) == pc[j] = "ended" /\ \A x \in writes : x.job # j

\* A job whose thread is through has in its row what the pipeline came to, even
\* if another worker's startup failed the row in the meantime.  Not so when a
\* database call of the job failed or timed out.  _run_ingest, recover_stale_jobs.
RowIsOutcome ==
  \A j \in Jobs : Settled(j) /\ j \notin shaken => row[j] = outcome[j]

\* Nothing reports a job done, in memory or in its row, that the pipeline did
\* not finish with exit code 0, however late an UPDATE lands.
DoneIsEarned ==
  \A j \in Jobs : mem[j] = "done" \/ row[j] = "done" => outcome[j] = "done"

\* A row that says pending or running has somebody who will change it: a thread
\* (or its request), or the next startup of a worker.  Not so when a database
\* call of the job failed or timed out.  recover_stale_jobs, _run_ingest.
NoRowForgotten ==
  \A j \in Jobs : Stale(j) => pc[j] \in Live \/ j \in cut \/ j \in shaken

\* With one worker the table is the ledger of JobLedger, crashes included: the
\* UPDATEs of a process die with it, so none lands after the recovery.
L == INSTANCE JobLedger WITH status <- row
LedgerOfOneWorker == L!Spec

\* recover_stale_jobs: "clean up jobs that were interrupted by a server restart".
\* A row that fails, other than by an UPDATE of its own thread, is of a job that
\* was interrupted.
RecoveryOfInterruptedOnly ==
  [][\A j \in Jobs : Stale(j) /\ row'[j] = "failed" /\ writes' = writes
                       => pc[j] \notin Live]_vars
=============================================================================
