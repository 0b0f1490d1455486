---------------------------- MODULE IngestServer ----------------------------
(***************************************************************************)
(* The ingestion server (pipelines/ingestion/server.py) and the event      *)
(* handler of the bucket (pipelines/jobs/s3_event_handler.py) around the   *)
(* pipeline.  The server runs main() in a pool of threads and keeps its    *)
(* jobs in a dictionary of its process; the handler starts a command-line  *)
(* run for every event.  A job is the run it starts.                       *)
(*                                                                         *)
(* get_job and list_jobs copy a job outside its lock, so a client may see  *)
(* every single assignment of _run_job: each is an action.                 *)
(***************************************************************************)
EXTENDS IngestPipeline, Sequences

CONSTANTS
  Jobs,        \* runs the server starts: one for each request
  Graphing,    \* values of enable_graph in requests and options, and of ENABLE_GRAPH
  Batches,     \* object_names the crawler hands over
  PoolSize     \* max_workers of _executor (4)

ASSUME IngestServerAssumption ==
  /\ Jobs \subseteq Runs
  /\ Graphing \subseteq BOOLEAN
  /\ Batches \subseteq (SUBSET Documents) \ {{}}
  /\ PoolSize \in Nat \ {0}

VARIABLES
  server,     \* "up", or "draining" once it is told to stop
  job,        \* status and stats of the jobs in _jobs
  waiting,    \* the work queue of _executor,
  request,    \* and the arguments of what waits in it
  \* History variables: no action reads them.
  accepted,   \* jobs whose request was answered with 202
  killed      \* those that ended with their process

serverVars == <<server, job, waiting, request, accepted, killed>>
allVars    == <<vars, serverVars>>

\* What a client is told; an absent job is a 404.
get_job(j) == job[j]

Statuses == {"absent", "pending", "running", "done", "failed"}
Absent   == [status |-> "absent", stats |-> FALSE]
NoRequest == [docs |-> {}, graphing |-> FALSE]

ServerTypeOK ==
  /\ TypeOK
  /\ server \in {"up", "draining"}
  /\ job \in [Jobs -> [status : Statuses, stats : BOOLEAN]]
  /\ waiting \in Seq(Jobs)
  /\ request \in [Jobs -> [docs : SUBSET Documents, graphing : BOOLEAN]]
  /\ {accepted, killed} \subseteq SUBSET Jobs

ServerInit ==
  /\ Init
  /\ server = "up"
  /\ job = [j \in Jobs |-> Absent]
  /\ waiting = <<>>
  /\ request = [j \in Jobs |-> NoRequest]
  /\ accepted = {} /\ killed = {}

\* _create_job and the submission to the pool.
Submit(j, docs, graphing) ==
  /\ server = "up"
  /\ j \notin accepted
  /\ job' = [job EXCEPT ![j].status = "pending"]
  /\ waiting' = Append(waiting, j)
  /\ request' = [request EXCEPT ![j] = [docs |-> docs, graphing |-> graphing]]
  /\ accepted' = accepted \cup {j}
  /\ UNCHANGED <<server, killed>>

\* POST /ingest/trigger, for the prefix of all documents.
trigger_ingestion(j, graphing) ==
  /\ Submit(j, Documents, graphing)
  /\ UNCHANGED vars

\* POST /ingest/upload: the object first, under a new name, then a job for it.
upload_and_ingest(j, d, graphing) ==
  /\ d \in Supported \ bucket
  /\ Submit(j, {d}, graphing)
  /\ Put(d)

-----------------------------------------------------------------------------
\* _run_job, in a thread of the pool.
Busy == {j \in Jobs : job[j].status = "running" \/ (exit[j] # "none" /\ ~job[j].stats)}

Begin ==
  /\ waiting # <<>>
  /\ Cardinality(Busy) < PoolSize
  /\ LET j == Head(waiting) IN
     /\ job' = [job EXCEPT ![j].status = "running"]
     /\ main(j, FALSE, request[j].docs, request[j].graphing)
     /\ request' = [request EXCEPT ![j] = NoRequest]
  /\ waiting' = Tail(waiting)
  /\ UNCHANGED <<server, accepted, killed>>

\* Mutant: the stats before the status.
StatsFirst(j) ==
  /\ job[j].status = "running" /\ exit[j] # "none"
  /\ ~job[j].stats
  /\ job' = [job EXCEPT ![j].stats = TRUE]
  /\ UNCHANGED <<vars, server, waiting, request, accepted, killed>>

\* Mutant: a status of another vocabulary.
SetCompleted(j) ==
  /\ job[j].status = "running" /\ exit[j] # "none"
  /\ job' = [job EXCEPT ![j].status = IF exit[j] = "zero" THEN "completed" ELSE "failed"]
  /\ UNCHANGED <<vars, server, waiting, request, accepted, killed>>

SetStatus(j) ==
  /\ job[j].status = "running" /\ exit[j] # "none"
  /\ job' = [job EXCEPT ![j].status = IF exit[j] = "zero" THEN "done" ELSE "failed"]
  /\ UNCHANGED <<vars, server, waiting, request, accepted, killed>>

SetStats(j) ==
  /\ job[j].status \in {"done", "failed"} /\ ~job[j].stats
  /\ job' = [job EXCEPT ![j].stats = TRUE]
  /\ UNCHANGED <<vars, server, waiting, request, accepted, killed>>

-----------------------------------------------------------------------------
\* The server is told to stop.  shutdown(wait=False) cancels nothing, and the
\* process stays until its threads are through.
Shutdown ==
  /\ server = "up"
  /\ Fail
  /\ server' = "draining"
  /\ UNCHANGED <<stores, locals, past, job, waiting, request, accepted, killed>>

\* The process is gone, and a new one serves.
Gone ==
  /\ server' = "up"
  /\ job' = [j \in Jobs |-> Absent]
  /\ waiting' = <<>>
  /\ request' = [j \in Jobs |-> NoRequest]

\* Mutant: the process does not wait for its threads.
ExitAtOnce ==
  /\ server = "draining"
  /\ Gone
  /\ Die(Jobs)
  /\ UNCHANGED <<faults, accepted, killed>>

Exit ==
  /\ server = "draining"
  /\ waiting = <<>> /\ Busy = {}
  /\ Gone
  /\ UNCHANGED <<vars, accepted, killed>>

Kill ==
  /\ FailIf(server = "up")
  /\ Gone
  /\ killed' = killed \cup {j \in accepted : exit[j] = "none"}
  /\ Die(Jobs)
  /\ UNCHANGED accepted

-----------------------------------------------------------------------------
\* The entrypoint of a job on the Ray cluster: main.py with no options.
submit_ingestion_job(r, d) == main(r, TRUE, {d}, FALSE)

\* A run per record, however often the event comes.
handle_s3_event(r, d) ==
  /\ r \notin Jobs
  /\ d \in bucket
  /\ submit_ingestion_job(r, d)
  /\ UNCHANGED serverVars

\* main.py is started by hand, for all documents.
CommandLine(r, graphing) ==
  /\ r \notin Jobs
  /\ main(r, TRUE, Documents, graphing)
  /\ UNCHANGED serverVars

\* The crawler hands over documents it has stored.
_run_ingest_batch(r, docs, graphing) ==
  /\ r \notin Jobs
  /\ docs \subseteq bucket
  /\ ingest_specific_files(r, docs, graphing)
  /\ UNCHANGED serverVars

Server ==
  \/ \E j \in Jobs, graphing \in Graphing : trigger_ingestion(j, graphing)
  \/ \E j \in Jobs, graphing \in Graphing, d \in Documents : upload_and_ingest(j, d, graphing)
  \/ Begin \/ Shutdown \/ Exit \/ Kill
  \/ \E j \in Jobs : SetStatus(j) \/ SetStats(j)

Starts ==
  \E r \in Runs : \/ \E d \in Documents : handle_s3_event(r, d)
                  \/ \E graphing \in Graphing : CommandLine(r, graphing)
                  \/ \E docs \in Batches, graphing \in Graphing : _run_ingest_batch(r, docs, graphing)

ServerNext ==
  \/ Server \/ Starts
  \/ ((\E r \in Runs : Work(r)) \/ Settle) /\ UNCHANGED serverVars

\* Clients of the stores have timeouts and the attempts are counted; threads
\* run, and the process ends when they have.
ServerSpec ==
  /\ ServerInit /\ [][ServerNext]_allVars
  /\ \A r \in Runs : WF_run(UNCHANGED serverVars /\ Stage(r))
  /\ WF_serverVars(Begin \/ Exit \/ \E j \in Jobs : SetStatus(j) \/ SetStats(j))
-----------------------------------------------------------------------------
\* A job reports done or failed only once its run has returned, and in accord
\* with the exit code; stats are there only for a job that reports its end.
\* The reverse does not hold: a job may be done and have no stats yet, although
\* get_job promises "(when complete) final stats".  _run_job, get_job.
JobTellsExit ==
  \A j \in Jobs :
    /\ get_job(j).status = "done" => exit[j] = "zero"
    /\ get_job(j).status = "failed" => exit[j] = "one"
    /\ get_job(j).stats => get_job(j).status \in {"done", "failed"}

\* Whatever the stores answer, a run ends: the attempts for each sub-batch are
\* bounded, and no stage waits for another run.  main, ingest_specific_files.
EveryRunEnds ==
  <>[](\A r \in Runs : run[r].stage \in {"idle", "over", "dead"})

\* A job that was accepted is run to its end, even when the server is told to
\* stop ("draining background jobs") before its turn, unless it is killed.
AcceptedJobsEnd ==
  <>[](\A j \in accepted \ killed : exit[j] # "none")
=============================================================================
