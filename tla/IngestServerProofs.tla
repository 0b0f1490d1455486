-------------------------- MODULE IngestServerProofs --------------------------
(***************************************************************************)
(* The ingestion server, the event handler, the command line and the       *)
(* crawler use the pipeline through its two entry points only: what        *)
(* IngestPipelineProofs proves of it holds in IngestServer.  And what the  *)
(* server tells of a job agrees with the pipeline.                         *)
(***************************************************************************)
EXTENDS IngestServer, IngestPipelineProofs, SequenceTheorems

Requests == [docs : SUBSET Documents, graphing : BOOLEAN]
JobState == [status : Statuses, stats : BOOLEAN]

\* A job is known from its request on, and waits at most until its run begins.
JobInv ==
  /\ server \in {"up", "draining"}
  /\ job \in [Jobs -> JobState]
  /\ accepted \subseteq Jobs /\ killed \subseteq Jobs
  /\ waiting \in Seq(accepted)
  /\ request \in [Jobs -> Requests]
  /\ \A j \in Jobs : job[j].status # "absent" => j \in accepted
  /\ JobTellsExit

ServerInv == IInv /\ JobInv

-----------------------------------------------------------------------------
\* What waits.
LEMMA QueueSteps ==
  ASSUME NEW S, NEW s \in Seq(S)
  PROVE  /\ \A T : S \subseteq T => s \in Seq(T)
         /\ \A x \in S : Append(s, x) \in Seq(S)
         /\ s # <<>> => Head(s) \in S /\ Tail(s) \in Seq(S)
<1>1. ASSUME NEW T, S \subseteq T
      PROVE  s \in Seq(T)
  BY <1>1, SeqDef
<1> QED
  BY <1>1

LEMMA EmptyQueue == ASSUME NEW S PROVE <<>> \in Seq(S)
OBVIOUS

\* An exit code stays.
LEMMA ExitStays ==
  ASSUME IInv, [Next]_vars, NEW r \in Runs, exit[r] # "none"
  PROVE  exit'[r] = exit[r]
<1>1. run[r].stage = "over"
  BY RunTypes DEF RunConsistent, In
<1>2. CASE exit' = exit
  BY <1>2
<1>3. ASSUME NEW q \in Runs, Unreachable(q) \/ Return(q)
      PROVE  exit'[r] = exit[r]
  <2>1. run[q].stage # "over"
    BY <1>3 DEF Unreachable, Return, Connects, In
  <2> QED
    BY <1>1, <1>3, <2>1 DEF Unreachable, Return, IInv, TypeOK
<1>4. ASSUME NEW q \in Runs, Work(q), ~Unreachable(q), ~Return(q)
      PROVE  exit' = exit
  BY <1>4 DEF Work, Stage, Signal, List, Download, _download_specific, Fetch, Parse, Embed,
     Extract, Join, TakeVectors, Upsert, UpsertFails, VectorsWritten, TakeGraph, OpenMerge,
     Merge, MergeFails, GraphWritten
<1>5. \/ exit' = exit
      \/ \E q \in Runs : Work(q)
  BY DEF Next, main, ingest_specific_files, Start, Die, Settle, Back, Apply, Discard, Put, vars, locals
<1> QED
  BY <1>2, <1>3, <1>4, <1>5

-----------------------------------------------------------------------------
LEMMA ServerStep ==
  ASSUME ServerInv, [ServerNext]_allVars
  PROVE  [Next]_vars
<1> USE DEF ServerInv
<1>1. ASSUME NEW j \in Jobs, NEW graphing \in Graphing, NEW d \in Documents,
             upload_and_ingest(j, d, graphing)
      PROVE  Next
  BY <1>1 DEF upload_and_ingest, Next
<1>2. ASSUME NEW j \in Jobs, NEW graphing \in Graphing, trigger_ingestion(j, graphing)
      PROVE  UNCHANGED vars
  BY <1>2 DEF trigger_ingestion
<1>3. CASE Begin
  <2>1. Head(waiting) \in Jobs
    BY <1>3, QueueSteps DEF Begin, JobInv
  <2>2. PICK j \in Jobs : main(j, FALSE, request[j].docs, request[j].graphing)
    BY <1>3, <2>1 DEF Begin
  <2>3. request[j].docs \in SUBSET Documents /\ request[j].graphing \in BOOLEAN /\ j \in Runs
    BY IngestServerAssumption DEF JobInv, Requests
  <2> QED
    BY <2>2, <2>3 DEF Next
<1>4. CASE Shutdown
  <2>1. run = [r \in Runs |-> run[r]]
    BY DEF IInv, TypeOK
  <2>2. Die({}) /\ Fail
    BY <1>4, <2>1 DEF Shutdown, Die, stores, locals
  <2> QED
    BY <2>2 DEF Next
<1>5. CASE Exit \/ \E j \in Jobs : SetStatus(j) \/ SetStats(j)
  BY <1>5 DEF Exit, SetStatus, SetStats
<1>6. CASE Kill
  BY <1>6, IngestServerAssumption DEF Kill, FailIf, Next
<1>7. CASE Starts
  BY <1>7, IngestServerAssumption DEF Starts, handle_s3_event, submit_ingestion_job, CommandLine,
     _run_ingest_batch, Next
<1>8. CASE (\E r \in Runs : Work(r)) \/ Settle
  BY <1>8 DEF Next
<1> QED
  BY <1>1, <1>2, <1>3, <1>4, <1>5, <1>6, <1>7, <1>8 DEF ServerNext, Server, allVars

\* What the steps of the server do to its jobs.
LEMMA JobStep ==
  ASSUME ServerInv, [ServerNext]_allVars
  PROVE  JobInv'
<1> USE DEF ServerInv
<1>1. [Next]_vars
  BY ServerStep
<1>2. \A j \in Jobs : exit[j] # "none" => exit'[j] = exit[j]
  BY <1>1, ExitStays, IngestServerAssumption
<1>3. ASSUME NEW j \in Jobs, NEW docs \in SUBSET Documents, NEW graphing \in BOOLEAN,
             Submit(j, docs, graphing), UNCHANGED exit
      PROVE  JobInv'
  <2>1. job[j].status = "absent" /\ ~job[j].stats
    BY <1>3 DEF Submit, JobInv, JobTellsExit, get_job
  <2>2. waiting' \in Seq(accepted')
    <3>1. waiting \in Seq(accepted') /\ j \in accepted'
      BY <1>3, QueueSteps DEF Submit, JobInv
    <3> QED
      BY <1>3, <3>1, QueueSteps DEF Submit
  <2>3. job' \in [Jobs -> JobState]
    BY <1>3 DEF Submit, JobInv, JobState, Statuses
  <2>4. request' \in [Jobs -> Requests]
    BY <1>3 DEF Submit, JobInv, Requests
  <2>5. \A i \in Jobs \ {j} : job'[i] = job[i]
    BY <1>3 DEF Submit, JobInv
  <2>6. job'[j].status = "pending" /\ ~job'[j].stats
    BY <1>3, <2>1 DEF Submit, JobInv, JobState
  <2>7. JobTellsExit'
    BY <1>3, <2>5, <2>6 DEF JobInv, JobTellsExit, get_job
  <2> QED
    BY <1>3, <2>2, <2>3, <2>4, <2>5, <2>6, <2>7 DEF Submit, JobInv
<1>4. CASE Begin
  <2> DEFINE j == Head(waiting)
  <2>1. /\ waiting # <<>> /\ job' = [job EXCEPT ![j].status = "running"]
        /\ In(j, "idle") /\ UNCHANGED exit
        /\ request' = [request EXCEPT ![j] = NoRequest] /\ waiting' = Tail(waiting)
        /\ UNCHANGED <<server, accepted, killed>>
    BY <1>4 DEF Begin, main, Start
  <2>2. j \in accepted /\ waiting' \in Seq(accepted) /\ j \in Jobs
    BY <2>1, QueueSteps DEF JobInv
  <2> HIDE DEF j
  <2>3. exit[j] = "none"
    BY <2>1, <2>2, RunTypes, IngestServerAssumption DEF RunConsistent, In
  <2>4. ~job[j].stats
    BY <2>2, <2>3 DEF JobInv, JobTellsExit, get_job, JobState
  <2>5. job' \in [Jobs -> JobState] /\ request' \in [Jobs -> Requests]
    BY <2>1, <2>2 DEF JobInv, JobState, Statuses, Requests, NoRequest
  <2>6. job'[j].status = "running" /\ ~job'[j].stats /\ \A i \in Jobs \ {j} : job'[i] = job[i]
    BY <2>1, <2>2, <2>4 DEF JobInv, JobState
  <2>7. JobTellsExit'
    BY <2>1, <2>6 DEF JobInv, JobTellsExit, get_job
  <2> QED
    BY <2>1, <2>2, <2>5, <2>6, <2>7 DEF JobInv
<1>5. ASSUME NEW j \in Jobs, SetStatus(j) \/ SetStats(j)
      PROVE  JobInv'
  <2>1. /\ UNCHANGED exit /\ UNCHANGED <<server, waiting, request, accepted, killed>>
        /\ job[j].status # "absent"
    BY <1>5 DEF SetStatus, SetStats, vars, locals
  <2>2. CASE SetStatus(j)
    <3>1. /\ job' \in [Jobs -> JobState] /\ \A i \in Jobs \ {j} : job'[i] = job[i]
          /\ job'[j].status = IF exit[j] = "zero" THEN "done" ELSE "failed"
      BY <2>2 DEF SetStatus, JobInv, JobState, Statuses
    <3>2. exit[j] \in {"zero", "one"}
      BY <2>2, IngestServerAssumption DEF SetStatus, IInv, TypeOK
    <3> QED
      BY <2>1, <3>1, <3>2 DEF JobInv, JobTellsExit, get_job
  <2>3. CASE SetStats(j)
    <3>1. /\ job' \in [Jobs -> JobState] /\ \A i \in Jobs \ {j} : job'[i] = job[i]
          /\ job'[j].status = job[j].status /\ job[j].status \in {"done", "failed"}
      BY <2>3 DEF SetStats, JobInv, JobState
    <3> QED
      BY <2>1, <3>1 DEF JobInv, JobTellsExit, get_job
  <2> QED
    BY <1>5, <2>2, <2>3
<1>6. CASE Exit \/ Kill
  <2>1. Gone /\ accepted' = accepted /\ killed' \subseteq Jobs
    BY <1>6 DEF Exit, Kill, JobInv
  <2>2. job' \in [Jobs -> JobState] /\ \A i \in Jobs : job'[i].status = "absent" /\ ~job'[i].stats
    BY <2>1 DEF Gone, Absent, JobState, Statuses
  <2>3. request' \in [Jobs -> Requests] /\ waiting' \in Seq(accepted) /\ server' = "up"
    BY <2>1, EmptyQueue DEF Gone, NoRequest, Requests
  <2> QED
    BY <2>1, <2>2, <2>3 DEF JobInv, JobTellsExit, get_job
<1>7. CASE UNCHANGED serverVars \/ Shutdown
  <2>1. server' \in {"up", "draining"} /\ UNCHANGED <<job, waiting, request, accepted, killed>>
    BY <1>7 DEF serverVars, Shutdown, JobInv
  <2> QED
    BY <1>2, <2>1 DEF JobInv, JobTellsExit, get_job
<1>8. ASSUME NEW j \in Jobs, NEW graphing \in Graphing, trigger_ingestion(j, graphing)
      PROVE  JobInv'
  BY <1>3, <1>8, IngestServerAssumption DEF trigger_ingestion, vars, locals
<1>9. ASSUME NEW j \in Jobs, NEW graphing \in Graphing, NEW d \in Documents,
             upload_and_ingest(j, d, graphing)
      PROVE  JobInv'
  BY <1>3, <1>9, IngestServerAssumption DEF upload_and_ingest, Put, locals
<1> QED
  BY <1>4, <1>5, <1>6, <1>7, <1>8, <1>9
     DEF ServerNext, Server, Starts, handle_s3_event, CommandLine, _run_ingest_batch, allVars

LEMMA ServerStart == ServerInit => ServerInv
<1> SUFFICES ASSUME ServerInit PROVE ServerInv
  OBVIOUS
<1>1. IInv
  BY InitConsistent DEF ServerInit
<1>2. waiting \in Seq(accepted)
  BY EmptyQueue DEF ServerInit
<1>3. /\ job \in [Jobs -> JobState] /\ request \in [Jobs -> Requests]
      /\ \A j \in Jobs : job[j].status = "absent" /\ ~job[j].stats
  BY DEF ServerInit, Absent, NoRequest, JobState, Statuses, Requests
<1> QED
  BY <1>1, <1>2, <1>3 DEF ServerInv, JobInv, JobTellsExit, get_job, ServerInit

(* The pipeline's invariant and the jobs' in every reachable state: a job  *)
(* that was heard of was accepted, and what waits too.  _create_job.       *)
THEOREM ServerInvariant == ServerSpec => []ServerInv
<1>1. ServerInv /\ [ServerNext]_allVars => ServerInv'
  BY ServerStep, JobStep, StepConsistent DEF ServerInv
<1> QED
  BY <1>1, ServerStart, PTL DEF ServerSpec

(* Type correctness of the server with the pipeline.                       *)
THEOREM ServerTypeCorrect == ServerSpec => []ServerTypeOK
<1>1. ServerInv => ServerTypeOK
  BY QueueSteps DEF ServerInv, IInv, JobInv, ServerTypeOK, JobState, Requests
<1> QED
  BY <1>1, ServerInvariant, PTL

(* With the server, the events, the command line and the crawler starting  *)
(* runs side by side, the pipeline is still the pipeline.                  *)
THEOREM ServerUsesPipeline == ServerSpec => Spec
<1>1. ServerInit => Init
  BY DEF ServerInit
<1>2. ServerInv /\ [ServerNext]_allVars => [Next]_vars
  BY ServerStep
<1> QED
  BY <1>1, <1>2, ServerInvariant, PTL DEF ServerSpec, Spec

(* What clients are told of a job agrees with the exit code of its run,    *)
(* and stats come with an end.  _run_job, get_job.                         *)
THEOREM JobsTell == ServerSpec => []JobTellsExit
<1>1. ServerInv => JobTellsExit
  BY DEF ServerInv, JobInv
<1> QED
  BY <1>1, ServerInvariant, PTL

(* The promise of Ingestion, the properties of the stores and of the       *)
(* statistics, that signals are heeded, and that no run goes on for ever,  *)
(* with all who start runs.                                                *)
(* _run_job, handle_s3_event, _run_ingest_batch.                           *)
THEOREM ServerKeepsPromise ==
  ServerSpec => /\ KeepsPromise
                /\ [](StoredTwiceByCallsOnly /\ EntityTwiceByOverlapOnly /\ MergedIsWhole)
                /\ [](Accounted /\ CountedIsTaken)
                /\ NothingBegunAfterSignal
                /\ RunsAdvance
BY ServerUsesPipeline, PipelineKeepsPromise, StoredTwice, EntityTwice, Merged, StatisticsAddUp,
   IndexedIsTaken, SignalIsHeeded, RunsOnlyAdvance, PTL
=============================================================================
