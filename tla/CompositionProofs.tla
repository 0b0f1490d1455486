-------------------------- MODULE CompositionProofs --------------------------
(***************************************************************************)
(* IngestJobs behind the startup of the API (ApiStartup), and under the    *)
(* eyes of a tab that polls (JobPage), takes only steps of its own: what   *)
(* IngestJobsProofs proves of it holds in both compositions.               *)
(* What a page shows is as true as the records its polls have read.        *)
(***************************************************************************)
EXTENDS ApiStartup, JobPage, IngestJobsProofs

LEMMA StartupStep ==
  ASSUME [StartupNext]_svars
  PROVE  [Next]_vars
<1>1. CASE \E w \in Workers : Starts(w) /\ UNCHANGED vars
  BY <1>1
<1>2. CASE \E w \in Workers : StartFails(w)
  BY <1>2 DEF StartFails
<1>3. CASE \E w \in Workers : Serves(w) \/ Dies(w)
  BY <1>3 DEF Serves, Dies, Next
<1>4. CASE \E a \in RoleHolders : change_user_role(a)
  BY <1>4 DEF change_user_role
<1>5. CASE Work
  BY <1>5 DEF Work, Next
<1>6. CASE UNCHANGED svars
  BY <1>6 DEF svars
<1> QED
  BY <1>1, <1>2, <1>3, <1>4, <1>5, <1>6 DEF StartupNext

LEMMA TabStep ==
  ASSUME [PageNext]_pvars
  PROVE  [Next]_vars
<1>1. CASE Tab
  BY <1>1 DEF Tab, Uploaded, removeFile, poll, Fetch, PollAnswered, ListAnswered
<1> QED
  BY <1>1 DEF PageNext, pvars

(* Every startup, whatever fails in it and whoever loses or gets the role  *)
(* of administrator meanwhile, leaves the jobs' promises alone: lifespan,  *)
(* recover_stale_jobs and _run_ingest together.                            *)
THEOREM StartupKeepsPromises ==
  ApiSpec => [](RowIsOutcome /\ DoneIsEarned /\ NoRowForgotten)
<1>1. StartupInit => Init
  BY DEF StartupInit
<1>2. [StartupNext]_svars => [Next]_vars
  BY StartupStep
<1>3. ApiSpec => Spec
  BY <1>1, <1>2, PTL DEF ApiSpec, Spec
<1> QED
  BY <1>3, RowsAreOutcomes, DoneEarned, RowsRemembered, PTL

(* Under the eyes of a tab, with one worker and no failing database call,  *)
(* the table stays the ledger of JobLedger: what a page polls never goes   *)
(* back.  list_jobs, get_job_status, update_ingestion_job.                 *)
THEOREM PageSeesLedger ==
  ASSUME MaxFaults = 0, OneWorker
  PROVE  PageSpec => LedgerOfOneWorker
<1>1. PageInit => Init
  BY DEF PageInit
<1>2. [PageNext]_pvars => [Next]_vars
  BY TabStep
<1>3. PageSpec => Spec
  BY <1>1, <1>2, PTL DEF PageSpec, Spec
<1> QED
  BY <1>3, Ledger, PTL

-----------------------------------------------------------------------------
\* A tab tells only of jobs done that were, whatever it shows and whatever is
\* under way to it.
ShownIsEarned ==
  /\ \A j \in Jobs : shown[j] = "done" => outcome[j] = "done"
  /\ \A a \in flying : \A j \in DOMAIN a : a[j] = "done" => outcome[j] = "done"

TabInv == PageTypeOK /\ ShownIsEarned

\* What the pipeline came to does not change.
LEMMA OutcomeStays ==
  ASSUME IInv, [Next]_vars, NEW j \in Jobs, outcome[j] = "done"
  PROVE  outcome'[j] = "done"
<1>1. outcome \in [Jobs -> {"none"} \cup Ends] /\ pc[j] # "pipeline"
  BY DEF IInv, TypeOK, JobConsistent, NotRunYet
<1>2. ASSUME NEW k \in Jobs, Pipeline(k) \/ PipelineRaises(k)
      PROVE  outcome'[j] = outcome[j]
  BY <1>1, <1>2 DEF Pipeline, PipelineRaises
<1>3. CASE UNCHANGED outcome
  BY <1>3
<1> QED
  BY <1>2, <1>3 DEF Next, Boot, BootUnrecovered, Begin, Crash, Trigger, Serve, Create, CreateFails,
     Thread, TimesOut, Loop, Land, LandFails, vars

\* What an endpoint answers is a status, and tells of a job done only if it was.
LEMMA AnswersEarned ==
  ASSUME IInv, NEW j \in Jobs
  PROVE  /\ \A w \in Workers : /\ get_job_status(w, j) \in Statuses
                               /\ get_job_status(w, j) = "done" => outcome[j] = "done"
         /\ row[j] \in Statuses
         /\ row[j] = "done" => outcome[j] = "done"
BY DEF IInv, TypeOK, DoneIsEarned, get_job_status

\* The answers under way, with one more.
LEMMA AnswerComes ==
  ASSUME TabInv, TypeOK', UNCHANGED vars, NEW J \in SUBSET Jobs, NEW a,
         a \in [J -> Statuses \ {"none"}],
         \A j \in J : a[j] = "done" => outcome[j] = "done",
         flying' = flying \cup {a}, UNCHANGED <<page, place, shown, overtaken>>
  PROVE  TabInv'
<1>1. a \in Answers
  BY DEF Answers
<1>2. PageTypeOK'
  BY <1>1 DEF TabInv, PageTypeOK
<1>3. ShownIsEarned'
  BY DEF TabInv, ShownIsEarned, vars
<1> QED
  BY <1>2, <1>3 DEF TabInv

LEMMA TabKeeps ==
  ASSUME IInv, TabInv, IInv', [PageNext]_pvars
  PROVE  TabInv'
<1> USE DEF TabInv
<1>0. TypeOK'
  BY DEF IInv
<1>1. ASSUME UNCHANGED tab, [Next]_vars
      PROVE  TabInv'
  <2>1. PageTypeOK'
    BY <1>1 DEF PageTypeOK, tab, IInv
  <2>2. \A j \in Jobs : outcome[j] = "done" => outcome'[j] = "done"
    BY <1>1, OutcomeStays
  <2>3. \A a \in flying : DOMAIN a \subseteq Jobs
    BY DEF PageTypeOK, Answers
  <2> QED
    BY <1>1, <2>1, <2>2, <2>3 DEF ShownIsEarned, tab
<1>2. ASSUME NEW j \in Jobs, Uploaded(j) \/ removeFile(j)
      PROVE  TabInv'
  <2>1. UNCHANGED <<vars, page>> /\ flying' \subseteq flying
        /\ shown' \in {shown, [shown EXCEPT ![j] = "none"]}
    BY <1>2 DEF Uploaded, removeFile
  <2>2. place' \in [Jobs -> Places] /\ overtaken' \subseteq Jobs
    <3>1. PICK J \in SUBSET Jobs : Render(J)
      BY <1>2 DEF Uploaded, removeFile, Listed
    <3> QED
      BY <3>1 DEF PageTypeOK, Render, Places
  <2>3. shown' \in [Jobs -> Statuses] /\ \A k \in Jobs : shown'[k] \in {shown[k], "none"}
    BY <2>1 DEF PageTypeOK, Statuses
  <2>4. PageTypeOK'
    BY <1>0, <2>1, <2>2, <2>3 DEF PageTypeOK
  <2>5. ShownIsEarned'
    BY <2>1, <2>3 DEF ShownIsEarned, vars
  <2> QED
    BY <2>4, <2>5
<1>3. ASSUME NEW j \in Jobs, poll(j)
      PROVE  TabInv'
  <2>1. PICK w \in up : LET status == get_job_status(w, j)
                        IN  status # "none" /\ flying' = flying \cup {[k \in {j} |-> status]}
    BY <1>3 DEF poll
  <2> DEFINE a == [k \in {j} |-> get_job_status(w, j)]
  <2>2. w \in Workers
    BY DEF IInv, TypeOK
  <2>3. a \in [{j} -> Statuses \ {"none"}] /\ \A k \in {j} : a[k] = "done" => outcome[k] = "done"
    BY <2>1, <2>2, AnswersEarned
  <2>4. flying' = flying \cup {a}
    BY <2>1
  <2>5. UNCHANGED vars /\ UNCHANGED <<page, place, shown, overtaken>> /\ {j} \in SUBSET Jobs
    BY <1>3 DEF poll
  <2> HIDE DEF a
  <2> QED
    BY <1>0, <2>3, <2>4, <2>5, AnswerComes
<1>4. ASSUME Fetch
      PROVE  TabInv'
  <2> DEFINE J == {k \in Jobs : row[k] # "none"}
  <2>1. /\ list_jobs \in [J -> Statuses \ {"none"}]
        /\ \A j \in J : list_jobs[j] = "done" => outcome[j] = "done"
    BY AnswersEarned DEF list_jobs
  <2>2. /\ UNCHANGED vars /\ UNCHANGED <<page, place, shown, overtaken>> /\ J \in SUBSET Jobs
        /\ flying' = flying \cup {list_jobs}
    BY <1>4 DEF Fetch
  <2> HIDE DEF J
  <2> QED
    BY <1>0, <2>1, <2>2, AnswerComes
<1>5. ASSUME NEW a \in flying, PollAnswered(a) \/ ListAnswered(a)
      PROVE  TabInv'
  <2>1. /\ \A j \in DOMAIN a : j \in Jobs /\ a[j] \in Statuses
        /\ \A j \in DOMAIN a : a[j] = "done" => outcome[j] = "done"
    BY DEF PageTypeOK, Answers, ShownIsEarned
  <2>2. /\ UNCHANGED <<vars, page, place, overtaken>> /\ flying' \subseteq flying
        /\ \/ shown' = [j \in Jobs |-> IF j \in DOMAIN a THEN a[j] ELSE shown[j]]
           \/ shown' = [j \in Jobs |-> IF j \in DOMAIN a THEN a[j] ELSE "none"]
    BY <1>5 DEF PollAnswered, ListAnswered
  <2>3. shown' \in [Jobs -> Statuses]
    BY <2>1, <2>2 DEF PageTypeOK, Statuses
  <2>4. \A j \in Jobs : shown'[j] = "done" => outcome[j] = "done"
    BY <2>1, <2>2 DEF ShownIsEarned
  <2> QED
    BY <1>0, <2>2, <2>3, <2>4 DEF PageTypeOK, ShownIsEarned, vars
<1> QED
  BY <1>1, <1>2, <1>3, <1>4, <1>5 DEF PageNext, Tab, pvars

LEMMA TabInit ==
  ASSUME PageInit
  PROVE  TabInv
<1>1. TypeOK
  BY InitIInv DEF PageInit, IInv
<1> QED
  BY <1>1 DEF TabInv, PageInit, PageTypeOK, ShownIsEarned, Places, Statuses, Answers

LEMMA TabInvariant == PageSpec => []TabInv
<1>1. PageInit => Init
  BY DEF PageInit
<1>2. [PageNext]_pvars => [Next]_vars
  BY TabStep
<1>3. PageSpec => []IInv
  BY <1>1, <1>2, InductiveInvariant, PTL DEF PageSpec, Spec
<1>4. IInv /\ TabInv /\ IInv' /\ [PageNext]_pvars => TabInv'
  BY TabKeeps
<1> QED
  BY <1>3, <1>4, TabInit, PTL DEF PageSpec

(* Every variable of the jobs and of the tab keeps to its type.            *)
THEOREM PageTypeCorrect == PageSpec => []PageTypeOK
BY TabInvariant, PTL DEF TabInv

(* No page shows a job as done that the pipeline did not finish with exit  *)
(* code 0, and no such answer is under way, whatever order the answers     *)
(* come in, whichever worker they come from, and whatever fails or         *)
(* restarts.  useIngestionJobs, useAllJobs, get_job_status, list_jobs.     *)
THEOREM PageShowsEarned == PageSpec => []ShownIsEarned
BY TabInvariant, PTL DEF TabInv
=============================================================================
