------------------------------- MODULE JobPage -------------------------------
(***************************************************************************)
(* What a user sees of ingestion jobs: the upload page, which polls the    *)
(* jobs of its files one by one (useIngestionJobs), and the jobs page,     *)
(* which polls the list (useAllJobs).  Both are in                         *)
(* user_interface/src/hooks/useIngestionJobs.ts; a tab shows one of them.  *)
(*                                                                         *)
(* The interval of a page does not wait for the answer of the poll before, *)
(* so answers overtake each other.  The upload page decides which jobs to  *)
(* poll when its list of jobs changes, from what it shows then.            *)
(***************************************************************************)
EXTENDS IngestJobs

CONSTANT MaxFlying   \* bound: answers under way about a job

ASSUME JobPageAssumption == MaxFlying \in Nat \ {0}

VARIABLES
  page,      \* the page of the tab: "upload" or "jobs"
  place,     \* of a job on the upload page: what the effect of its render does with it
  shown,     \* the status shown for a job; "none": no data
  flying,    \* answers under way, each a function from some jobs to a status
  overtaken  \* history: jobs the page stopped polling with an answer under way

tab   == <<page, place, shown, flying, overtaken>>
pvars == <<vars, tab>>

Places == {"unlisted", "polled", "kept", "removed"}

Answers == UNION {[J -> Statuses \ {"none"}] : J \in SUBSET Jobs}

PageTypeOK ==
  /\ TypeOK
  /\ page \in {"upload", "jobs"}
  /\ place \in [Jobs -> Places]
  /\ shown \in [Jobs -> Statuses]
  /\ flying \subseteq Answers
  /\ overtaken \subseteq Jobs

PageInit ==
  /\ Init
  /\ page \in {"upload", "jobs"}
  /\ place = [j \in Jobs |-> "unlisted"]
  /\ shown = [j \in Jobs |-> "none"]
  /\ flying = {}
  /\ overtaken = {}

About(j) == {a \in flying : j \in DOMAIN a}

-----------------------------------------------------------------------------
\* The upload page.
Listed == {j \in Jobs : place[j] \in {"polled", "kept"}}

\* The jobs of the page are now J, and the effect runs again: its polls leave
\* out the jobs that have ended in the jobs of this render, however they
\* change later.
Render(J) ==
  /\ place' = [j \in Jobs |->
                 IF j \notin J THEN IF place[j] = "unlisted" THEN "unlisted" ELSE "removed"
                 ELSE IF shown[j] \in Ends THEN "kept" ELSE "polled"]
  /\ overtaken' = overtaken \cup {j \in J : shown[j] \in Ends /\ About(j) # {}}

\* The answer of POST /ingest reaches uploadFile.
Uploaded(j) ==
  /\ page = "upload"
  /\ place[j] = "unlisted"
  /\ row[j] # "none"
  /\ Render(Listed \cup {j})
  /\ UNCHANGED <<vars, page, shown, flying>>

\* What is kept of a file that is no longer shown is left out.
removeFile(j) ==
  /\ page = "upload"
  /\ j \in Listed
  /\ Render(Listed \ {j})
  /\ shown' = [shown EXCEPT ![j] = "none"]
  /\ flying' = flying \ About(j)
  /\ UNCHANGED <<vars, page>>

\* Mutant: only the dictionary of the worker is asked.
StatusInMemory(w, j) == IF owner[j] = w THEN mem[j] ELSE "none"

\* The worker that took a job answers from its dictionary, the others, and it
\* itself after a restart, from the table; "none" is a 404.
get_job_status(w, j) == IF owner[j] = w /\ mem[j] # "none" THEN mem[j] ELSE row[j]

\* A poll that fails is ignored: it is a poll that was not made.
poll(j) ==
  /\ page = "upload"
  /\ place[j] = "polled"
  /\ Cardinality(About(j)) < MaxFlying
  /\ \E w \in up :
       LET status == get_job_status(w, j)
       IN  status # "none" /\ flying' = flying \cup {[k \in {j} |-> status]}
  /\ UNCHANGED <<vars, page, place, shown, overtaken>>

\* setJobs((prev) => ({ ...prev, [id]: data }))
PollAnswered(a) ==
  /\ page = "upload"
  /\ a \in flying
  /\ flying' = flying \ {a}
  /\ shown' = [j \in Jobs |-> IF j \in DOMAIN a THEN a[j] ELSE shown[j]]
  /\ UNCHANGED <<vars, page, place, overtaken>>

-----------------------------------------------------------------------------
\* The jobs page.
list_jobs == [j \in {k \in Jobs : row[k] # "none"} |-> row[j]]

Fetch ==
  /\ page = "jobs"
  /\ up # {}
  /\ Cardinality(flying) < MaxFlying
  /\ flying' = flying \cup {list_jobs}
  /\ UNCHANGED <<vars, page, place, shown, overtaken>>

\* Mutant: the interval ends when a job has.
AllActive == \A j \in Jobs : shown[j] \notin Ends

hasActive == \E j \in Jobs : shown[j] \in {"pending", "running"}

\* The interval polls while a job that is shown is active.
Interval == hasActive /\ Fetch

\* setJobs(data)
ListAnswered(a) ==
  /\ page = "jobs"
  /\ a \in flying
  /\ flying' = flying \ {a}
  /\ shown' = [j \in Jobs |-> IF j \in DOMAIN a THEN a[j] ELSE "none"]
  /\ UNCHANGED <<vars, page, place, overtaken>>

-----------------------------------------------------------------------------
Tab ==
  \/ \E j \in Jobs : Uploaded(j) \/ removeFile(j) \/ poll(j)
  \/ Fetch           \* when the page opens, by "Refresh", and by the interval
  \/ \E a \in flying : PollAnswered(a) \/ ListAnswered(a)

PageNext == (Next /\ UNCHANGED tab) \/ Tab

\* The interval goes on, and an answer comes in or the poll fails.
PageSpec ==
  /\ PageInit /\ [][PageNext]_pvars
  /\ Fairness
  /\ \A j \in Jobs : /\ WF_pvars(poll(j))
                     /\ WF_pvars(\E a \in About(j) : PollAnswered(a))
  /\ WF_pvars(Interval)
  /\ WF_pvars(\E a \in flying : ListAnswered(a))

-----------------------------------------------------------------------------
\* What the pages show comes to rest with the jobs, whatever order answers come
\* in and whatever a restart forgets: a job the upload page polls shows what is
\* in the table, a job it has stopped polling shows an end, and no job of the
\* list stays active.  Not so for a job the upload page stopped polling while an
\* answer about it was under way: that answer may be the last.
JobsShownSettle ==
  <>[](\A j \in Jobs :
         /\ place[j] = "polled" => shown[j] = row[j]
         /\ place[j] = "kept" => shown[j] \in Ends \/ j \in overtaken
         /\ page = "jobs" => shown[j] \notin {"pending", "running"})
=============================================================================
