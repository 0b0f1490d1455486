------------------------------ MODULE JobLedger ------------------------------
(***************************************************************************)
(* What the ingestion_jobs table promises its readers: a job is pending,   *)
(* then running, then done or failed, and what is done or failed stays so. *)
(* Jobs that a restart interrupts fail, all of them together.  IngestJobs  *)
(* implements it when one worker process serves the API.                   *)
(***************************************************************************)
CONSTANT Jobs

VARIABLE status

Init == status = [j \in Jobs |-> "none"]

Move(j, from, to) == status[j] = from /\ status' = [status EXCEPT ![j] = to]

Create(j) == Move(j, "none", "pending")
Start(j)  == Move(j, "pending", "running")
End(j)    == Move(j, "running", "done") \/ Move(j, "running", "failed")

Unfinished == {j \in Jobs : status[j] \in {"pending", "running"}}

Restart ==
  status' = [j \in Jobs |-> IF j \in Unfinished THEN "failed" ELSE status[j]]

Next == Restart \/ \E j \in Jobs : Create(j) \/ Start(j) \/ End(j)

Spec == Init /\ [][Next]_status
=============================================================================
