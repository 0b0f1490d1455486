----------------------------- MODULE ApiStartup -----------------------------
(***************************************************************************)
(* The startup of the API's workers (lifespan in services/api/main.py,     *)
(* app/startup.py and seed_admin of memory/user_repository.py) in front of *)
(* the ingestion jobs they serve: tables, the default administrator, then  *)
(* the recovery of jobs.  All workers start together on first boot, each   *)
(* looks first and creates afterwards, and an exception ends the process;  *)
(* uvicorn's supervisor starts it again.                                   *)
(*                                                                         *)
(* The clients of Neo4j, Redis, Qdrant and Ollama open no connection that  *)
(* could fail the startup.                                                 *)
(***************************************************************************)
EXTENDS IngestJobs

CONSTANTS
  MaxRoleChanges,   \* bound: calls of change_user_role
  MaxStartFaults    \* bound: database calls of a startup that fail

ASSUME ApiStartupAssumption == {MaxRoleChanges, MaxStartFaults} \subseteq Nat

VARIABLES
  stage,       \* where the startup of each worker is
  tables,      \* whether the transaction of create_db_tables has committed
  seeded,      \* whether the row with ADMIN_USERNAME exists
  admins,      \* accounts with role "admin": the seeded one, any other
  roleChanges,
  startFaults

database == <<tables, seeded, admins, roleChanges>>
startup  == <<stage, database, startFaults>>
svars    == <<vars, startup>>

RoleHolders == {"seeded", "other"}

StartupInit ==
  /\ Init
  /\ stage = [w \in Workers |-> "down"]
  /\ tables = FALSE
  /\ seeded = FALSE
  /\ admins = {}
  /\ roleChanges = 0
  /\ startFaults = 0

Goes(w, from, to) ==
  /\ stage[w] = from
  /\ stage' = [stage EXCEPT ![w] = to]

-----------------------------------------------------------------------------
\* Mutant: create_all does not look which tables exist.
InspectNot(w) ==
  /\ Goes(w, "down", "create")
  /\ UNCHANGED <<database, startFaults>>

\* create_all looks which tables exist.
Inspect(w) ==
  /\ Goes(w, "down", IF tables THEN "seed" ELSE "create")
  /\ UNCHANGED <<database, startFaults>>

\* CREATE TABLE waits for another transaction that creates the table, and
\* raises if that one commits.
create_db_tables(w) ==
  /\ Goes(w, "create", IF tables THEN "down" ELSE "seed")
  /\ tables' = TRUE
  /\ UNCHANGED <<seeded, admins, roleChanges, startFaults>>

\* The first session of seed_admin: is there an administrator?
LooksForAdmin(w) ==
  /\ Goes(w, "seed", IF admins # {} THEN "recover" ELSE "insert")
  /\ UNCHANGED <<database, startFaults>>

\* The second: username and email are UNIQUE.
seed_admin(w) ==
  /\ Goes(w, "insert", IF seeded THEN "down" ELSE "recover")
  /\ seeded' = TRUE
  /\ admins' = IF seeded THEN admins ELSE admins \cup {"seeded"}
  /\ UNCHANGED <<tables, roleChanges, startFaults>>

Starts(w) == Inspect(w) \/ create_db_tables(w) \/ LooksForAdmin(w) \/ seed_admin(w)

\* The database fails a startup; nothing catches that.
StartFails(w) ==
  /\ stage[w] \in {"create", "seed", "insert"}
  /\ stage' = [stage EXCEPT ![w] = "down"]
  /\ startFaults < MaxStartFaults
  /\ startFaults' = startFaults + 1
  /\ UNCHANGED <<vars, database>>

Serves(w) ==
  /\ Goes(w, "recover", "up")
  /\ Boot(w) \/ BootUnrecovered(w)
  /\ UNCHANGED <<database, startFaults>>

Dies(w) ==
  /\ Goes(w, "up", "down")
  /\ Crash(w)
  /\ UNCHANGED <<database, startFaults>>

\* change_user_role: an administrator gives or takes the role, also his own.
change_user_role(a) ==
  /\ up # {}
  /\ admins # {}
  /\ a = "seeded" => seeded
  /\ roleChanges < MaxRoleChanges
  /\ roleChanges' = roleChanges + 1
  /\ admins' = IF a \in admins THEN admins \ {a} ELSE admins \cup {a}
  /\ UNCHANGED <<vars, stage, tables, seeded, startFaults>>

Work ==
  \/ \E w \in Workers : Begin(w) \/ \E j \in Jobs : Trigger(w, j)
  \/ \E j \in Jobs : Serve(j) \/ Thread(j) \/ Loop(j)

StartupNext ==
  \/ \E w \in Workers : \/ Starts(w) /\ UNCHANGED vars
                        \/ StartFails(w) \/ Serves(w) \/ Dies(w)
  \/ \E a \in RoleHolders : change_user_role(a)
  \/ Work /\ UNCHANGED startup

\* A worker goes on starting, and is started again after it ended.
ApiSpec ==
  /\ StartupInit /\ [][StartupNext]_svars
  /\ WorkFairness
  /\ \A w \in Workers : WF_svars((Starts(w) /\ UNCHANGED vars) \/ Serves(w))

-----------------------------------------------------------------------------
\* seed_admin looks for a role and inserts a username: once the seeded account
\* has lost the role and nobody else has it, the INSERT fails on every startup.
LockedOut == seeded /\ admins = {}

\* Whatever startups race on the tables and the administrator, every worker
\* serves in the end, unless the API has locked itself out.  lifespan.
EveryWorkerServes == <>[](LockedOut \/ up = Workers)

\* Every row comes to an end: "the UI would show those jobs stuck forever"
\* (recover_stale_jobs) does not happen, whatever a crash interrupts.  Not so
\* when a database call of the job, or its recovery, failed, or when no worker
\* can start any more.  lifespan, trigger_ingest to recover_stale_jobs.
EveryRowSettles == \A j \in Jobs : <>[](Stale(j) => j \in shaken \/ LockedOut)
=============================================================================
