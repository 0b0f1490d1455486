------------------------------ MODULE Ingestion ------------------------------
(***************************************************************************)
(* What the ingestion pipeline promises to whoever runs it, the API, the   *)
(* ingestion server or the crawler: a run hands the stores something only  *)
(* while it is in progress and only of the documents it was given, takes   *)
(* nothing away, and exits with 1 only if it has handed over nothing.      *)
(* What it handed over may arrive when it has long returned, or never.     *)
(***************************************************************************)
EXTENDS FiniteSets

CONSTANTS
  Runs,
  Things    \* what a document can leave in a store

VARIABLES
  phase,    \* of a run: "idle", "running", its exit code, or "dead"
  given,    \* what the documents of a run can leave
  handed,   \* what each run has handed to a store,
  left      \* and what of it has arrived there

Init ==
  /\ phase = [r \in Runs |-> "idle"]
  /\ given = [r \in Runs |-> {}]
  /\ handed = {} /\ left = {}

\* The run begins, with documents that can leave anything.
Begin(r) ==
  /\ phase[r] = "idle"
  /\ phase' = [phase EXCEPT ![r] = "running"]
  /\ \E T \in SUBSET Things : given' = [given EXCEPT ![r] = T]
  /\ UNCHANGED <<handed, left>>

\* A store takes something from r, and has it at once or later.
Leave(r) ==
  /\ phase[r] = "running"
  /\ UNCHANGED <<phase, given>>
  /\ \E T \in SUBSET given[r] : /\ handed' = handed \cup (T \X {r})
                                /\ left' \in {left, left \cup (T \X {r})}

\* Something arrives.
Arrive ==
  /\ UNCHANGED <<phase, given, handed>>
  /\ \E x \in handed : left' = left \cup {x}

Return(r, code) ==
  /\ phase[r] = "running"
  /\ code = "one" => \A x \in handed : x[2] # r
  /\ phase' = [phase EXCEPT ![r] = code]
  /\ UNCHANGED <<given, handed, left>>

\* Processes end under their runs.
Die(dead) ==
  /\ \A r \in dead : phase[r] = "running"
  /\ phase' = [r \in Runs |-> IF r \in dead THEN "dead" ELSE phase[r]]
  /\ given' = [r \in Runs |-> IF r \in dead THEN {} ELSE given[r]]
  /\ UNCHANGED <<handed, left>>

Next ==
  \/ \E r \in Runs : \/ Begin(r) \/ Leave(r)
                     \/ \E code \in {"zero", "one"} : Return(r, code)
  \/ Arrive
  \/ \E dead \in SUBSET Runs : Die(dead)

Spec == Init /\ [][Next]_<<phase, given, handed, left>>
=============================================================================
