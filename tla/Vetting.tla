------------------------------- MODULE Vetting -------------------------------
(***************************************************************************)
(* What supervised registration promises, whatever the requests in         *)
(* progress: an account opens a session only after an administrator has    *)
(* approved it and its holder has set a password, and only with a role an  *)
(* administrator gave it; and every such decision is taken by somebody who *)
(* had opened a session as administrator.  Accounts implements it.         *)
(***************************************************************************)
CONSTANTS Users, Admin, Roles, AdminRole

VARIABLES
  stage,     \* how far the account got: it never goes back
  granted,   \* roles given to the account so far
  sessions   \* <<account, role>> of the sessions opened so far

vars == <<stage, granted, sessions>>

Stages == {"unknown", "applied", "vetted", "enrolled"}

Init ==
  /\ stage = [u \in Users |-> IF u = Admin THEN "enrolled" ELSE "unknown"]
  /\ granted = [u \in Users |-> IF u = Admin THEN {AdminRole} ELSE {}]
  /\ sessions = {}

Supervised == \E a \in Users : <<a, AdminRole>> \in sessions

Apply(u) ==
  /\ stage[u] = "unknown"
  /\ stage' = [stage EXCEPT ![u] = "applied"]
  /\ UNCHANGED <<granted, sessions>>

\* Approval, of an account that applied or of one approved before.
Approve(u, role) ==
  /\ Supervised
  /\ stage[u] # "unknown"
  /\ stage' = [stage EXCEPT ![u] = IF @ = "applied" THEN "vetted" ELSE @]
  /\ granted' = [granted EXCEPT ![u] = @ \cup {role}]
  /\ UNCHANGED sessions

ChangeRole(u, role) ==
  /\ Supervised
  /\ stage[u] # "unknown"
  /\ granted' = [granted EXCEPT ![u] = @ \cup {role}]
  /\ UNCHANGED <<stage, sessions>>

Enrol(u) ==
  /\ stage[u] = "vetted"
  /\ stage' = [stage EXCEPT ![u] = "enrolled"]
  /\ UNCHANGED <<granted, sessions>>

OpenSession(u, role) ==
  /\ stage[u] = "enrolled"
  /\ role \in granted[u]
  /\ sessions' = sessions \cup {<<u, role>>}
  /\ UNCHANGED <<stage, granted>>

Next == \E u \in Users :
  \/ Apply(u) \/ Enrol(u)
  \/ \E role \in Roles : Approve(u, role) \/ ChangeRole(u, role) \/ OpenSession(u, role)

Spec == Init /\ [][Next]_vars
=============================================================================
