------------------------- MODULE AccountsRefinement -------------------------
(***************************************************************************)
(* Accounts implements Vetting: every step of a handler is a step of the   *)
(* supervised registration or changes nothing of it.                       *)
(***************************************************************************)
EXTENDS AccountsProofs

\* The abstract state.
StageOf  == [u \in Users |-> Stage(u)]
Sessions == {<<claim[j].user, claim[j].role>> : j \in issued}

LEMMA StageValue ==
  ASSUME NEW u \in Users, RowConsistent(u)
  PROVE  /\ row[u].status = "absent" => Stage(u) = "unknown"
         /\ row[u].status = "pending" => Stage(u) = "applied"
         /\ Enlisted(u) /\ row[u].password => Stage(u) = "enrolled"
         /\ Enlisted(u) /\ ~row[u].password => Stage(u) = "vetted"
<1>1. CASE row[u].status = "absent"
  BY <1>1 DEF Stage, Enlisted, RowConsistent
<1>2. CASE row[u].status = "pending"
  BY <1>2 DEF Stage, Enlisted, RowConsistent
<1>3. CASE Enlisted(u)
  <2>1. CASE row[u].password
    BY <1>3, <2>1 DEF Stage, Enlisted
  <2>2. CASE ~row[u].password
    BY <1>3, <2>2 DEF Stage, Enlisted
  <2> QED
    BY <1>3, <2>1, <2>2 DEF Enlisted
<1> QED
  BY <1>1, <1>2, <1>3 DEF Enlisted

LEMMA StageValueNext ==
  ASSUME NEW u \in Users, RowConsistent(u)'
  PROVE  /\ row'[u].status = "pending" => Stage(u)' = "applied"
         /\ Enlisted(u)' /\ row'[u].password => Stage(u)' = "enrolled"
         /\ Enlisted(u)' /\ ~row'[u].password => Stage(u)' = "vetted"
<1>1. CASE row'[u].status = "pending"
  BY <1>1 DEF Stage, Enlisted, RowConsistent
<1>2. CASE Enlisted(u)'
  <2>1. CASE row'[u].password
    BY <1>2, <2>1 DEF Stage, Enlisted
  <2>2. CASE ~row'[u].password
    BY <1>2, <2>2 DEF Stage, Enlisted
  <2> QED
    BY <1>2, <2>1, <2>2 DEF Enlisted
<1> QED
  BY <1>1, <1>2 DEF Enlisted

\* A step that changes one row changes one stage.
LEMMA StageStep ==
  ASSUME NEW u \in Users, \A v \in Users \ {u} : row'[v] = row[v]
  PROVE  StageOf' = [StageOf EXCEPT ![u] = Stage(u)']
<1>1. \A v \in Users \ {u} : Stage(v)' = Stage(v)
  BY DEF Stage
<1> QED
  BY <1>1 DEF StageOf

LEMMA SessionsSame ==
  ASSUME issued' = issued, \A j \in issued : claim'[j] = claim[j]
  PROVE  Sessions' = Sessions
BY DEF Sessions

-----------------------------------------------------------------------------
LEMMA InitRefines == Init => V!Init
<1> SUFFICES ASSUME Init
             PROVE  V!Init
  OBVIOUS
<1>1. StageOf = [u \in Users |-> IF u = Admin THEN "enrolled" ELSE "unknown"]
  <2>1. \A u \in Users : Stage(u) = IF u = Admin THEN "enrolled" ELSE "unknown"
    BY InitIInv, StageValue DEF Init, NewRow, IInv, Enlisted
  <2> QED
    BY <2>1 DEF StageOf
<1>2. Sessions = {}
  BY DEF Init, Sessions
<1> QED
  BY <1>1, <1>2 DEF V!Init, Init, StageOf, Sessions

\* Steps that leave accounts, roles and sessions as they were.
LEMMA Stutters ==
  ASSUME row' = row, granted' = granted, issued' = issued,
         \A j \in issued : claim'[j] = claim[j]
  PROVE  UNCHANGED V!vars
<1>1. StageOf' = StageOf
  BY DEF StageOf, Stage
<1>2. Sessions' = Sessions
  BY SessionsSame
<1> QED
  BY <1>1, <1>2 DEF V!vars, StageOf, Sessions

LEMMA LoginReadRefines ==
  ASSUME IInv, NEW p \in Handlers, NEW u \in Users, NEW j \in Jtis, LoginRead(p, u, j)
  PROVE  UNCHANGED V!vars
<1>1. \A k \in issued : k \in Jtis /\ Minted(k)
  BY DEF IInv, TypeOK, TokenConsistent
<1>2. j \notin issued
  BY <1>1 DEF LoginRead, Minted
<1>3. \A k \in issued : claim'[k] = claim[k]
  BY <1>1, <1>2 DEF LoginRead, IInv, TypeOK
<1> QED
  BY <1>3, Stutters DEF LoginRead, history

LEMMA RegisterInsertRefines ==
  ASSUME IInv, IInv', NEW p \in Handlers, RegisterInsert(p)
  PROVE  [V!Next]_V!vars
<1>u. PICK u \in Users : u = h[p].user
  BY DEF IInv, TypeOK, HandlerRecs
<1>0. /\ row \in [Users -> Rows]
      /\ claim' = claim /\ issued' = issued /\ granted' = granted
  BY DEF IInv, TypeOK, HandlerRecs, RegisterInsert, history
<1>1. CASE row[u].status = "absent"
  <2>1. /\ \A v \in Users \ {u} : row'[v] = row[v]
        /\ row'[u].status = "pending"
    BY <1>u, <1>0, <1>1 DEF RegisterInsert, create_user, NewRow
  <2>2. /\ StageOf[u] = "unknown"
        /\ StageOf' = [StageOf EXCEPT ![u] = "applied"]
    BY <1>0, <1>1, <2>1, StageStep, StageValue, StageValueNext DEF IInv, StageOf
  <2>3. Sessions' = Sessions
    BY <1>0, SessionsSame
  <2>4. V!Apply(u)
    BY <1>0, <2>2, <2>3 DEF V!Apply, StageOf, Sessions
  <2> QED
    BY <1>0, <2>4 DEF V!Next
<1>2. CASE row[u].status # "absent"
  BY <1>u, <1>0, <1>2, Stutters DEF RegisterInsert
<1> QED
  BY <1>1, <1>2

LEMMA ActivateWriteRefines ==
  ASSUME IInv, IInv', NEW p \in Handlers, ActivateWrite(p)
  PROVE  [V!Next]_V!vars
<1>u. PICK u \in Users : u = h[p].user
  BY DEF IInv, TypeOK, HandlerRecs
<1>0. /\ row \in [Users -> Rows]
      /\ claim' = claim /\ issued' = issued /\ granted' = granted
  BY DEF IInv, TypeOK, HandlerRecs, ActivateWrite, history
<1>1. /\ \A v \in Users \ {u} : row'[v] = row[v]
      /\ row'[u].status = "active" /\ row'[u].password
  BY <1>u, <1>0 DEF ActivateWrite, activate_user, Rows
<1>2. Enlisted(u)
  BY <1>u DEF IInv, HandlerConsistent, ActivateWrite, At
<1>3. Enlisted(u)'
  BY <1>0, <1>1 DEF Enlisted
<1>4. StageOf[u] \in {"vetted", "enrolled"}
  BY <1>0, <1>2, StageValue DEF IInv, StageOf
<1>5. StageOf' = [StageOf EXCEPT ![u] = "enrolled"]
  <2>1. Stage(u)' = "enrolled"
    BY <1>1, <1>3, StageValueNext DEF IInv
  <2> QED
    BY <1>0, <1>1, <2>1, StageStep
<1>6. Sessions' = Sessions
  BY <1>0, SessionsSame
<1>7. CASE StageOf[u] = "vetted"
  <2>1. V!Enrol(u)
    BY <1>0, <1>5, <1>6, <1>7 DEF V!Enrol, StageOf, Sessions
  <2> QED
    BY <1>0, <2>1 DEF V!Next
<1>8. CASE StageOf[u] = "enrolled"
  <2>1. StageOf' = StageOf
    BY <1>5, <1>8 DEF StageOf
  <2> QED
    BY <1>0, <1>6, <2>1 DEF V!vars, StageOf, Sessions
<1> QED
  BY <1>4, <1>7, <1>8

\* An administrator's request stands on a session opened as administrator, and
\* on an account that exists.
LEMMA AdminSupervised ==
  ASSUME IInv, NEW p \in Handlers, h[p].op \in AdminOps, NEW u \in Users, u = h[p].user
  PROVE  V!Supervised /\ StageOf[u] # "unknown"
<1>1. PICK j \in issued : claim[j].role = AdminRole
  BY DEF IInv, HandlerConsistent
<1>2. claim[j].user \in Users
  BY DEF IInv, TypeOK, Claims
<1>3. <<claim[j].user, AdminRole>> \in Sessions
  BY <1>1 DEF Sessions
<1>4. RowConsistent(u) /\ row[u].status # "absent"
  BY DEF IInv, HandlerConsistent
<1>5. row[u].status = "pending" \/ Enlisted(u)
  BY <1>4 DEF Enlisted
<1>6. Stage(u) # "unknown"
  BY <1>4, <1>5, StageValue DEF IInv
<1> QED
  BY <1>2, <1>3, <1>6 DEF V!Supervised, Sessions, StageOf

LEMMA ApproveWriteRefines ==
  ASSUME IInv, IInv', NEW p \in Handlers, NEW l \in Links, ApproveWrite(p, l)
  PROVE  [V!Next]_V!vars
<1>u. PICK u \in Users : u = h[p].user
  BY DEF IInv, TypeOK, HandlerRecs
<1>0. /\ row \in [Users -> Rows] /\ h[p].role \in Roles
      /\ claim' = claim /\ issued' = issued
      /\ granted' = [granted EXCEPT ![u] = @ \cup {h[p].role}]
      /\ h[p].op \in AdminOps
  BY <1>u DEF IInv, TypeOK, HandlerRecs, ApproveWrite, At, AdminOps
<1>1. /\ \A v \in Users \ {u} : row'[v] = row[v]
      /\ row'[u].status = "approved" /\ row'[u].password = row[u].password
  <2>1. row' = [row EXCEPT ![u].status = "approved", ![u].role = h[p].role,
                           ![u].link = l, ![u].linkUntil = now + LinkTTL]
    BY <1>u DEF ApproveWrite, approve_user
  <2> QED
    BY <1>0, <2>1 DEF Rows
<1>2. Enlisted(u)' /\ RowConsistent(u) /\ RowConsistent(u)'
  BY <1>1 DEF Enlisted, IInv
<1>3. V!Supervised /\ StageOf[u] # "unknown"
  BY <1>u, <1>0, AdminSupervised
<1>4. Stage(u)' = IF StageOf[u] = "applied" THEN "vetted" ELSE StageOf[u]
  <2>1. Stage(u) = StageOf[u]
    BY DEF StageOf
  <2>2. CASE row[u].status = "pending"
    <3>1. ~row[u].password
      BY <1>2, <2>2 DEF RowConsistent, Enlisted
    <3> QED
      BY <1>1, <1>2, <2>1, <2>2, <3>1, StageValue, StageValueNext
  <2>3. CASE Enlisted(u) /\ row[u].password
    BY <1>1, <1>2, <2>1, <2>3, StageValue, StageValueNext
  <2>4. CASE Enlisted(u) /\ ~row[u].password
    BY <1>1, <1>2, <2>1, <2>4, StageValue, StageValueNext
  <2>5. row[u].status # "absent"
    BY <1>2, <1>3, <2>1, StageValue
  <2> QED
    BY <2>2, <2>3, <2>4, <2>5 DEF Enlisted
<1>5. StageOf' = [StageOf EXCEPT ![u] = IF @ = "applied" THEN "vetted" ELSE @]
  BY <1>1, <1>4, StageStep DEF StageOf
<1>6. Sessions' = Sessions
  BY <1>0, SessionsSame
<1>7. V!Approve(u, h[p].role)
  BY <1>0, <1>3, <1>5, <1>6 DEF V!Approve, StageOf, Sessions
<1> QED
  BY <1>0, <1>7 DEF V!Next

LEMMA RoleWriteRefines ==
  ASSUME IInv, IInv', NEW p \in Handlers, RoleWrite(p)
  PROVE  [V!Next]_V!vars
<1>u. PICK u \in Users : u = h[p].user
  BY DEF IInv, TypeOK, HandlerRecs
<1>0. /\ row \in [Users -> Rows] /\ h[p].role \in Roles
      /\ claim' = claim /\ issued' = issued
      /\ granted' = [granted EXCEPT ![u] = @ \cup {h[p].role}]
      /\ h[p].op \in AdminOps
  BY <1>u DEF IInv, TypeOK, HandlerRecs, RoleWrite, At, AdminOps
<1>1. \A v \in Users : row'[v].status = row[v].status /\ row'[v].password = row[v].password
  BY <1>u, <1>0 DEF RoleWrite, update_user_role, Rows
<1>2. StageOf' = StageOf
  BY <1>1 DEF StageOf, Stage
<1>3. V!Supervised /\ StageOf[u] # "unknown"
  BY <1>u, <1>0, AdminSupervised
<1>4. Sessions' = Sessions
  BY <1>0, SessionsSame
<1>5. V!ChangeRole(u, h[p].role)
  BY <1>0, <1>2, <1>3, <1>4 DEF V!ChangeRole, StageOf, Sessions
<1> QED
  BY <1>0, <1>5 DEF V!Next

\* Suspension and reactivation concern accounts that have a password.
LEMMA StatusWriteRefines ==
  ASSUME IInv, IInv', NEW p \in Handlers, SuspendWrite(p) \/ ReactivateWrite(p)
  PROVE  UNCHANGED V!vars
<1>u. PICK u \in Users : u = h[p].user
  BY DEF IInv, TypeOK, HandlerRecs
<1>0. /\ row \in [Users -> Rows]
      /\ claim' = claim /\ issued' = issued /\ granted' = granted
  BY DEF IInv, TypeOK, SuspendWrite, ReactivateWrite, history
<1>1. /\ \A v \in Users \ {u} : row'[v] = row[v]
      /\ row'[u].status \in {"suspended", "active"} /\ row'[u].password = row[u].password
  BY <1>u, <1>0 DEF SuspendWrite, ReactivateWrite, update_user_status, Rows
<1>2. row[u].password /\ RowConsistent(u) /\ RowConsistent(u)'
  BY <1>u DEF IInv, HandlerConsistent, SuspendWrite, ReactivateWrite, At
<1>3. Enlisted(u) /\ Enlisted(u)'
  BY <1>1, <1>2 DEF RowConsistent, Enlisted
<1>4. Stage(u)' = Stage(u)
  BY <1>1, <1>2, <1>3, StageValue, StageValueNext
<1>5. StageOf' = StageOf
  BY <1>1, <1>4, StageStep DEF StageOf
<1>6. Sessions' = Sessions
  BY <1>0, SessionsSame
<1> QED
  BY <1>0, <1>5, <1>6 DEF V!vars, StageOf, Sessions

LEMMA LoginStoreRefines ==
  ASSUME IInv, IInv', NEW p \in Handlers, LoginStore(p)
  PROVE  [V!Next]_V!vars
<1>u. PICK u \in Users : u = h[p].user
  BY DEF IInv, TypeOK, HandlerRecs
<1>j. PICK j : j = h[p].jti
  OBVIOUS
<1>r. PICK role \in Roles : role = h[p].role
  BY DEF IInv, TypeOK, HandlerRecs
<1>0. /\ claim' = claim /\ row' = row /\ granted' = granted /\ issued' = issued \cup {j}
  BY <1>j DEF LoginStore
<1>1. /\ j \in Jtis /\ Minted(j) /\ claim[j].user = u /\ claim[j].role = role
      /\ role \in granted[u]
  BY <1>u, <1>j, <1>r DEF IInv, HandlerConsistent, LoginStore, At
<1>2. row[u].password
  BY <1>1 DEF IInv, TokenConsistent
<1>3. StageOf[u] = "enrolled"
  <2>1. RowConsistent(u) /\ Enlisted(u)
    BY <1>2 DEF IInv, RowConsistent
  <2> QED
    BY <1>2, <2>1, StageValue DEF StageOf
<1>4. Sessions' = Sessions \cup {<<u, role>>}
  BY <1>0, <1>1 DEF Sessions
<1>5. StageOf' = StageOf
  BY <1>0 DEF StageOf, Stage
<1>6. V!OpenSession(u, role)
  BY <1>0, <1>1, <1>3, <1>4, <1>5 DEF V!OpenSession, StageOf, Sessions
<1> QED
  BY <1>6 DEF V!Next

-----------------------------------------------------------------------------
LEMMA NextRefines ==
  ASSUME IInv, IInv', [Next]_vars
  PROVE  [V!Next]_V!vars
<1> USE DEF redis, history
<1>1. ASSUME NEW p \in Handlers, Arrive(p)
      PROVE  UNCHANGED V!vars
  <2>1. CASE \E u \in Users, j \in Jtis : LoginRead(p, u, j)
    BY <2>1, LoginReadRefines
  <2>2. CASE UNCHANGED <<row, granted, issued, claim>>
    BY <2>2, Stutters
  <2> QED
    BY <1>1, <2>1, <2>2 DEF Arrive, RegisterCheck, ActivateRead, AdminRequest
<1>2. ASSUME NEW p \in Handlers, Serve(p)
      PROVE  [V!Next]_V!vars
  <2>1. CASE UNCHANGED <<row, granted, issued, claim>>
    BY <2>1, Stutters
  <2>2. CASE RegisterInsert(p) \/ LoginStore(p) \/ ActivateWrite(p)
    BY <2>2, RegisterInsertRefines, LoginStoreRefines, ActivateWriteRefines
  <2>3. CASE (\E l \in Links : ApproveWrite(p, l)) \/ RoleWrite(p)
    BY <2>3, ApproveWriteRefines, RoleWriteRefines
  <2>4. CASE SuspendWrite(p) \/ ReactivateWrite(p)
    BY <2>4, StatusWriteRefines
  <2>5. CASE StatusRead(p) \/ StatusRefused(p) \/ RoleRead(p) \/ RevokeGet(p)
             \/ RevokeSet(p) \/ AuditWrite(p)
    BY <2>1, <2>5
    DEF StatusRead, StatusRefused, RoleRead, RevokeGet, RevokeSet, AuditWrite
  <2> QED
    BY <1>2, <2>2, <2>3, <2>4, <2>5 DEF Serve
<1>3. ASSUME NEW p \in Handlers, Fail(p)
      PROVE  UNCHANGED V!vars
  BY <1>3, Stutters DEF Fail
<1>4. CASE Tick \/ UNCHANGED vars
  BY <1>4, Stutters DEF Tick, vars
<1> QED
  BY <1>1, <1>2, <1>3, <1>4 DEF Next

\* Accounts implements supervised registration (SupervisedRegistration): whatever
\* the requests in progress and the failures, a session is opened only by an
\* account an administrator approved, with a role an administrator gave it.
THEOREM Refinement == Spec => SupervisedRegistration
<1>1. IInv /\ IInv' /\ [Next]_vars => [V!Next]_V!vars
  BY NextRefines
<1> QED
  BY <1>1, InitRefines, InductiveInvariant, PTL DEF Spec, V!Spec, SupervisedRegistration
=============================================================================
