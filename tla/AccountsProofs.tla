--------------------------- MODULE AccountsProofs ---------------------------
(***************************************************************************)
(* Proofs about Accounts, for every number of accounts, requests in        *)
(* progress, tokens, ticks and failures.                                   *)
(***************************************************************************)
EXTENDS Accounts, TLAPS

\* The records an action builds have the fields and types of HandlerRecs.
LEMMA HandlerType ==
  ASSUME NEW op \in Ops, NEW stage \in Stages, NEW u \in Users, NEW role \in Roles,
         NEW j \in Jtis \cup {NoJti}, NEW l \in Links \cup {NoLink}
  PROVE  Handler(op, stage, u, role, j, l) \in HandlerRecs
BY DEF Handler, HandlerRecs

LEMMA IdleType == Idle \in HandlerRecs
BY AccountsAssumption, HandlerType DEF Idle, Ops, Stages

\* Starting, moving and finishing a handler keeps h well typed.
LEMMA StartType ==
  ASSUME h \in [Handlers -> HandlerRecs], NEW p \in Handlers,
         NEW rec \in HandlerRecs, Start(p, rec)
  PROVE  h' \in [Handlers -> HandlerRecs]
BY DEF Start

LEMMA GotoType ==
  ASSUME h \in [Handlers -> HandlerRecs], NEW p \in Handlers,
         NEW stage \in Stages, Goto(p, stage)
  PROVE  h' \in [Handlers -> HandlerRecs]
BY DEF Goto, HandlerRecs

LEMMA FinishType ==
  ASSUME h \in [Handlers -> HandlerRecs], NEW p \in Handlers, Finish(p)
  PROVE  h' \in [Handlers -> HandlerRecs]
BY IdleType DEF Finish

-----------------------------------------------------------------------------
LEMMA InitTypeOK == Init => TypeOK
BY AccountsAssumption, IdleType
DEF Init, TypeOK, NewRow, Rows, Statuses, Claims, Keys

LEMMA ArriveTypeOK ==
  ASSUME TypeOK, NEW p \in Handlers, Arrive(p)
  PROVE  TypeOK'
<1> USE AccountsAssumption DEF redis, history
<1>0. h \in [Handlers -> HandlerRecs]
  BY DEF TypeOK
<1>1. ASSUME NEW u \in Users, NEW role \in Roles, RegisterCheck(p, u, role)
      PROVE  TypeOK'
  <2>1. Handler("register", "write", u, role, NoJti, NoLink) \in HandlerRecs
    BY HandlerType DEF Ops, Stages
  <2>2. h' \in [Handlers -> HandlerRecs]
    BY <1>0, <1>1, <2>1, StartType DEF RegisterCheck
  <2> QED
    BY <1>1, <2>2 DEF RegisterCheck, TypeOK
<1>2. ASSUME NEW u \in Users, NEW j \in Jtis, LoginRead(p, u, j)
      PROVE  TypeOK'
  <2>0. row[u].role \in Roles
    BY DEF TypeOK, Rows
  <2>1. Handler("login", "write", u, row[u].role, j, NoLink) \in HandlerRecs
    BY <2>0, HandlerType DEF Ops, Stages
  <2>2. h' \in [Handlers -> HandlerRecs]
    BY <1>0, <1>2, <2>1, StartType DEF LoginRead
  <2>3. claim' \in [Jtis -> Claims]
    BY <1>2, <2>0 DEF LoginRead, TypeOK, Claims
  <2> QED
    BY <1>2, <2>2, <2>3 DEF LoginRead, TypeOK
<1>3. ASSUME NEW u \in Users, ActivateRead(p, u)
      PROVE  TypeOK'
  <2>0. row[u].link \in Links \cup {NoLink}
    BY DEF TypeOK, Rows
  <2>1. Handler("activate", "write", u, AdminRole, NoJti, row[u].link) \in HandlerRecs
    BY <2>0, HandlerType DEF Ops, Stages
  <2>2. h' \in [Handlers -> HandlerRecs]
    BY <1>0, <1>3, <2>1, StartType DEF ActivateRead
  <2> QED
    BY <1>3, <2>2 DEF ActivateRead, TypeOK
<1>4. ASSUME NEW u \in Users, NEW j \in issued, NEW op \in AdminOps, NEW role \in Roles,
             AdminRequest(p, j, op, u, role)
      PROVE  TypeOK'
  <2> DEFINE stage == IF op = "approve" THEN "write" ELSE "read"
  <2>1. Handler(op, stage, u, role, NoJti, NoLink) \in HandlerRecs
    BY HandlerType DEF Ops, Stages
  <2>2. h' \in [Handlers -> HandlerRecs]
    BY <1>0, <1>4, <2>1, StartType DEF AdminRequest
  <2> QED
    BY <1>4, <2>2 DEF AdminRequest, TypeOK
<1> QED
  BY <1>1, <1>2, <1>3, <1>4 DEF Arrive, AdminOps

LEMMA ServeTypeOK ==
  ASSUME TypeOK, NEW p \in Handlers, HandlerConsistent(p), Serve(p)
  PROVE  TypeOK'
<1> USE AccountsAssumption DEF redis, history
<1>0. /\ h \in [Handlers -> HandlerRecs]
      /\ h[p].user \in Users /\ h[p].role \in Roles /\ h[p].op \in Ops
      /\ h[p].jti \in Jtis \cup {NoJti}
      /\ h[p].op = "login" => h[p].jti \in Jtis
      /\ h[p].at = "set" => h[p].jti \in Jtis
  BY DEF TypeOK, HandlerRecs, HandlerConsistent
<1>1. CASE RegisterInsert(p)
  <2>1. h' \in [Handlers -> HandlerRecs]
    BY <1>0, <1>1, FinishType DEF RegisterInsert
  <2>2. row' \in [Users -> Rows]
    BY <1>0, <1>1 DEF RegisterInsert, create_user, NewRow, TypeOK, Rows, Statuses
  <2> QED
    BY <1>1, <2>1, <2>2 DEF RegisterInsert, TypeOK
<1>2. CASE LoginStore(p)
  <2>1. h' \in [Handlers -> HandlerRecs]
    BY <1>0, <1>2, FinishType DEF LoginStore
  <2>2. tracked' \in [Users -> Keys]
    BY <1>0, <1>2 DEF LoginStore, TypeOK, Keys
  <2>3. issued' \subseteq Jtis /\ escaped' \subseteq Jtis
    BY <1>0, <1>2 DEF LoginStore, TypeOK, At
  <2> QED
    BY <1>2, <2>1, <2>2, <2>3 DEF LoginStore, TypeOK
<1>3. CASE ActivateWrite(p)
  <2>1. h' \in [Handlers -> HandlerRecs]
    BY <1>0, <1>3, FinishType DEF ActivateWrite
  <2>2. row' \in [Users -> Rows]
    BY <1>0, <1>3 DEF ActivateWrite, activate_user, TypeOK, Rows, Statuses
  <2> QED
    BY <1>3, <2>1, <2>2 DEF ActivateWrite, TypeOK
<1>4. ASSUME NEW l \in Links, ApproveWrite(p, l)
      PROVE  TypeOK'
  <2>1. h' \in [Handlers -> HandlerRecs]
    BY <1>0, <1>4, GotoType DEF ApproveWrite, Stages
  <2>2. row' \in [Users -> Rows]
    BY <1>0, <1>4 DEF ApproveWrite, approve_user, TypeOK, Rows, Statuses
  <2>3. granted' \in [Users -> SUBSET Roles]
    BY <1>0, <1>4 DEF ApproveWrite, TypeOK
  <2>4. escaped' \subseteq Jtis
    BY <1>0, <1>4 DEF ApproveWrite, TypeOK, Keys
  <2> QED
    BY <1>4, <2>1, <2>2, <2>3, <2>4 DEF ApproveWrite, TypeOK
<1>5. CASE StatusRead(p)
  <2>1. h' \in [Handlers -> HandlerRecs]
    BY <1>0, <1>5, GotoType DEF StatusRead, Stages
  <2> QED
    BY <1>5, <2>1 DEF StatusRead, TypeOK
<1>6. CASE StatusRefused(p)
  <2>1. h' \in [Handlers -> HandlerRecs]
    BY <1>0, <1>6, FinishType DEF StatusRefused
  <2> QED
    BY <1>6, <2>1 DEF StatusRefused, TypeOK
<1>7. CASE SuspendWrite(p)
  <2>1. h' \in [Handlers -> HandlerRecs]
    BY <1>0, <1>7, GotoType DEF SuspendWrite, Stages
  <2>2. row' \in [Users -> Rows]
    <3>1. row' = [row EXCEPT ![h[p].user].status = "suspended"]
      BY <1>7 DEF SuspendWrite, update_user_status
    <3> QED
      BY <1>0, <3>1 DEF TypeOK, Rows, Statuses
  <2> QED
    BY <1>7, <2>1, <2>2 DEF SuspendWrite, TypeOK
<1>8. CASE ReactivateWrite(p)
  <2>1. h' \in [Handlers -> HandlerRecs]
    BY <1>0, <1>8, GotoType DEF ReactivateWrite, Stages
  <2>2. row' \in [Users -> Rows]
    <3>1. row' = [row EXCEPT ![h[p].user].status = "active"]
      BY <1>8 DEF ReactivateWrite, update_user_status
    <3> QED
      BY <1>0, <3>1 DEF TypeOK, Rows, Statuses
  <2> QED
    BY <1>8, <2>1, <2>2 DEF ReactivateWrite, TypeOK
<1>9. CASE RoleRead(p)
  <2>1. h' \in [Handlers -> HandlerRecs]
    BY <1>0, <1>9, GotoType, FinishType DEF RoleRead, Stages
  <2> QED
    BY <1>9, <2>1 DEF RoleRead, TypeOK
<1>10. CASE RoleWrite(p)
  <2>1. h' \in [Handlers -> HandlerRecs]
    BY <1>0, <1>10, GotoType DEF RoleWrite, Stages
  <2>2. row' \in [Users -> Rows]
    BY <1>0, <1>10 DEF RoleWrite, update_user_role, TypeOK, Rows
  <2>3. granted' \in [Users -> SUBSET Roles]
    BY <1>0, <1>10 DEF RoleWrite, TypeOK
  <2> QED
    BY <1>10, <2>1, <2>2, <2>3 DEF RoleWrite, TypeOK
<1>11. CASE RevokeGet(p)
  <2>1. TrackedJti(h[p].user) \in Jtis \cup {NoJti}
    BY <1>0 DEF TrackedJti, TypeOK, Keys
  <2>2. h' \in [Handlers -> HandlerRecs]
    BY <1>0, <1>11, <2>1 DEF RevokeGet, HandlerRecs, Stages
  <2> QED
    BY <1>11, <2>2 DEF RevokeGet, TypeOK
<1>12. CASE RevokeSet(p)
  <2>1. h' \in [Handlers -> HandlerRecs]
    BY <1>0, <1>12, GotoType DEF RevokeSet, Stages
  <2>2. denied' \in [Jtis -> Nat]
    BY <1>0, <1>12 DEF RevokeSet, TypeOK
  <2> QED
    BY <1>12, <2>1, <2>2 DEF RevokeSet, TypeOK
<1>13. CASE AuditWrite(p)
  <2>1. h' \in [Handlers -> HandlerRecs]
    BY <1>0, <1>13, FinishType DEF AuditWrite
  <2> QED
    BY <1>0, <1>13, <2>1 DEF AuditWrite, TypeOK
<1> QED
  BY <1>1, <1>2, <1>3, <1>4, <1>5, <1>6, <1>7, <1>8, <1>9, <1>10, <1>11, <1>12, <1>13
  DEF Serve

LEMMA FailTypeOK ==
  ASSUME TypeOK, NEW p \in Handlers, HandlerConsistent(p), Fail(p)
  PROVE  TypeOK'
<1> USE AccountsAssumption DEF redis, history
<1>0. /\ h \in [Handlers -> HandlerRecs]
      /\ h[p].user \in Users /\ h[p].op \in Ops /\ tracked[h[p].user].jti \in Jtis \cup {NoJti}
      /\ h[p].at = "set" => h[p].jti \in Jtis
  BY DEF TypeOK, HandlerRecs, HandlerConsistent, Keys
<1>1. h' \in [Handlers -> HandlerRecs]
  BY <1>0, FinishType DEF Fail
<1>2. escaped' \subseteq Jtis
  BY <1>0 DEF Fail, TypeOK
<1>3. lost' \subseteq Ops \X Users
  BY <1>0 DEF Fail, TypeOK
<1>4. faults' \in Nat
  BY DEF Fail, TypeOK
<1> QED
  BY <1>1, <1>2, <1>3, <1>4 DEF Fail, TypeOK

LEMMA TickTypeOK == TypeOK /\ Tick => TypeOK'
BY DEF TypeOK, Tick, redis, history

-----------------------------------------------------------------------------
\* What a step does to one handler, as facts about records.
LEMMA GotoEffect ==
  ASSUME h \in [Handlers -> HandlerRecs], NEW p \in Handlers, NEW stage, Goto(p, stage)
  PROVE  /\ h'[p].at = stage
         /\ h'[p].op = h[p].op /\ h'[p].user = h[p].user /\ h'[p].role = h[p].role
         /\ h'[p].jti = h[p].jti
         /\ \A q \in Handlers \ {p} : h'[q] = h[q]
BY DEF Goto, HandlerRecs

LEMMA FinishEffect ==
  ASSUME h \in [Handlers -> HandlerRecs], NEW p \in Handlers, Finish(p)
  PROVE  /\ h'[p].at = "idle" /\ h'[p].op = "none"
         /\ \A q \in Handlers \ {p} : h'[q] = h[q]
BY DEF Finish, Idle, Handler

LEMMA StartEffect ==
  ASSUME h \in [Handlers -> HandlerRecs], NEW p \in Handlers, NEW op, NEW stage,
         NEW u, NEW role, NEW j, NEW l, Start(p, Handler(op, stage, u, role, j, l))
  PROVE  /\ h[p].at = "idle" /\ h[p].op = "none"
         /\ h'[p].at = stage /\ h'[p].op = op /\ h'[p].user = u /\ h'[p].role = role
         /\ h'[p].jti = j
         /\ \A q \in Handlers \ {p} : h'[q] = h[q]
BY DEF Start, Idle, Handler

\* What no step takes back: a password, an approval, a role given, a token
\* minted with its payload, a session opened.
Progress ==
  /\ \A u \in Users : /\ row[u].password => row'[u].password
                      /\ Enlisted(u) => Enlisted(u)'
                      /\ row[u].status # "absent" => row'[u].status # "absent"
                      /\ granted[u] \subseteq granted'[u]
  /\ \A j \in Jtis : Minted(j) => claim'[j] = claim[j]
  /\ issued \subseteq issued'

\* A handler that does not move stays consistent.
LEMMA OtherHandler ==
  ASSUME TypeOK, TypeOK', Progress, \A j \in Jtis : TokenConsistent(j),
         NEW q \in Handlers, HandlerConsistent(q), h'[q] = h[q]
  PROVE  HandlerConsistent(q)'
<1> DEFINE u == h[q].user
<1>0. u \in Users
  BY DEF TypeOK, HandlerRecs
<1>1. h[q].op = "login" =>
        /\ h[q].at = "write" /\ h[q].jti \in Jtis /\ claim'[h[q].jti].exp # 0
        /\ claim'[h[q].jti].user = u /\ claim'[h[q].jti].role = h[q].role
        /\ h[q].role \in granted'[u]
  BY <1>0 DEF HandlerConsistent, Progress, Minted
<1>2. ASSUME h[q].op \in AdminOps
      PROVE  row'[u].status # "absent" /\ \E j \in issued' : claim'[j].role = AdminRole
  <2>1. PICK j \in issued : claim[j].role = AdminRole
    BY <1>2 DEF HandlerConsistent
  <2>2. j \in Jtis /\ j \in issued' /\ claim'[j] = claim[j]
    BY DEF TypeOK, TokenConsistent, Progress
  <2>3. row'[u].status # "absent"
    BY <1>0, <1>2 DEF HandlerConsistent, Progress
  <2> QED
    BY <2>1, <2>2, <2>3
<1>3. h[q].at = "set" => h[q].jti \in Jtis /\ claim'[h[q].jti].exp # 0
  BY DEF HandlerConsistent, Progress, Minted
<1>4. h[q].op = "activate" => Enlisted(u)'
  <2>1. h[q].op = "activate" => Enlisted(u)
    BY DEF HandlerConsistent
  <2> QED
    BY <1>0, <2>1 DEF Progress, Enlisted
<1>5. h[q].op \in {"suspend", "reactivate"} /\ h[q].at # "read" => row'[u].password
  BY <1>0 DEF HandlerConsistent, Progress
<1>6. /\ h[q].at = "idle" \/ h[q].op # "none"
      /\ h[q].at \in {"get", "set", "audit"} => h[q].op \in AdminOps
  BY DEF HandlerConsistent
<1> QED
  BY <1>1, <1>2, <1>3, <1>4, <1>5, <1>6 DEF HandlerConsistent, Enlisted, Minted

\* A token whose payload, key and clock do not move stays consistent.
LEMMA TokenKept ==
  ASSUME TypeOK, Progress, UNCHANGED <<claim, issued, denied, now>>,
         NEW j \in Jtis, TokenConsistent(j)
  PROVE  TokenConsistent(j)'
<1>1. claim[j].user \in Users
  BY DEF TypeOK, Claims
<1> QED
  BY <1>1 DEF TokenConsistent, Progress, Minted

LEMMA KeyKept ==
  ASSUME TypeOK, Progress, NEW u \in Users, KeyConsistent(u), tracked'[u] = tracked[u]
  PROVE  KeyConsistent(u)'
<1>1. tracked[u].jti \in Jtis \cup {NoJti}
  BY DEF TypeOK, Keys
<1> QED
  BY <1>1 DEF KeyConsistent, Progress, Minted

\* Only a handler that is at "get" or "set" can end a pending revocation.
LEMMA PendingKept ==
  ASSUME NEW p \in Handlers, \A q \in Handlers \ {p} : h'[q] = h[q], NEW u \in Users,
         tracked'[u] = tracked[u], RevocationPending(u), ~RevocationPending(u)'
  PROVE  h[p].user = u /\ (h[p].at = "get" \/ (h[p].at = "set" /\ h[p].jti = tracked[u].jti))
BY DEF RevocationPending

LEMMA SessionKept ==
  ASSUME TypeOK, Progress, NEW u \in Users, KeyConsistent(u), SessionConsistent(u),
         tracked'[u] = tracked[u], escaped \subseteq escaped',
         Accepted(tracked[u].jti)' => Accepted(tracked[u].jti),
         row'[u].role = row[u].role,
         row'[u].status = "suspended" => row[u].status = "suspended",
         RevocationPending(u) => \/ RevocationPending(u)'
                                 \/ tracked[u].jti \in escaped' \cup {NoJti}
                                 \/ ~Accepted(tracked[u].jti)'
  PROVE  SessionConsistent(u)'
<1> DEFINE j == tracked[u].jti
<1>0. j \in Jtis \cup {NoJti}
  BY DEF TypeOK, Keys
<1>1. SUFFICES ASSUME j # NoJti, j \notin escaped', Accepted(j)', ~RevocationPending(u)'
               PROVE  claim'[j].role = row'[u].role /\ row'[u].status # "suspended"
  BY DEF SessionConsistent, Accepted, Blacklisted
<1>2. claim'[j] = claim[j]
  BY <1>0, <1>1 DEF KeyConsistent, Progress
<1> QED
  BY <1>1, <1>2 DEF SessionConsistent

\* A step that leaves the tokens, Redis and the clock alone keeps the invariant
\* if it keeps the rows and its own handler consistent and revokes what it must.
LEMMA RowStep ==
  ASSUME IInv, TypeOK', Progress, UNCHANGED <<claim, issued, tracked, denied, now>>,
         escaped \subseteq escaped',
         NEW p \in Handlers, \A q \in Handlers \ {p} : h'[q] = h[q], HandlerConsistent(p)',
         \A u \in Users : RowConsistent(u)',
         \A u \in Users : \/ RevocationPending(u)'
                          \/ tracked[u].jti \in escaped' \cup {NoJti}
                          \/ ~Accepted(tracked[u].jti)
                          \/ /\ row'[u].role = row[u].role
                             /\ row'[u].status = "suspended" => row[u].status = "suspended"
                             /\ RevocationPending(u) => RevocationPending(u)'
  PROVE  IInv'
<1>1. \A q \in Handlers : HandlerConsistent(q)'
  BY OtherHandler DEF IInv
<1>2. \A j \in Jtis : TokenConsistent(j)'
  BY TokenKept DEF IInv
<1>3. \A u \in Users : KeyConsistent(u)'
  BY KeyKept DEF IInv
<1>4. ASSUME NEW u \in Users
      PROVE  SessionConsistent(u)'
  <2>0. Accepted(tracked[u].jti)' <=> Accepted(tracked[u].jti)
    BY DEF Accepted, Blacklisted
  <2>1. CASE \/ RevocationPending(u)'
             \/ tracked[u].jti \in escaped' \cup {NoJti}
             \/ ~Accepted(tracked[u].jti)
    BY <2>1 DEF SessionConsistent, Accepted, Blacklisted
  <2>2. CASE /\ row'[u].role = row[u].role
             /\ row'[u].status = "suspended" => row[u].status = "suspended"
             /\ RevocationPending(u) => RevocationPending(u)'
    BY <2>0, <2>2, SessionKept DEF IInv
  <2> QED
    BY <2>1, <2>2
<1> QED
  BY <1>1, <1>2, <1>3, <1>4 DEF IInv

\* The special case of a step that does not touch the users table either.
LEMMA QuietStep ==
  ASSUME IInv, TypeOK', UNCHANGED <<row, claim, issued, tracked, denied, now, granted>>,
         escaped \subseteq escaped',
         NEW p \in Handlers, \A q \in Handlers \ {p} : h'[q] = h[q], HandlerConsistent(p)',
         \/ h[p].at \notin {"get", "set"}
         \/ \A u \in Users : \/ RevocationPending(u) => RevocationPending(u)'
                             \/ tracked[u].jti \in escaped' \cup {NoJti}
                             \/ ~Accepted(tracked[u].jti)
  PROVE  IInv'
<1>1. Progress
  BY DEF Progress, Enlisted
<1>2. \A u \in Users : RowConsistent(u)'
  BY DEF IInv, RowConsistent, Enlisted
<1>3. h[p].at \notin {"get", "set"} =>
        \A u \in Users : RevocationPending(u) => RevocationPending(u)'
  BY PendingKept
<1> QED
  BY <1>1, <1>2, <1>3, RowStep

-----------------------------------------------------------------------------
\* Requests that arrive.
LEMMA RegisterCheckIInv ==
  ASSUME IInv, TypeOK', NEW p \in Handlers, NEW u \in Users, NEW role \in Roles,
         RegisterCheck(p, u, role)
  PROVE  IInv'
<1>1. /\ h[p].at = "idle"
      /\ h'[p].at = "write" /\ h'[p].op = "register"
      /\ \A q \in Handlers \ {p} : h'[q] = h[q]
  BY StartEffect DEF RegisterCheck, IInv, TypeOK
<1>2. HandlerConsistent(p)'
  BY <1>1 DEF HandlerConsistent, AdminOps
<1> QED
  BY <1>1, <1>2, QuietStep DEF RegisterCheck, redis, history

LEMMA ActivateReadIInv ==
  ASSUME IInv, TypeOK', NEW p \in Handlers, NEW u \in Users, ActivateRead(p, u)
  PROVE  IInv'
<1>1. /\ h[p].at = "idle"
      /\ h'[p].at = "write" /\ h'[p].op = "activate" /\ h'[p].user = u
      /\ \A q \in Handlers \ {p} : h'[q] = h[q]
  BY StartEffect DEF ActivateRead, IInv, TypeOK
<1>2. Enlisted(u)'
  BY DEF ActivateRead, Enlisted
<1>3. HandlerConsistent(p)'
  BY <1>1, <1>2 DEF HandlerConsistent, AdminOps, Enlisted
<1> QED
  BY <1>1, <1>3, QuietStep DEF ActivateRead, redis, history

LEMMA AdminRequestIInv ==
  ASSUME IInv, TypeOK', NEW p \in Handlers, NEW u \in Users, NEW j \in issued,
         NEW op \in AdminOps, NEW role \in Roles, AdminRequest(p, j, op, u, role)
  PROVE  IInv'
<1>1. /\ h[p].at = "idle"
      /\ h'[p].at \in {"read", "write"} /\ h'[p].op = op /\ h'[p].user = u
      /\ op # "approve" => h'[p].at = "read"
      /\ \A q \in Handlers \ {p} : h'[q] = h[q]
  BY StartEffect DEF AdminRequest, IInv, TypeOK
<1>2. row'[u].status # "absent" /\ j \in issued' /\ claim'[j].role = AdminRole
  BY DEF AdminRequest
<1>3. HandlerConsistent(p)'
  BY <1>1, <1>2 DEF HandlerConsistent, AdminOps
<1> QED
  BY <1>1, <1>3, QuietStep DEF AdminRequest, redis, history

LEMMA LoginReadIInv ==
  ASSUME IInv, TypeOK', NEW p \in Handlers, NEW u \in Users, NEW j \in Jtis,
         LoginRead(p, u, j)
  PROVE  IInv'
<1> USE DEF redis, history
<1> DEFINE role == row[u].role
<1>1. /\ h[p].at = "idle"
      /\ h'[p].at = "write" /\ h'[p].op = "login" /\ h'[p].user = u
      /\ h'[p].role = role /\ h'[p].jti = j
      /\ \A q \in Handlers \ {p} : h'[q] = h[q]
  BY StartEffect DEF LoginRead, IInv, TypeOK
<1>2. /\ row' = row /\ issued' = issued /\ tracked' = tracked
      /\ denied' = denied /\ now' = now /\ granted' = granted /\ escaped' = escaped
      /\ ~Minted(j)
      /\ \A k \in Jtis \ {j} : claim'[k] = claim[k]
      /\ claim'[j] = [user |-> u, role |-> role, exp |-> now + JwtTTL]
  BY DEF LoginRead, Minted, IInv, TypeOK
<1>3. Progress
  BY <1>2 DEF Progress, Enlisted
<1>4. now \in Nat /\ JwtTTL \in Nat \ {0}
  BY AccountsAssumption DEF IInv, TypeOK
<1>5. row[u].password /\ role \in granted[u]
  BY DEF LoginRead, IInv, RowConsistent
<1>6. HandlerConsistent(p)'
  BY <1>1, <1>2, <1>4, <1>5 DEF HandlerConsistent, AdminOps, Minted
<1>7. \A q \in Handlers : HandlerConsistent(q)'
  BY <1>1, <1>3, <1>6, OtherHandler DEF IInv
<1>8. ASSUME NEW k \in Jtis
      PROVE  TokenConsistent(k)'
  <2>1. CASE k = j
    <3>1. claim'[k].user = u /\ claim'[k].exp = now + JwtTTL
      BY <1>2, <2>1
    <3>2. k \notin issued /\ denied[k] = 0
      BY <1>2, <2>1 DEF IInv, TokenConsistent
    <3> QED
      BY <1>2, <1>4, <1>5, <3>1, <3>2 DEF TokenConsistent, Minted
  <2>2. CASE k # j
    BY <1>2, <2>2 DEF IInv, TokenConsistent, Minted
  <2> QED
    BY <2>1, <2>2
<1>9. ASSUME NEW v \in Users
      PROVE  KeyConsistent(v)' /\ SessionConsistent(v)'
  <2>1. KeyConsistent(v)'
    BY <1>2, <1>3, KeyKept DEF IInv
  <2>2. Accepted(tracked[v].jti)' => Accepted(tracked[v].jti)
    BY <1>2 DEF Accepted, Blacklisted, IInv, TokenConsistent, TypeOK
  <2>3. RevocationPending(v) => RevocationPending(v)'
    BY <1>1, <1>2, PendingKept
  <2> QED
    BY <1>2, <1>3, <2>1, <2>2, <2>3, SessionKept DEF IInv
<1>10. \A v \in Users : RowConsistent(v)'
  BY <1>2 DEF IInv, RowConsistent, Enlisted
<1> QED
  BY <1>7, <1>8, <1>9, <1>10 DEF IInv

LEMMA ArriveIInv ==
  ASSUME IInv, NEW p \in Handlers, Arrive(p)
  PROVE  IInv'
<1>1. TypeOK'
  BY ArriveTypeOK DEF IInv
<1> QED
  BY <1>1, AccountsAssumption, RegisterCheckIInv, LoginReadIInv, ActivateReadIInv,
     AdminRequestIInv
  DEF Arrive, AdminOps

-----------------------------------------------------------------------------
\* Requests in progress: first the steps that write no row.
LEMMA CheckIInv ==
  ASSUME IInv, TypeOK', NEW p \in Handlers, StatusRead(p) \/ StatusRefused(p) \/ RoleRead(p)
  PROVE  IInv'
<1>0. TypeOK /\ h \in [Handlers -> HandlerRecs] /\ h[p].user \in Users
  BY DEF IInv, TypeOK, HandlerRecs
<1>1. CASE StatusRead(p)
  <2>1. /\ h[p].at = "read" /\ h[p].op \in {"suspend", "reactivate"}
        /\ row[h[p].user].status \in {"active", "suspended"}
        /\ h'[p].at = "write" /\ h'[p].op = h[p].op /\ h'[p].user = h[p].user
        /\ \A q \in Handlers \ {p} : h'[q] = h[q]
    BY <1>0, <1>1, GotoEffect DEF StatusRead, At
  <2>2. row[h[p].user].password
    BY <1>0, <2>1 DEF IInv, RowConsistent
  <2>3. HandlerConsistent(p) /\ row' = row /\ claim' = claim /\ issued' = issued
    BY <1>1 DEF IInv, StatusRead
  <2>4. HandlerConsistent(p)'
    BY <2>1, <2>2, <2>3 DEF HandlerConsistent, AdminOps
  <2> QED
    BY <1>1, <2>1, <2>4, QuietStep DEF StatusRead, redis, history
<1>2. CASE StatusRefused(p)
  <2>1. /\ h[p].at = "read"
        /\ h'[p].at = "idle" /\ h'[p].op = "none"
        /\ \A q \in Handlers \ {p} : h'[q] = h[q]
    BY <1>0, <1>2, FinishEffect DEF StatusRefused, At
  <2>2. HandlerConsistent(p)'
    BY <2>1 DEF HandlerConsistent, AdminOps
  <2> QED
    BY <1>2, <2>1, <2>2, QuietStep DEF StatusRefused, redis, history
<1>3. CASE RoleRead(p)
  <2>1. h[p].at = "read" /\ h[p].op = "role_change"
    BY <1>3 DEF RoleRead, At
  <2>2. CASE Finish(p)
    <3>1. /\ h'[p].at = "idle" /\ h'[p].op = "none"
          /\ \A q \in Handlers \ {p} : h'[q] = h[q]
      BY <1>0, <2>2, FinishEffect
    <3>2. HandlerConsistent(p)'
      BY <3>1 DEF HandlerConsistent, AdminOps
    <3> QED
      BY <1>3, <2>1, <3>1, <3>2, QuietStep DEF RoleRead, redis, history
  <2>3. CASE Goto(p, "write")
    <3>1. /\ h'[p].at = "write" /\ h'[p].op = "role_change" /\ h'[p].user = h[p].user
          /\ \A q \in Handlers \ {p} : h'[q] = h[q]
      BY <1>0, <2>1, <2>3, GotoEffect
    <3>2. HandlerConsistent(p) /\ row' = row /\ claim' = claim /\ issued' = issued
      BY <1>3 DEF IInv, RoleRead
    <3>3. HandlerConsistent(p)'
      BY <2>1, <3>1, <3>2 DEF HandlerConsistent, AdminOps
    <3> QED
      BY <1>3, <2>1, <3>1, <3>3, QuietStep DEF RoleRead, redis, history
  <2> QED
    BY <1>3, <2>2, <2>3 DEF RoleRead
<1> QED
  BY <1>1, <1>2, <1>3

LEMMA AuditWriteIInv ==
  ASSUME IInv, TypeOK', NEW p \in Handlers, AuditWrite(p)
  PROVE  IInv'
<1>1. /\ h[p].at = "audit"
      /\ h'[p].at = "idle" /\ h'[p].op = "none"
      /\ \A q \in Handlers \ {p} : h'[q] = h[q]
  BY FinishEffect DEF AuditWrite, IInv, TypeOK
<1>2. HandlerConsistent(p)'
  BY <1>1 DEF HandlerConsistent, AdminOps
<1> QED
  BY <1>1, <1>2, QuietStep DEF AuditWrite, redis, history

\* A handler that fails before it has revoked leaves the token in escaped.
LEMMA FailIInv ==
  ASSUME IInv, TypeOK', NEW p \in Handlers, Fail(p)
  PROVE  IInv'
<1> USE DEF redis, history
<1>1. /\ h'[p].at = "idle" /\ h'[p].op = "none"
      /\ \A q \in Handlers \ {p} : h'[q] = h[q]
  BY FinishEffect DEF Fail, IInv, TypeOK
<1>2. HandlerConsistent(p)'
  BY <1>1 DEF HandlerConsistent, AdminOps
<1>3. /\ escaped \subseteq escaped' /\ tracked' = tracked
      /\ h[p].at = "get" => tracked[h[p].user].jti \in escaped' \cup {NoJti}
      /\ h[p].at = "set" => h[p].jti \in escaped'
  BY DEF Fail
<1>4. ASSUME NEW u \in Users, RevocationPending(u), ~RevocationPending(u)'
      PROVE  tracked[u].jti \in escaped' \cup {NoJti}
  BY <1>1, <1>3, <1>4, PendingKept
<1> QED
  BY <1>1, <1>2, <1>3, <1>4, QuietStep DEF Fail

\* The handler that looked the tracked token up still holds it, unless the key
\* has expired, and then so has the token.
LEMMA RevokeGetIInv ==
  ASSUME IInv, TypeOK', NEW p \in Handlers, RevokeGet(p)
  PROVE  IInv'
<1> USE DEF redis, history
<1> DEFINE u == h[p].user
           j == tracked[u].jti
<1>0. /\ TypeOK /\ h \in [Handlers -> HandlerRecs] /\ u \in Users
      /\ j \in Jtis \cup {NoJti} /\ now \in Nat
      /\ tracked[u].until \in Nat
  BY DEF IInv, TypeOK, HandlerRecs, Keys
<1>1. /\ h[p].at = "get" /\ tracked' = tracked
      /\ h'[p].at = IF TrackedJti(u) = NoJti THEN "audit" ELSE "set"
      /\ h'[p].jti = TrackedJti(u)
      /\ h'[p].user = u /\ h'[p].op = h[p].op
      /\ \A q \in Handlers \ {p} : h'[q] = h[q]
  BY <1>0 DEF RevokeGet, HandlerRecs
<1>2. HandlerConsistent(p) /\ row' = row /\ claim' = claim /\ issued' = issued
  BY DEF RevokeGet, IInv
<1>3. TrackedJti(u) # NoJti => TrackedJti(u) = j /\ j \in Jtis /\ Minted(j)
  BY <1>0 DEF TrackedJti, IInv, KeyConsistent
<1>4. HandlerConsistent(p)'
  BY <1>1, <1>2, <1>3 DEF HandlerConsistent, AdminOps, Minted
<1>5. TrackedJti(u) = NoJti => j = NoJti \/ ~Accepted(j)
  <2>1. SUFFICES ASSUME j # NoJti, now >= tracked[u].until
                 PROVE  ~(now < claim[j].exp)
    BY <1>0 DEF TrackedJti, Accepted
  <2>2. claim[j].exp <= tracked[u].until /\ claim[j].exp \in Nat
    BY <1>0, <2>1 DEF IInv, KeyConsistent, TypeOK, Claims
  <2> QED
    BY <1>0, <2>1, <2>2
<1>6. ASSUME NEW v \in Users, RevocationPending(v), ~RevocationPending(v)'
      PROVE  tracked[v].jti = NoJti \/ ~Accepted(tracked[v].jti)
  <2>1. v = u
    BY <1>1, <1>6, PendingKept
  <2>2. TrackedJti(u) = NoJti
    BY <1>1, <1>3, <1>6, <2>1 DEF RevocationPending
  <2> QED
    BY <1>5, <2>1, <2>2
<1> QED
  BY <1>1, <1>4, <1>6, QuietStep DEF RevokeGet

\* The blacklist entry outlives the token.
LEMMA RevokeSetIInv ==
  ASSUME IInv, TypeOK', NEW p \in Handlers, RevokeSet(p)
  PROVE  IInv'
<1> USE DEF redis, history
<1> DEFINE j == h[p].jti
<1>0. /\ TypeOK /\ h \in [Handlers -> HandlerRecs] /\ j \in Jtis /\ Minted(j)
      /\ h[p].op \in AdminOps /\ h[p].at = "set" /\ now \in Nat
  BY DEF IInv, TypeOK, RevokeSet, HandlerConsistent
<1>1. /\ h'[p].at = "audit" /\ h'[p].op = h[p].op /\ h'[p].user = h[p].user
      /\ h'[p].jti = j
      /\ \A q \in Handlers \ {p} : h'[q] = h[q]
  BY <1>0, GotoEffect DEF RevokeSet
<1>2. /\ row' = row /\ claim' = claim /\ issued' = issued /\ tracked' = tracked
      /\ now' = now /\ granted' = granted /\ escaped' = escaped
      /\ denied'[j] = now + BlacklistTTL
      /\ \A k \in Jtis \ {j} : denied'[k] = denied[k]
  BY <1>0 DEF RevokeSet, TypeOK
<1>3. Progress
  BY <1>2 DEF Progress, Enlisted
<1>4. HandlerConsistent(p)'
  BY <1>0, <1>1, <1>2 DEF HandlerConsistent, IInv, AdminOps
<1>5. \A q \in Handlers : HandlerConsistent(q)'
  BY <1>0, <1>1, <1>3, <1>4, OtherHandler DEF IInv
<1>7. \A k \in Jtis : TokenConsistent(k)'
  <2>1. TokenConsistent(j) /\ claim[j].exp \in Nat
    BY <1>0 DEF IInv, TypeOK, Claims
  <2>2. ASSUME NEW k \in Jtis, k = j
        PROVE  TokenConsistent(k)'
    <3>1. claim[k].exp <= now + BlacklistTTL
      BY <1>0, <2>1, <2>2, AccountsAssumption DEF TokenConsistent
    <3> QED
      BY <1>0, <1>2, <2>1, <2>2, <3>1 DEF TokenConsistent, Minted
  <2>3. \A k \in Jtis \ {j} : TokenConsistent(k)'
    BY <1>2 DEF IInv, TokenConsistent, Minted
  <2> QED
    BY <2>2, <2>3
<1>8. \A v \in Users : KeyConsistent(v)'
  BY <1>0, <1>2, <1>3, KeyKept DEF IInv
<1>9. ASSUME NEW v \in Users
      PROVE  SessionConsistent(v)'
  <2>0. tracked[v].jti \in Jtis \cup {NoJti}
    BY <1>0 DEF TypeOK, Keys
  <2>1. CASE tracked[v].jti = NoJti
    BY <1>2, <2>1 DEF SessionConsistent, Accepted, Blacklisted
  <2>2. CASE tracked[v].jti \in Jtis
    <3> DEFINE k == tracked[v].jti
    <3>1. /\ k = j => ~(k \in issued' /\ now < claim[k].exp /\ ~(now < denied'[k]))
          /\ k \in issued' /\ now < claim[k].exp /\ ~(now < denied'[k])
             => k \in issued /\ now < claim[k].exp /\ ~(now < denied[k])
      BY <1>0, <1>2, <2>2, AccountsAssumption
    <3>2. Accepted(tracked[v].jti)' => Accepted(tracked[v].jti)
      BY <1>2, <3>1 DEF Accepted, Blacklisted
    <3>3. \/ RevocationPending(v) => RevocationPending(v)'
          \/ ~Accepted(tracked[v].jti)'
      BY <1>0, <1>1, <1>2, <3>1, PendingKept DEF Accepted, Blacklisted
    <3>4. /\ KeyConsistent(v) /\ SessionConsistent(v)
          /\ tracked'[v] = tracked[v] /\ escaped \subseteq escaped'
          /\ row'[v].role = row[v].role /\ row'[v].status = row[v].status
      BY <1>2 DEF IInv
    <3> QED
      BY <1>0, <1>3, <3>2, <3>3, <3>4, SessionKept
  <2> QED
    BY <2>0, <2>1, <2>2
<1>10. \A v \in Users : RowConsistent(v)'
  BY <1>2 DEF IInv, RowConsistent, Enlisted
<1> QED
  BY <1>5, <1>7, <1>8, <1>9, <1>10 DEF IInv

-----------------------------------------------------------------------------
\* The steps that write a row.
LEMMA RegisterInsertIInv ==
  ASSUME IInv, TypeOK', NEW p \in Handlers, RegisterInsert(p)
  PROVE  IInv'
<1> USE DEF redis, history
<1> DEFINE u == h[p].user
<1>0. /\ TypeOK /\ h \in [Handlers -> HandlerRecs] /\ u \in Users
      /\ row \in [Users -> Rows]
  BY DEF IInv, TypeOK, HandlerRecs
<1>1. /\ h[p].at = "write"
      /\ h'[p].at = "idle" /\ h'[p].op = "none"
      /\ \A q \in Handlers \ {p} : h'[q] = h[q]
  BY <1>0, FinishEffect DEF RegisterInsert, At
<1>2. /\ claim' = claim /\ issued' = issued /\ tracked' = tracked
      /\ denied' = denied /\ now' = now /\ granted' = granted /\ escaped' = escaped
  BY DEF RegisterInsert
<1>3. /\ \A v \in Users : v # u \/ row[u].status # "absent" => row'[v] = row[v]
      /\ row[u].status = "absent" => row'[u].status = "pending" /\ ~row'[u].password
  BY <1>0 DEF RegisterInsert, create_user, NewRow
<1>4. row[u].status = "absent" => ~row[u].password /\ tracked[u].jti = NoJti
  <2>1. row[u].status = "absent" => ~row[u].password
    BY <1>0 DEF IInv, RowConsistent, Enlisted
  <2>2. tracked[u].jti \in Jtis \cup {NoJti}
    BY <1>0 DEF TypeOK, Keys
  <2>3. tracked[u].jti # NoJti => row[u].password
    BY <1>0, <2>2 DEF IInv, KeyConsistent, TokenConsistent
  <2> QED
    BY <2>1, <2>3
<1>5. Progress
  <2>1. \A v \in Users : /\ row[v].password => row'[v].password
                         /\ Enlisted(v) => Enlisted(v)'
                         /\ row[v].status # "absent" => row'[v].status # "absent"
    BY <1>3, <1>4 DEF Enlisted
  <2> QED
    BY <1>2, <2>1 DEF Progress
<1>6. HandlerConsistent(p)'
  BY <1>1 DEF HandlerConsistent, AdminOps
<1>7. \A v \in Users : RowConsistent(v)'
  BY <1>2, <1>3 DEF IInv, RowConsistent, Enlisted
<1>8. ASSUME NEW v \in Users
      PROVE  \/ tracked[v].jti = NoJti
             \/ row'[v] = row[v] /\ (RevocationPending(v) => RevocationPending(v)')
  BY <1>1, <1>2, <1>3, <1>4, PendingKept
<1> QED
  BY <1>1, <1>2, <1>5, <1>6, <1>7, <1>8, RowStep

LEMMA ActivateWriteIInv ==
  ASSUME IInv, TypeOK', NEW p \in Handlers, ActivateWrite(p)
  PROVE  IInv'
<1> USE DEF redis, history
<1> DEFINE u == h[p].user
<1>0. /\ TypeOK /\ h \in [Handlers -> HandlerRecs] /\ u \in Users
      /\ row \in [Users -> Rows]
  BY DEF IInv, TypeOK, HandlerRecs
<1>1. /\ h[p].at = "write" /\ h[p].op = "activate"
      /\ h'[p].at = "idle" /\ h'[p].op = "none"
      /\ \A q \in Handlers \ {p} : h'[q] = h[q]
  BY <1>0, FinishEffect DEF ActivateWrite, At
<1>2. /\ claim' = claim /\ issued' = issued /\ tracked' = tracked
      /\ denied' = denied /\ now' = now /\ granted' = granted /\ escaped' = escaped
  BY DEF ActivateWrite
<1>3. /\ \A v \in Users \ {u} : row'[v] = row[v]
      /\ row'[u].status = "active" /\ row'[u].password /\ row'[u].role = row[u].role
  BY <1>0 DEF ActivateWrite, activate_user, Rows
<1>4. Enlisted(u) /\ row[u].role \in granted[u]
  BY <1>0, <1>1 DEF IInv, HandlerConsistent, RowConsistent
<1>5. Progress
  <2>1. \A v \in Users : /\ row[v].password => row'[v].password
                         /\ Enlisted(v) => Enlisted(v)'
                         /\ row[v].status # "absent" => row'[v].status # "absent"
    BY <1>3 DEF Enlisted
  <2> QED
    BY <1>2, <2>1 DEF Progress
<1>6. HandlerConsistent(p)'
  BY <1>1 DEF HandlerConsistent, AdminOps
<1>7. \A v \in Users : RowConsistent(v)'
  BY <1>2, <1>3, <1>4 DEF IInv, RowConsistent, Enlisted
<1>8. ASSUME NEW v \in Users
      PROVE  /\ row'[v].role = row[v].role
             /\ row'[v].status = "suspended" => row[v].status = "suspended"
             /\ RevocationPending(v) => RevocationPending(v)'
  BY <1>1, <1>2, <1>3, PendingKept
<1> QED
  BY <1>1, <1>2, <1>5, <1>6, <1>7, <1>8, RowStep

LEMMA ApproveWriteIInv ==
  ASSUME IInv, TypeOK', NEW p \in Handlers, NEW l \in Links, ApproveWrite(p, l)
  PROVE  IInv'
<1> USE DEF redis, history
<1> DEFINE u == h[p].user
<1>0. /\ TypeOK /\ h \in [Handlers -> HandlerRecs] /\ u \in Users
      /\ row \in [Users -> Rows] /\ granted \in [Users -> SUBSET Roles]
  BY DEF IInv, TypeOK, HandlerRecs
<1>1. /\ h[p].at = "write" /\ h[p].op = "approve"
      /\ h'[p].at = "audit" /\ h'[p].op = "approve" /\ h'[p].user = u
      /\ \A q \in Handlers \ {p} : h'[q] = h[q]
  BY <1>0, GotoEffect DEF ApproveWrite, At
<1>2. /\ claim' = claim /\ issued' = issued /\ tracked' = tracked
      /\ denied' = denied /\ now' = now
      /\ escaped \subseteq escaped' /\ tracked[u].jti \in escaped' \cup {NoJti}
  BY DEF ApproveWrite
<1>3. /\ \A v \in Users \ {u} : row'[v] = row[v] /\ granted'[v] = granted[v]
      /\ row'[u].status = "approved" /\ row'[u].password = row[u].password
      /\ row'[u].role = h[p].role /\ granted'[u] = granted[u] \cup {h[p].role}
  BY <1>0 DEF ApproveWrite, approve_user, Rows
<1>4. Progress
  <2>1. \A v \in Users : /\ row[v].password => row'[v].password
                         /\ Enlisted(v) => Enlisted(v)'
                         /\ row[v].status # "absent" => row'[v].status # "absent"
                         /\ granted[v] \subseteq granted'[v]
    BY <1>3 DEF Enlisted
  <2> QED
    BY <1>2, <2>1 DEF Progress
<1>5. HandlerConsistent(p)'
  BY <1>1, <1>2, <1>3 DEF IInv, HandlerConsistent, AdminOps
<1>6. \A v \in Users : RowConsistent(v)'
  BY <1>2, <1>3 DEF IInv, RowConsistent, Enlisted
<1>7. ASSUME NEW v \in Users
      PROVE  \/ tracked[v].jti \in escaped' \cup {NoJti}
             \/ row'[v] = row[v] /\ (RevocationPending(v) => RevocationPending(v)')
  BY <1>1, <1>2, <1>3, PendingKept
<1> QED
  BY <1>1, <1>2, <1>4, <1>5, <1>6, <1>7, RowStep

LEMMA SuspendWriteIInv ==
  ASSUME IInv, TypeOK', NEW p \in Handlers, SuspendWrite(p)
  PROVE  IInv'
<1> USE DEF redis, history
<1> DEFINE u == h[p].user
<1>0. /\ TypeOK /\ h \in [Handlers -> HandlerRecs] /\ u \in Users
      /\ row \in [Users -> Rows]
  BY DEF IInv, TypeOK, HandlerRecs
<1>1. /\ h[p].at = "write" /\ h[p].op = "suspend"
      /\ h'[p].at = "get" /\ h'[p].op = "suspend" /\ h'[p].user = u
      /\ \A q \in Handlers \ {p} : h'[q] = h[q]
  BY <1>0, GotoEffect DEF SuspendWrite, At
<1>2. /\ claim' = claim /\ issued' = issued /\ tracked' = tracked
      /\ denied' = denied /\ now' = now /\ granted' = granted /\ escaped' = escaped
  BY DEF SuspendWrite
<1>3. /\ \A v \in Users \ {u} : row'[v] = row[v]
      /\ row'[u].status = "suspended" /\ row'[u].password = row[u].password
      /\ row'[u].role = row[u].role
  BY <1>0 DEF SuspendWrite, update_user_status, Rows
<1>4. row[u].password /\ HandlerConsistent(p)
  BY <1>1 DEF IInv, HandlerConsistent
<1>5. Enlisted(u) /\ row[u].role \in granted[u]
  BY <1>0, <1>4 DEF IInv, RowConsistent
<1>6. Progress
  <2>1. \A v \in Users : /\ row[v].password => row'[v].password
                         /\ Enlisted(v) => Enlisted(v)'
                         /\ row[v].status # "absent" => row'[v].status # "absent"
    BY <1>3 DEF Enlisted
  <2> QED
    BY <1>2, <2>1 DEF Progress
<1>7. HandlerConsistent(p)'
  BY <1>1, <1>2, <1>3, <1>4 DEF HandlerConsistent, AdminOps
<1>8. \A v \in Users : RowConsistent(v)'
  BY <1>2, <1>3, <1>4, <1>5 DEF IInv, RowConsistent, Enlisted
<1>9. ASSUME NEW v \in Users
      PROVE  \/ RevocationPending(v)'
             \/ row'[v] = row[v] /\ (RevocationPending(v) => RevocationPending(v)')
  <2>1. CASE v = u
    BY <1>1, <2>1 DEF RevocationPending
  <2>2. CASE v # u
    BY <1>1, <1>2, <1>3, <2>2, PendingKept
  <2> QED
    BY <2>1, <2>2
<1> QED
  BY <1>1, <1>2, <1>6, <1>7, <1>8, <1>9, RowStep

LEMMA ReactivateWriteIInv ==
  ASSUME IInv, TypeOK', NEW p \in Handlers, ReactivateWrite(p)
  PROVE  IInv'
<1> USE DEF redis, history
<1> DEFINE u == h[p].user
<1>0. /\ TypeOK /\ h \in [Handlers -> HandlerRecs] /\ u \in Users
      /\ row \in [Users -> Rows]
  BY DEF IInv, TypeOK, HandlerRecs
<1>1. /\ h[p].at = "write" /\ h[p].op = "reactivate"
      /\ h'[p].at = "audit" /\ h'[p].op = "reactivate" /\ h'[p].user = u
      /\ \A q \in Handlers \ {p} : h'[q] = h[q]
  BY <1>0, GotoEffect DEF ReactivateWrite, At
<1>2. /\ claim' = claim /\ issued' = issued /\ tracked' = tracked
      /\ denied' = denied /\ now' = now /\ granted' = granted /\ escaped' = escaped
  BY DEF ReactivateWrite
<1>3. /\ \A v \in Users \ {u} : row'[v] = row[v]
      /\ row'[u].status = "active" /\ row'[u].password = row[u].password
      /\ row'[u].role = row[u].role
  BY <1>0 DEF ReactivateWrite, update_user_status, Rows
<1>4. row[u].password /\ HandlerConsistent(p)
  BY <1>1 DEF IInv, HandlerConsistent
<1>5. Enlisted(u) /\ row[u].role \in granted[u]
  BY <1>0, <1>4 DEF IInv, RowConsistent
<1>6. Progress
  <2>1. \A v \in Users : /\ row[v].password => row'[v].password
                         /\ Enlisted(v) => Enlisted(v)'
                         /\ row[v].status # "absent" => row'[v].status # "absent"
    BY <1>3 DEF Enlisted
  <2> QED
    BY <1>2, <2>1 DEF Progress
<1>7. HandlerConsistent(p)'
  BY <1>1, <1>2, <1>3, <1>4 DEF HandlerConsistent, AdminOps
<1>8. \A v \in Users : RowConsistent(v)'
  BY <1>2, <1>3, <1>4, <1>5 DEF IInv, RowConsistent, Enlisted
<1>9. ASSUME NEW v \in Users
      PROVE  /\ row'[v].role = row[v].role
             /\ row'[v].status = "suspended" => row[v].status = "suspended"
             /\ RevocationPending(v) => RevocationPending(v)'
  BY <1>1, <1>2, <1>3, PendingKept
<1> QED
  BY <1>1, <1>2, <1>6, <1>7, <1>8, <1>9, RowStep

LEMMA RoleWriteIInv ==
  ASSUME IInv, TypeOK', NEW p \in Handlers, RoleWrite(p)
  PROVE  IInv'
<1> USE DEF redis, history
<1> DEFINE u == h[p].user
<1>0. /\ TypeOK /\ h \in [Handlers -> HandlerRecs] /\ u \in Users
      /\ row \in [Users -> Rows] /\ granted \in [Users -> SUBSET Roles]
  BY DEF IInv, TypeOK, HandlerRecs
<1>1. /\ h[p].at = "write" /\ h[p].op = "role_change"
      /\ h'[p].at = "get" /\ h'[p].op = "role_change" /\ h'[p].user = u
      /\ \A q \in Handlers \ {p} : h'[q] = h[q]
  BY <1>0, GotoEffect DEF RoleWrite, At
<1>2. /\ claim' = claim /\ issued' = issued /\ tracked' = tracked
      /\ denied' = denied /\ now' = now /\ escaped' = escaped
  BY DEF RoleWrite
<1>3. /\ \A v \in Users \ {u} : row'[v] = row[v] /\ granted'[v] = granted[v]
      /\ row'[u].status = row[u].status /\ row'[u].password = row[u].password
      /\ row'[u].role = h[p].role /\ granted'[u] = granted[u] \cup {h[p].role}
  BY <1>0 DEF RoleWrite, update_user_role, Rows
<1>4. HandlerConsistent(p)
  BY DEF IInv
<1>5. Progress
  <2>1. \A v \in Users : /\ row[v].password => row'[v].password
                         /\ Enlisted(v) => Enlisted(v)'
                         /\ row[v].status # "absent" => row'[v].status # "absent"
                         /\ granted[v] \subseteq granted'[v]
    BY <1>3 DEF Enlisted
  <2> QED
    BY <1>2, <2>1 DEF Progress
<1>6. HandlerConsistent(p)'
  BY <1>1, <1>2, <1>3, <1>4 DEF HandlerConsistent, AdminOps
<1>7. \A v \in Users : RowConsistent(v)'
  BY <1>2, <1>3 DEF IInv, RowConsistent, Enlisted
<1>8. ASSUME NEW v \in Users
      PROVE  \/ RevocationPending(v)'
             \/ row'[v] = row[v] /\ (RevocationPending(v) => RevocationPending(v)')
  <2>1. CASE v = u
    BY <1>1, <2>1 DEF RevocationPending
  <2>2. CASE v # u
    BY <1>1, <1>2, <1>3, <2>2, PendingKept
  <2> QED
    BY <2>1, <2>2
<1> QED
  BY <1>1, <1>2, <1>5, <1>6, <1>7, <1>8, RowStep

\* The new tracked token agrees with the row, or the login was overtaken.
LEMMA LoginStoreIInv ==
  ASSUME IInv, TypeOK', NEW p \in Handlers, LoginStore(p)
  PROVE  IInv'
<1> USE DEF redis, history
<1> DEFINE u == h[p].user
           j == h[p].jti
<1>0. /\ TypeOK /\ h \in [Handlers -> HandlerRecs] /\ u \in Users
      /\ tracked \in [Users -> Keys] /\ claim \in [Jtis -> Claims] /\ now \in Nat
  BY DEF IInv, TypeOK, HandlerRecs
<1>1. /\ h[p].at = "write" /\ h[p].op = "login"
      /\ h'[p].at = "idle" /\ h'[p].op = "none"
      /\ \A q \in Handlers \ {p} : h'[q] = h[q]
  BY <1>0, FinishEffect DEF LoginStore, At
<1>2. /\ row' = row /\ claim' = claim /\ denied' = denied /\ now' = now
      /\ granted' = granted /\ issued' = issued \cup {j}
      /\ escaped' = IF row[u].status = "active" /\ row[u].role = h[p].role
                    THEN escaped ELSE escaped \cup {j}
      /\ \A v \in Users \ {u} : tracked'[v] = tracked[v]
      /\ tracked'[u] = [jti |-> j, until |-> now + BlacklistTTL]
  BY <1>0 DEF LoginStore
<1>3. /\ j \in Jtis /\ Minted(j) /\ claim[j].user = u /\ claim[j].role = h[p].role
  BY <1>1 DEF IInv, HandlerConsistent
<1>4. Progress
  BY <1>2 DEF Progress, Enlisted
<1>5. HandlerConsistent(p)'
  BY <1>1 DEF HandlerConsistent, AdminOps
<1>6. \A q \in Handlers : HandlerConsistent(q)'
  BY <1>0, <1>1, <1>4, <1>5, OtherHandler DEF IInv
<1>7. \A k \in Jtis : TokenConsistent(k)'
  BY <1>2, <1>3 DEF IInv, TokenConsistent, Minted
<1>8. \A v \in Users : RowConsistent(v)'
  BY <1>2 DEF IInv, RowConsistent, Enlisted
<1>9. ASSUME NEW v \in Users
      PROVE  KeyConsistent(v)' /\ SessionConsistent(v)'
  <2>1. CASE v = u
    <3>1. tracked'[v].jti = j /\ tracked'[v].until = now + BlacklistTTL
      BY <1>2, <2>1
    <3>2. claim[j].exp <= now + BlacklistTTL
      <4>1. claim[j].exp <= now + JwtTTL /\ claim[j].exp \in Nat
        BY <1>0, <1>3 DEF IInv, TokenConsistent, Claims
      <4> QED
        BY <1>0, <4>1, AccountsAssumption
    <3>3. KeyConsistent(v)'
      BY <1>2, <1>3, <2>1, <3>1, <3>2 DEF KeyConsistent, Minted
    <3>4. SessionConsistent(v)'
      BY <1>2, <1>3, <2>1, <3>1 DEF SessionConsistent
    <3> QED
      BY <3>3, <3>4
  <2>2. CASE v # u
    <3>1. KeyConsistent(v) /\ SessionConsistent(v) /\ tracked'[v] = tracked[v]
      BY <1>2, <2>2 DEF IInv
    <3>2. KeyConsistent(v)'
      BY <1>0, <1>4, <3>1, KeyKept
    <3>3. tracked[v].jti # NoJti => tracked[v].jti # j
      BY <1>3, <2>2, <3>1 DEF KeyConsistent
    <3>4. RevocationPending(v) => RevocationPending(v)'
      BY <1>1, <3>1, PendingKept
    <3>5. CASE tracked[v].jti = NoJti
      BY <3>1, <3>2, <3>5 DEF SessionConsistent, Accepted, Blacklisted
    <3>6. CASE tracked[v].jti # NoJti
      <4>1. Accepted(tracked[v].jti)' => Accepted(tracked[v].jti)
        BY <1>2, <3>1, <3>3, <3>6 DEF Accepted, Blacklisted
      <4>2. /\ escaped \subseteq escaped'
            /\ row'[v].role = row[v].role /\ row'[v].status = row[v].status
        BY <1>2
      <4> QED
        BY <1>0, <1>4, <3>1, <3>2, <3>4, <4>1, <4>2, SessionKept
    <3> QED
      BY <3>2, <3>5, <3>6
  <2> QED
    BY <2>1, <2>2
<1> QED
  BY <1>6, <1>7, <1>8, <1>9 DEF IInv

-----------------------------------------------------------------------------
LEMMA ServeIInv ==
  ASSUME IInv, NEW p \in Handlers, Serve(p)
  PROVE  IInv'
<1>1. TypeOK'
  BY ServeTypeOK DEF IInv
<1> QED
  BY <1>1, RegisterInsertIInv, LoginStoreIInv, ActivateWriteIInv, ApproveWriteIInv,
     CheckIInv, SuspendWriteIInv, ReactivateWriteIInv, RoleWriteIInv, RevokeGetIInv,
     RevokeSetIInv, AuditWriteIInv
  DEF Serve

\* Time passes: a blacklist entry expires no earlier than its token.
LEMMA TickIInv ==
  ASSUME IInv, Tick
  PROVE  IInv'
<1> USE DEF redis, history
<1>0. TypeOK /\ TypeOK'
  BY TickTypeOK DEF IInv
<1>1. /\ row' = row /\ claim' = claim /\ issued' = issued /\ tracked' = tracked
      /\ denied' = denied /\ h' = h /\ granted' = granted /\ escaped' = escaped
      /\ now' = now + 1 /\ now \in Nat
  BY <1>0 DEF Tick, TypeOK
<1>2. Progress
  BY <1>1 DEF Progress, Enlisted
<1>3. \A q \in Handlers : HandlerConsistent(q)'
  BY <1>0, <1>1, <1>2, OtherHandler DEF IInv
<1>4. ASSUME NEW k \in Jtis
      PROVE  TokenConsistent(k)'
  <2>1. TokenConsistent(k) /\ claim[k].exp \in Nat /\ JwtTTL \in Nat
    BY <1>0, AccountsAssumption DEF IInv, TypeOK, Claims
  <2> QED
    BY <1>1, <2>1 DEF TokenConsistent, Minted
<1>5. \A u \in Users : RowConsistent(u)'
  BY <1>1 DEF IInv, RowConsistent, Enlisted
<1>6. ASSUME NEW u \in Users
      PROVE  KeyConsistent(u)' /\ SessionConsistent(u)'
  <2>0. tracked[u].jti \in Jtis \cup {NoJti}
    BY <1>0 DEF TypeOK, Keys
  <2>1. KeyConsistent(u)'
    BY <1>0, <1>1, <1>2, KeyKept DEF IInv
  <2>2. CASE tracked[u].jti = NoJti
    BY <1>1, <2>1, <2>2 DEF SessionConsistent, Accepted, Blacklisted
  <2>3. CASE tracked[u].jti \in Jtis
    <3> DEFINE k == tracked[u].jti
    <3>1. /\ claim[k].exp \in Nat /\ denied[k] \in Nat
          /\ denied[k] # 0 => claim[k].exp <= denied[k]
      BY <1>0, <2>3 DEF IInv, TokenConsistent, TypeOK, Claims
    <3>2. k \in issued /\ now + 1 < claim[k].exp /\ ~(now + 1 < denied[k])
            => now < claim[k].exp /\ ~(now < denied[k])
      BY <1>1, <3>1
    <3>3. Accepted(tracked[u].jti)' => Accepted(tracked[u].jti)
      BY <1>1, <3>2 DEF Accepted, Blacklisted
    <3>4. RevocationPending(u) => RevocationPending(u)'
      BY <1>1 DEF RevocationPending
    <3>5. KeyConsistent(u) /\ SessionConsistent(u)
      BY DEF IInv
    <3> QED
      BY <1>0, <1>1, <1>2, <2>1, <3>3, <3>4, <3>5, SessionKept
  <2> QED
    BY <2>0, <2>2, <2>3
<1> QED
  BY <1>0, <1>3, <1>4, <1>5, <1>6 DEF IInv

LEMMA InitIInv == Init => IInv
<1> SUFFICES ASSUME Init
             PROVE  IInv
  OBVIOUS
<1> USE AccountsAssumption
<1>1. TypeOK
  BY InitTypeOK
<1>2. ASSUME NEW u \in Users
      PROVE  RowConsistent(u) /\ KeyConsistent(u) /\ SessionConsistent(u)
  <2>1. RowConsistent(u)
    BY DEF Init, NewRow, RowConsistent, Enlisted
  <2>2. tracked[u].jti = NoJti
    BY DEF Init
  <2> QED
    BY <2>1, <2>2 DEF KeyConsistent, SessionConsistent
<1>3. \A p \in Handlers : HandlerConsistent(p)
  BY DEF Init, HandlerConsistent, Idle, Handler, AdminOps
<1>4. ASSUME NEW j \in Jtis
      PROVE  TokenConsistent(j)
  <2>1. claim[j].exp = 0 /\ denied[j] = 0 /\ now = 0 /\ j \notin issued
    BY DEF Init
  <2>2. JwtTTL \in Nat
    OBVIOUS
  <2> QED
    BY <2>1, <2>2 DEF TokenConsistent, Minted
<1> QED
  BY <1>1, <1>2, <1>3, <1>4 DEF IInv

LEMMA StutterIInv == IInv /\ UNCHANGED vars => IInv'
<1> SUFFICES ASSUME IInv, UNCHANGED vars
             PROVE  IInv'
  OBVIOUS
<1> USE DEF vars, redis, history
<1>1. TypeOK'
  BY DEF IInv, TypeOK
<1>2. Progress
  BY DEF Progress, Enlisted
<1>3. \A u \in Users : RowConsistent(u)' /\ KeyConsistent(u)' /\ SessionConsistent(u)'
  BY DEF IInv, RowConsistent, KeyConsistent, SessionConsistent, Enlisted, Minted,
         RevocationPending, Accepted, Blacklisted
<1>4. \A p \in Handlers : HandlerConsistent(p)'
  BY <1>1, <1>2, OtherHandler DEF IInv
<1>5. \A j \in Jtis : TokenConsistent(j)'
  BY DEF IInv, TokenConsistent, Minted
<1> QED
  BY <1>1, <1>3, <1>4, <1>5 DEF IInv

LEMMA NextIInv == IInv /\ [Next]_vars => IInv'
<1> SUFFICES ASSUME IInv, [Next]_vars
             PROVE  IInv'
  OBVIOUS
<1>1. ASSUME NEW p \in Handlers, Fail(p)
      PROVE  IInv'
  BY <1>1, FailTypeOK, FailIInv DEF IInv
<1> QED
  BY <1>1, ArriveIInv, ServeIInv, TickIInv, StutterIInv DEF Next

\* The inductive invariant holds in every reachable state: what a handler read
\* before an await is still true enough when it writes, a tracked token agrees
\* with its account or a revocation of it is under way, and a blacklist entry
\* outlives its token.
THEOREM InductiveInvariant == Spec => []IInv
BY InitIInv, NextIInv, PTL DEF Spec

\* TypeOK, of every interleaving of the handlers in auth.py.
THEOREM TypeCorrect == Spec => []TypeOK
<1>1. IInv => TypeOK
  BY DEF IInv
<1> QED
  BY <1>1, InductiveInvariant, PTL

\* The session Redis tracks for an account agrees with the account
\* (TrackedSessionMatchesAccount), for any number of requests and tokens.
THEOREM SessionsMatch == Spec => []TrackedSessionMatchesAccount
<1>1. IInv => TrackedSessionMatchesAccount
  <2> SUFFICES ASSUME IInv, NEW u \in Users, ~Revoking(u)
               PROVE  LET j == tracked[u].jti IN
                        (j # NoJti /\ j \notin escaped /\ Accepted(j))
                          => claim[j].role = row[u].role /\ row[u].status # "suspended"
    BY DEF TrackedSessionMatchesAccount
  <2>1. ~RevocationPending(u)
    BY DEF Revoking, RevocationPending
  <2> QED
    BY <2>1 DEF IInv, SessionConsistent
<1> QED
  BY <1>1, InductiveInvariant, PTL

-----------------------------------------------------------------------------
\* Which steps touch a token, its blacklist entry or the clock.
LEMMA TokenSteps ==
  ASSUME Next
  PROVE  \/ UNCHANGED <<claim, denied, now>>
         \/ \E p \in Handlers, u \in Users, j \in Jtis : LoginRead(p, u, j)
         \/ \E p \in Handlers : RevokeSet(p)
         \/ Tick
<1> USE DEF redis, history
<1>1. ASSUME NEW p \in Handlers, Arrive(p)
      PROVE  \/ UNCHANGED <<claim, denied, now>>
             \/ \E u \in Users, j \in Jtis : LoginRead(p, u, j)
  BY <1>1 DEF Arrive, RegisterCheck, ActivateRead, AdminRequest
<1>2. ASSUME NEW p \in Handlers, Serve(p)
      PROVE  UNCHANGED <<claim, denied, now>> \/ RevokeSet(p)
  BY <1>2 DEF Serve, RegisterInsert, LoginStore, ActivateWrite, ApproveWrite, StatusRead,
              StatusRefused, SuspendWrite, ReactivateWrite, RoleRead, RoleWrite, RevokeGet,
              AuditWrite
<1>3. ASSUME NEW p \in Handlers, Fail(p)
      PROVE  UNCHANGED <<claim, denied, now>>
  BY <1>3 DEF Fail
<1> QED
  BY <1>1, <1>2, <1>3 DEF Next

\* A rejected token is rejected for good (RejectedForGood): whatever the lives
\* of tokens and of blacklist entries, if the latter are no shorter.
THEOREM Rejected == Spec => RejectedForGood
<1>1. ASSUME IInv, [Next]_vars, NEW j \in issued, Accepted(j)'
      PROVE  Accepted(j)
  <2>0. /\ TypeOK /\ TypeOK' /\ j \in Jtis /\ now \in Nat
        /\ claim[j].exp \in Nat /\ denied[j] \in Nat
        /\ Minted(j) /\ (denied[j] # 0 => claim[j].exp <= denied[j])
    BY <1>1, NextIInv DEF IInv, TypeOK, Claims, TokenConsistent
  <2>1. /\ now' < claim'[j].exp /\ ~(now' < denied'[j])
    BY <1>1 DEF Accepted, Blacklisted
  <2>2. SUFFICES now < claim[j].exp /\ ~(now < denied[j])
    BY DEF Accepted, Blacklisted
  <2>3. CASE UNCHANGED <<claim, denied, now>>
    BY <2>1, <2>3
  <2>4. ASSUME NEW p \in Handlers, NEW u \in Users, NEW k \in Jtis, LoginRead(p, u, k)
        PROVE  now < claim[j].exp /\ ~(now < denied[j])
    <3>1. k # j
      BY <2>0, <2>4 DEF LoginRead, Minted
    <3>2. claim'[j] = claim[j] /\ denied' = denied /\ now' = now
      BY <2>0, <2>4, <3>1 DEF LoginRead, redis, TypeOK
    <3> QED
      BY <2>1, <3>2
  <2>5. ASSUME NEW p \in Handlers, RevokeSet(p)
        PROVE  now < claim[j].exp /\ ~(now < denied[j])
    <3>1. claim' = claim /\ now' = now /\ denied'[j] \in {denied[j], now + BlacklistTTL}
      BY <2>0, <2>5 DEF RevokeSet, TypeOK
    <3>2. now < now + BlacklistTTL
      BY <2>0, AccountsAssumption
    <3> QED
      BY <2>1, <3>1, <3>2
  <2>6. CASE Tick
    <3>1. claim' = claim /\ denied' = denied /\ now' = now + 1
      BY <2>6 DEF Tick, redis
    <3> QED
      BY <2>0, <2>1, <3>1
  <2> QED
    BY <1>1, <2>3, <2>4, <2>5, <2>6, TokenSteps DEF vars
<1>2. IInv /\ [Next]_vars => [\A j \in issued : ~Accepted(j) => ~Accepted(j)']_vars
  BY <1>1
<1> QED
  BY <1>2, InductiveInvariant, PTL DEF Spec, RejectedForGood

-----------------------------------------------------------------------------
\* A handler that has to audit what it did still has to, or it or a failure of
\* it is on record; the other handlers do not move.
LEMMA AuditKept ==
  ASSUME TypeOK, NEW p \in Handlers, Arrive(p) \/ Serve(p) \/ Fail(p)
  PROVE  /\ \A q \in Handlers \ {p} : h'[q] = h[q]
         /\ audit \subseteq audit' /\ lost \subseteq lost'
         /\ h[p].at \in {"get", "set", "audit"} =>
              \/ <<h[p].op, h[p].user>> \in audit' \cup lost'
              \/ /\ h'[p].op = h[p].op /\ h'[p].user = h[p].user
                 /\ h'[p].at \in {"get", "set", "audit"}
<1> USE DEF redis, history
<1>0. h \in [Handlers -> HandlerRecs]
  BY DEF TypeOK
<1>1. CASE Arrive(p)
  <2>1. audit' = audit /\ lost' = lost
    BY <1>1 DEF Arrive, RegisterCheck, LoginRead, ActivateRead, AdminRequest
  <2>2. \E rec : Start(p, rec)
    BY <1>1 DEF Arrive, RegisterCheck, LoginRead, ActivateRead, AdminRequest
  <2>3. h[p].at = "idle" /\ \A q \in Handlers \ {p} : h'[q] = h[q]
    BY <1>0, <2>2 DEF Start, Idle, Handler
  <2> QED
    BY <2>1, <2>3
<1>2. CASE RegisterInsert(p) \/ LoginStore(p) \/ ActivateWrite(p) \/ StatusRefused(p)
  <2>1. audit' = audit /\ lost' = lost /\ Finish(p) /\ h[p].at \in {"write", "read"}
    BY <1>2 DEF RegisterInsert, LoginStore, ActivateWrite, StatusRefused, At
  <2> QED
    BY <1>0, <2>1, FinishEffect
<1>3. CASE RoleRead(p) \/ StatusRead(p) \/ SuspendWrite(p) \/ ReactivateWrite(p) \/ RoleWrite(p)
           \/ \E l \in Links : ApproveWrite(p, l)
  <2>1. audit' = audit /\ lost' = lost /\ h[p].at \in {"write", "read"}
    BY <1>3 DEF RoleRead, StatusRead, SuspendWrite, ReactivateWrite, RoleWrite, ApproveWrite, At
  <2>2. Finish(p) \/ \E stage : Goto(p, stage)
    BY <1>3 DEF RoleRead, StatusRead, SuspendWrite, ReactivateWrite, RoleWrite, ApproveWrite
  <2> QED
    BY <1>0, <2>1, <2>2, FinishEffect, GotoEffect
<1>4. CASE RevokeGet(p)
  <2>1. audit' = audit /\ lost' = lost
    BY <1>4 DEF RevokeGet
  <2>2. /\ \A q \in Handlers \ {p} : h'[q] = h[q]
        /\ h'[p].op = h[p].op /\ h'[p].user = h[p].user /\ h'[p].at \in {"set", "audit"}
    BY <1>0, <1>4 DEF RevokeGet, HandlerRecs
  <2> QED
    BY <2>1, <2>2
<1>5. CASE RevokeSet(p)
  <2>1. audit' = audit /\ lost' = lost /\ Goto(p, "audit")
    BY <1>5 DEF RevokeSet
  <2> QED
    BY <1>0, <2>1, GotoEffect
<1>6. CASE AuditWrite(p)
  <2>1. lost' = lost /\ audit' = audit \cup {<<h[p].op, h[p].user>>} /\ Finish(p)
    BY <1>6 DEF AuditWrite
  <2> QED
    BY <1>0, <2>1, FinishEffect
<1>7. CASE Fail(p)
  <2>1. /\ audit' = audit /\ lost \subseteq lost' /\ Finish(p)
        /\ h[p].at \in {"get", "set", "audit"} => <<h[p].op, h[p].user>> \in lost'
    BY <1>7 DEF Fail
  <2> QED
    BY <1>0, <2>1, FinishEffect
<1> QED
  BY <1>1, <1>2, <1>3, <1>4, <1>5, <1>6, <1>7 DEF Serve

\* Who takes an account past "pending", and who suspends it.
LEMMA StatusWrites ==
  ASSUME IInv, NEW p \in Handlers, Arrive(p) \/ Serve(p) \/ Fail(p), NEW u \in Users
  PROVE  /\ Enlisted(u)' => Enlisted(u) \/ (h'[p].op = "approve" /\ h'[p].user = u /\ h'[p].at = "audit")
         /\ row'[u].status = "suspended" =>
              \/ row[u].status = "suspended"
              \/ h'[p].op = "suspend" /\ h'[p].user = u /\ h'[p].at = "get"
<1> USE DEF redis, history
<1> DEFINE v == h[p].user
<1>0. /\ h \in [Handlers -> HandlerRecs] /\ row \in [Users -> Rows] /\ v \in Users
      /\ HandlerConsistent(p) /\ RowConsistent(v)
  BY DEF IInv, TypeOK, HandlerRecs
<1>1. CASE RegisterInsert(p)
  <2>1. row' = row \/ row' = [row EXCEPT ![v] = NewRow("pending", h[p].role, FALSE)]
    BY <1>1 DEF RegisterInsert, create_user
  <2>2. row' = row \/ row'[v].status = "pending"
    BY <1>0, <2>1 DEF NewRow
  <2>3. u # v => row'[u] = row[u]
    BY <1>0, <2>1
  <2> QED
    BY <2>2, <2>3 DEF Enlisted
<1>2. CASE ActivateWrite(p)
  <2>1. Enlisted(v)
    BY <1>0, <1>2 DEF ActivateWrite, HandlerConsistent, At
  <2>2. row'[v].status = "active" /\ (u # v => row'[u] = row[u])
    BY <1>0, <1>2 DEF ActivateWrite, activate_user, Rows
  <2> QED
    BY <2>1, <2>2 DEF Enlisted
<1>3. ASSUME NEW l \in Links, ApproveWrite(p, l)
      PROVE  /\ u # v => row'[u] = row[u]
             /\ row'[v].status = "approved"
             /\ h'[p].op = "approve" /\ h'[p].user = v /\ h'[p].at = "audit"
  <2>1. row'[v].status = "approved" /\ (u # v => row'[u] = row[u])
    BY <1>0, <1>3 DEF ApproveWrite, approve_user, Rows
  <2>2. h[p].op = "approve" /\ Goto(p, "audit")
    BY <1>3 DEF ApproveWrite, At
  <2> QED
    BY <1>0, <2>1, <2>2, GotoEffect
<1>4. CASE SuspendWrite(p)
  <2>1. row'[v].status = "suspended" /\ (u # v => row'[u] = row[u])
    BY <1>0, <1>4 DEF SuspendWrite, update_user_status, Rows
  <2>2. h[p].op = "suspend" /\ h[p].at = "write" /\ Goto(p, "get")
    BY <1>4 DEF SuspendWrite, At
  <2>3. Enlisted(v)
    BY <1>0, <2>2 DEF HandlerConsistent, RowConsistent
  <2> QED
    BY <1>0, <2>1, <2>2, <2>3, GotoEffect DEF Enlisted
<1>5. CASE ReactivateWrite(p)
  <2>1. row'[v].status = "active" /\ (u # v => row'[u] = row[u])
    BY <1>0, <1>5 DEF ReactivateWrite, update_user_status, Rows
  <2>2. Enlisted(v)
    BY <1>0, <1>5 DEF ReactivateWrite, At, HandlerConsistent, RowConsistent
  <2> QED
    BY <2>1, <2>2 DEF Enlisted
<1>6. CASE RoleWrite(p)
  <2>1. row'[u].status = row[u].status
    BY <1>0, <1>6 DEF RoleWrite, update_user_role, Rows
  <2> QED
    BY <2>1 DEF Enlisted
<1>7. CASE row' = row
  BY <1>7 DEF Enlisted
<1>8. Arrive(p) \/ Fail(p) => row' = row
  BY DEF Arrive, RegisterCheck, LoginRead, ActivateRead, AdminRequest, Fail
<1>9. LoginStore(p) \/ StatusRead(p) \/ StatusRefused(p) \/ RoleRead(p) \/ RevokeGet(p)
        \/ RevokeSet(p) \/ AuditWrite(p) => row' = row
  BY DEF LoginStore, StatusRead, StatusRefused, RoleRead, RevokeGet, RevokeSet, AuditWrite
<1>10. ASSUME NEW l \in Links, ApproveWrite(p, l)
       PROVE  /\ Enlisted(u)' => Enlisted(u) \/ (h'[p].op = "approve" /\ h'[p].user = u /\ h'[p].at = "audit")
              /\ row'[u].status = "suspended" => row[u].status = "suspended"
  BY <1>3, <1>10 DEF Enlisted
<1> QED
  BY <1>1, <1>2, <1>4, <1>5, <1>6, <1>7, <1>8, <1>9, <1>10 DEF Serve

\* What was to be recorded is, or will be, or was lost by a failure.
LEMMA RecordedKept ==
  ASSUME TypeOK, [Next]_vars, NEW op, NEW u, Recorded(op, u)
  PROVE  Recorded(op, u)'
<1>1. CASE Tick \/ UNCHANGED vars
  BY <1>1 DEF Tick, vars, history, Recorded
<1>2. ASSUME NEW p \in Handlers, Arrive(p) \/ Serve(p) \/ Fail(p)
      PROVE  Recorded(op, u)'
  <2>1. /\ \A q \in Handlers \ {p} : h'[q] = h[q]
        /\ audit \subseteq audit' /\ lost \subseteq lost'
        /\ h[p].at \in {"get", "set", "audit"} =>
             \/ <<h[p].op, h[p].user>> \in audit' \cup lost'
             \/ /\ h'[p].op = h[p].op /\ h'[p].user = h[p].user
                /\ h'[p].at \in {"get", "set", "audit"}
    BY <1>2, AuditKept
  <2>2. CASE <<op, u>> \in audit \cup lost
    BY <2>1, <2>2 DEF Recorded
  <2>3. ASSUME NEW q \in Handlers, h[q].op = op, h[q].user = u, h[q].at \in {"get", "set", "audit"}
        PROVE  Recorded(op, u)'
    <3>1. CASE q = p
      BY <2>1, <2>3, <3>1 DEF Recorded
    <3>2. CASE q # p
      BY <2>1, <2>3, <3>2 DEF Recorded
    <3> QED
      BY <3>1, <3>2
  <2> QED
    BY <2>2, <2>3 DEF Recorded
<1> QED
  BY <1>1, <1>2 DEF Next

\* The audit trail is complete (AuditTrail): whoever is past "pending" has an
\* approval, and whoever is suspended a suspension, in admin_audit_log, or on the
\* way to it, or lost by a failure; approve_user, update_user_status and
\* _audit_log of auth.py, for any interleaving of requests.
THEOREM Audited == Spec => []AuditTrail
<1>1. Init => AuditTrail
  BY DEF Init, NewRow, AuditTrail
<1>2. IInv /\ AuditTrail /\ [Next]_vars => AuditTrail'
  <2> SUFFICES ASSUME IInv, AuditTrail, [Next]_vars, NEW u \in Users
               PROVE  /\ u # Admin /\ Enlisted(u)' => Recorded("approve", u)'
                      /\ row'[u].status = "suspended" => Recorded("suspend", u)'
    BY DEF AuditTrail, Enlisted
  <2>1. /\ u # Admin /\ Enlisted(u) => Recorded("approve", u)'
        /\ row[u].status = "suspended" => Recorded("suspend", u)'
    BY RecordedKept DEF AuditTrail, Enlisted, IInv
  <2>2. CASE Tick \/ UNCHANGED vars
    BY <2>1, <2>2 DEF Tick, vars, Enlisted
  <2>3. ASSUME NEW p \in Handlers, Arrive(p) \/ Serve(p) \/ Fail(p)
        PROVE  /\ u # Admin /\ Enlisted(u)' => Recorded("approve", u)'
               /\ row'[u].status = "suspended" => Recorded("suspend", u)'
    <3>1. /\ Enlisted(u)' => Enlisted(u) \/ (h'[p].op = "approve" /\ h'[p].user = u /\ h'[p].at = "audit")
          /\ row'[u].status = "suspended" =>
               \/ row[u].status = "suspended"
               \/ h'[p].op = "suspend" /\ h'[p].user = u /\ h'[p].at = "get"
      BY <2>3, StatusWrites
    <3> QED
      BY <2>1, <3>1 DEF Recorded
  <2> QED
    BY <2>2, <2>3 DEF Next
<1> QED
  BY <1>1, <1>2, InductiveInvariant, PTL DEF Spec
=============================================================================
