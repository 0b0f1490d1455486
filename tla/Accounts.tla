------------------------------ MODULE Accounts ------------------------------
(***************************************************************************)
(* Judicial staff accounts of the API: registration, approval, activation, *)
(* login, suspension and role change (services/api/app/routes/auth.py),    *)
(* the users table (memory/user_repository.py) and the Redis token         *)
(* blacklist (auth/blacklist.py, auth/jwt.py).                             *)
(*                                                                         *)
(* Every `await' of a handler is a point where other requests, of the same *)
(* uvicorn worker or of another one, may run.  A handler is therefore one  *)
(* action per stage, and a record in h keeps what it read across awaits.   *)
(***************************************************************************)
EXTENDS Naturals, FiniteSets

CONSTANTS
  Users,         \* accounts; an account stands for a username and its email
  Admin,         \* the account startup.seed_admin creates
  Targets,       \* bound: accounts administrators act on
  Roles,         \* _VALID_ROLES
  AdminRole,     \* "admin"
  Handlers,      \* requests the API can be serving at one time
  Jtis,          \* uuid4 values login draws
  NoJti,
  Links,         \* uuid4 values approve_user draws (activation tokens)
  NoLink,
  JwtTTL,        \* life of a token, in ticks (8 hours)
  BlacklistTTL,  \* TOKEN_BLACKLIST_TTL_SECONDS
  LinkTTL,       \* ACTIVATION_TOKEN_TTL_DAYS
  MaxTime,       \* bound: last tick of the clock
  MaxFaults      \* bound: failing calls to Redis or PostgreSQL

ASSUME AccountsAssumption ==
  /\ Admin \in Users
  /\ Targets \subseteq Users
  /\ AdminRole \in Roles
  /\ NoJti \notin Jtis
  /\ NoLink \notin Links
  /\ JwtTTL \in Nat \ {0}
  /\ LinkTTL \in Nat \ {0}
  /\ BlacklistTTL \in Nat
  /\ BlacklistTTL >= JwtTTL       \* "matches JWT TTL"
  /\ MaxTime \in Nat
  /\ MaxFaults \in Nat

VARIABLES
  row,        \* the users table
  claim,      \* the payload of each JWT minted so far; exp = 0: not minted
  issued,     \* JWTs that reached a client
  tracked,    \* Redis user_jti:{user_id}: jti and expiry of the key
  denied,     \* Redis token_blacklist:{jti}: expiry of the key, 0 if never set
  audit,      \* admin_audit_log, as the set of <<action, account>> recorded
  h,          \* the handlers in progress
  now,
  faults,     \* failures so far
  \* History variables: no action reads them.
  granted,    \* roles an administrator (or the seed) gave the account
  escaped,    \* JWTs a change of the row left behind: their login was overtaken,
              \* the account was approved anew, or the revocation failed
  lost        \* <<action, account>> whose audit record a failure lost

redis == <<tracked, denied>>
history == <<granted, escaped, lost>>
vars == <<row, claim, issued, tracked, denied, audit, h, now, faults, history>>

-----------------------------------------------------------------------------
Statuses == {"absent", "pending", "approved", "active", "suspended"}
AdminOps == {"approve", "suspend", "reactivate", "role_change"}
Ops      == AdminOps \cup {"none", "register", "login", "activate"}
Stages   == {"idle", "read", "write", "get", "set", "audit"}

Rows     == [status: Statuses, role: Roles, password: BOOLEAN,
             link: Links \cup {NoLink}, linkUntil: Nat]
Claims   == [user: Users, role: Roles, exp: Nat]
Keys     == [jti: Jtis \cup {NoJti}, until: Nat]
HandlerRecs == [op: Ops, at: Stages, user: Users, role: Roles,
                jti: Jtis \cup {NoJti}, link: Links \cup {NoLink}]

Handler(op, stage, u, role, j, l) ==
  [op |-> op, at |-> stage, user |-> u, role |-> role, jti |-> j, link |-> l]

Idle == Handler("none", "idle", Admin, AdminRole, NoJti, NoLink)

TypeOK ==
  /\ row \in [Users -> Rows]
  /\ claim \in [Jtis -> Claims]
  /\ issued \subseteq Jtis
  /\ tracked \in [Users -> Keys]
  /\ denied \in [Jtis -> Nat]
  /\ audit \subseteq Ops \X Users
  /\ h \in [Handlers -> HandlerRecs]
  /\ now \in Nat
  /\ faults \in Nat
  /\ granted \in [Users -> SUBSET Roles]
  /\ escaped \subseteq Jtis
  /\ lost \subseteq Ops \X Users

NewRow(status, role, password) ==
  [status |-> status, role |-> role, password |-> password,
   link |-> NoLink, linkUntil |-> 0]

\* The database after the first boot: startup.seed_admin has run.
Init ==
  /\ row = [u \in Users |-> IF u = Admin THEN NewRow("active", AdminRole, TRUE)
                                         ELSE NewRow("absent", AdminRole, FALSE)]
  /\ claim = [j \in Jtis |-> [user |-> Admin, role |-> AdminRole, exp |-> 0]]
  /\ issued = {}
  /\ tracked = [u \in Users |-> [jti |-> NoJti, until |-> 0]]
  /\ denied = [j \in Jtis |-> 0]
  /\ audit = {}
  /\ h = [p \in Handlers |-> Idle]
  /\ now = 0
  /\ faults = 0
  /\ granted = [u \in Users |-> IF u = Admin THEN {AdminRole} ELSE {}]
  /\ escaped = {}
  /\ lost = {}

-----------------------------------------------------------------------------
\* What get_current_user accepts: not expired and no blacklist key.
Blacklisted(j) == now < denied[j]
Accepted(j)    == j \in issued /\ now < claim[j].exp /\ ~Blacklisted(j)

TrackedJti(u)  == IF now < tracked[u].until THEN tracked[u].jti ELSE NoJti

At(p, op, stage) == h[p].op = op /\ h[p].at = stage
Goto(p, stage)   == h' = [h EXCEPT ![p].at = stage]
Finish(p)        == h' = [h EXCEPT ![p] = Idle]
Start(p, rec)    == h[p] = Idle /\ h' = [h EXCEPT ![p] = rec]

-----------------------------------------------------------------------------
\* UserRepository: the users table after each INSERT or UPDATE.  No UPDATE has a
\* condition on anything but the account's id.
create_user(u, role) == [row EXCEPT ![u] = NewRow("pending", role, FALSE)]

approve_user(u, role, link) ==
  [row EXCEPT ![u].status = "approved", ![u].role = role,
              ![u].link = link, ![u].linkUntil = now + LinkTTL]

activate_user(u) ==
  [row EXCEPT ![u].status = "active", ![u].password = TRUE, ![u].link = NoLink]

update_user_status(u, status) == [row EXCEPT ![u].status = status]

update_user_role(u, role) == [row EXCEPT ![u].role = role]

-----------------------------------------------------------------------------
\* POST /register: the role check and the two lookups, then the insert.  The
\* insert is subject to the UNIQUE constraints on username and email.
RegisterCheck(p, u, role) ==
  /\ role # AdminRole
  /\ row[u].status = "absent"
  /\ Start(p, Handler("register", "write", u, role, NoJti, NoLink))
  /\ UNCHANGED <<row, claim, issued, redis, audit, now, faults, history>>

RegisterInsert(p) ==
  /\ At(p, "register", "write")
  /\ LET u == h[p].user IN
     row' = IF row[u].status = "absent" THEN create_user(u, h[p].role)
                                        ELSE row         \* IntegrityError
  /\ Finish(p)
  /\ UNCHANGED <<claim, issued, redis, audit, now, faults, history>>

\* POST /login: the row is read, then checked and signed into a token without
\* an await in between; only then is the token recorded in Redis and returned.
LoginRead(p, u, j) ==
  /\ row[u].status = "active"
  /\ row[u].password
  /\ claim[j].exp = 0
  /\ Start(p, Handler("login", "write", u, row[u].role, j, NoLink))
  /\ claim' = [claim EXCEPT ![j] = [user |-> u, role |-> row[u].role,
                                    exp |-> now + JwtTTL]]
  /\ UNCHANGED <<row, issued, redis, audit, now, faults, history>>

LoginStore(p) ==
  /\ At(p, "login", "write")
  /\ LET u == h[p].user
         j == h[p].jti IN
     /\ tracked' = [tracked EXCEPT ![u] = [jti |-> j, until |-> now + BlacklistTTL]]
     /\ issued' = issued \cup {j}
     /\ escaped' = IF row[u].status = "active" /\ row[u].role = h[p].role
                   THEN escaped ELSE escaped \cup {j}
  /\ Finish(p)
  /\ UNCHANGED <<row, claim, denied, audit, now, faults, granted, lost>>

\* POST /activate: get_user_by_activation_token, then activate_user, whose
\* UPDATE names the account only.
ActivateRead(p, u) ==
  /\ row[u].status = "approved"
  /\ row[u].link # NoLink
  /\ now < row[u].linkUntil
  /\ Start(p, Handler("activate", "write", u, AdminRole, NoJti, row[u].link))
  /\ UNCHANGED <<row, claim, issued, redis, audit, now, faults, history>>

ActivateWrite(p) ==
  /\ At(p, "activate", "write")
  /\ row' = activate_user(h[p].user)
  /\ Finish(p)
  /\ UNCHANGED <<claim, issued, redis, audit, now, faults, history>>

-----------------------------------------------------------------------------
\* An administrator's request: require_admin looks at the token only.  The
\* handler then reads the row first, except approve_user, which does not.
AdminRequest(p, j, op, u, role) ==
  /\ Accepted(j)
  /\ claim[j].role = AdminRole
  /\ u \in Targets
  /\ row[u].status # "absent"       \* user ids come from the admin's user list
  /\ Start(p, Handler(op, IF op = "approve" THEN "write" ELSE "read", u, role,
                      NoJti, NoLink))
  /\ UNCHANGED <<row, claim, issued, redis, audit, now, faults, history>>

\* POST /approve/{user_id}: one UPDATE, whatever the status of the account.
\* Sending the link by email changes no state of the API.
ApproveWrite(p, l) ==
  /\ At(p, "approve", "write")
  /\ \A u \in Users : row[u].link # l
  /\ \A q \in Handlers : h[q].link # l
  /\ LET u == h[p].user IN
     /\ row' = approve_user(u, h[p].role, l)
     /\ granted' = [granted EXCEPT ![u] = @ \cup {h[p].role}]
     /\ escaped' = escaped \cup ({tracked[u].jti} \ {NoJti})
  /\ Goto(p, "audit")
  /\ UNCHANGED <<claim, issued, redis, audit, now, faults, lost>>

\* Mutant: _SAFE_STATUS_TRANSITIONS is not consulted.
StatusReadUnchecked(p) ==
  /\ At(p, "suspend", "read") \/ At(p, "reactivate", "read")
  /\ Goto(p, "write")
  /\ UNCHANGED <<row, claim, issued, redis, audit, now, faults, history>>

\* POST /users/{id}/status: read, check _SAFE_STATUS_TRANSITIONS, ...
StatusRead(p) ==
  /\ \/ At(p, "suspend", "read")    /\ row[h[p].user].status = "active"
     \/ At(p, "reactivate", "read") /\ row[h[p].user].status = "suspended"
  /\ Goto(p, "write")
  /\ UNCHANGED <<row, claim, issued, redis, audit, now, faults, history>>

StatusRefused(p) ==                         \* 400 "Cannot transition"
  /\ \/ At(p, "suspend", "read")    /\ row[h[p].user].status # "active"
     \/ At(p, "reactivate", "read") /\ row[h[p].user].status # "suspended"
  /\ Finish(p)
  /\ UNCHANGED <<row, claim, issued, redis, audit, now, faults, history>>

\* ... then write the target status, and revoke when it is "suspended".
SuspendWrite(p) ==
  /\ At(p, "suspend", "write")
  /\ row' = update_user_status(h[p].user, "suspended")
  /\ Goto(p, "get")
  /\ UNCHANGED <<claim, issued, redis, audit, now, faults, history>>

\* Mutant: the action's name is written where the status belongs.
ReactivateWritesAction(p) ==
  /\ At(p, "reactivate", "write")
  /\ row' = update_user_status(h[p].user, "reactivate")
  /\ Goto(p, "audit")
  /\ UNCHANGED <<claim, issued, redis, audit, now, faults, history>>

ReactivateWrite(p) ==
  /\ At(p, "reactivate", "write")
  /\ row' = update_user_status(h[p].user, "active")
  /\ Goto(p, "audit")
  /\ UNCHANGED <<claim, issued, redis, audit, now, faults, history>>

\* POST /users/{id}/role: read, return early if nothing changes, write, revoke.
RoleRead(p) ==
  /\ At(p, "role_change", "read")
  /\ IF row[h[p].user].role = h[p].role THEN Finish(p) ELSE Goto(p, "write")
  /\ UNCHANGED <<row, claim, issued, redis, audit, now, faults, history>>

\* Mutant: the call of blacklist_user_tokens is forgotten.
RoleWriteNoRevoke(p) ==
  /\ At(p, "role_change", "write")
  /\ row' = update_user_role(h[p].user, h[p].role)
  /\ granted' = [granted EXCEPT ![h[p].user] = @ \cup {h[p].role}]
  /\ Goto(p, "audit")
  /\ UNCHANGED <<claim, issued, redis, audit, now, faults, escaped, lost>>

RoleWrite(p) ==
  /\ At(p, "role_change", "write")
  /\ row' = update_user_role(h[p].user, h[p].role)
  /\ granted' = [granted EXCEPT ![h[p].user] = @ \cup {h[p].role}]
  /\ Goto(p, "get")
  /\ UNCHANGED <<claim, issued, redis, audit, now, faults, escaped, lost>>

\* Mutant: an account without a tracked token returns before it is audited.
RevokeGetReturns(p) ==
  /\ h[p].at = "get"
  /\ LET j == TrackedJti(h[p].user) IN
     h' = [h EXCEPT ![p] = IF j = NoJti THEN Idle ELSE [@ EXCEPT !.jti = j, !.at = "set"]]
  /\ UNCHANGED <<row, claim, issued, redis, audit, now, faults, history>>

\* blacklist_user_tokens: read user_jti, then set the blacklist key.
RevokeGet(p) ==
  /\ h[p].at = "get"
  /\ LET j == TrackedJti(h[p].user) IN
     h' = [h EXCEPT ![p].jti = j, ![p].at = IF j = NoJti THEN "audit" ELSE "set"]
  /\ UNCHANGED <<row, claim, issued, redis, audit, now, faults, history>>

\* Mutant: the blacklist entry lives shorter than the token it revokes.
RevokeSetBriefly(p) ==
  /\ h[p].at = "set"
  /\ denied' = [denied EXCEPT ![h[p].jti] = now + 1]
  /\ Goto(p, "audit")
  /\ UNCHANGED <<row, claim, issued, tracked, audit, now, faults, history>>

RevokeSet(p) ==
  /\ h[p].at = "set"
  /\ denied' = [denied EXCEPT ![h[p].jti] = now + BlacklistTTL]
  /\ Goto(p, "audit")
  /\ UNCHANGED <<row, claim, issued, tracked, audit, now, faults, history>>

\* The background task that runs after the response.
AuditWrite(p) ==
  /\ h[p].at = "audit"
  /\ audit' = audit \cup {<<h[p].op, h[p].user>>}
  /\ Finish(p)
  /\ UNCHANGED <<row, claim, issued, redis, now, faults, history>>

-----------------------------------------------------------------------------
\* The stage a handler is at raises (Redis or PostgreSQL unreachable), or its
\* worker dies.  What it already committed stays; the rest never happens.
Fail(p) ==
  /\ h[p] # Idle
  /\ faults < MaxFaults
  /\ faults' = faults + 1
  /\ LET stage == h[p].at
         u     == h[p].user IN
     /\ escaped' = CASE stage = "get" -> escaped \cup ({tracked[u].jti} \ {NoJti})
                     [] stage = "set" -> escaped \cup {h[p].jti}
                     [] OTHER         -> escaped
     /\ lost' = IF stage \in {"get", "set", "audit"}
                THEN lost \cup {<<h[p].op, u>>} ELSE lost
  /\ Finish(p)
  /\ UNCHANGED <<row, claim, issued, redis, audit, now, granted>>

Tick ==
  /\ now < MaxTime
  /\ now' = now + 1
  /\ UNCHANGED <<row, claim, issued, redis, audit, h, faults, history>>

Serve(p) ==
  \/ RegisterInsert(p) \/ LoginStore(p) \/ ActivateWrite(p)
  \/ \E l \in Links : ApproveWrite(p, l)
  \/ StatusRead(p) \/ StatusRefused(p) \/ SuspendWrite(p) \/ ReactivateWrite(p)
  \/ RoleRead(p) \/ RoleWrite(p)
  \/ RevokeGet(p) \/ RevokeSet(p) \/ AuditWrite(p)

Arrive(p) ==
  \E u \in Users :
     \/ \E role \in Roles : RegisterCheck(p, u, role)
     \/ \E j \in Jtis : LoginRead(p, u, j)
     \/ ActivateRead(p, u)
     \/ \E j \in issued :
          \/ \E op \in {"suspend", "reactivate"} : AdminRequest(p, j, op, u, AdminRole)
          \/ \E op \in {"approve", "role_change"}, role \in Roles :
               AdminRequest(p, j, op, u, role)

Next ==
  \/ \E p \in Handlers : Arrive(p) \/ Serve(p) \/ Fail(p)
  \/ Tick

Spec == Init /\ [][Next]_vars
-----------------------------------------------------------------------------
Revoking(u)     == \E p \in Handlers : h[p].user = u /\ h[p].at \in {"get", "set"}
Recorded(op, u) == \/ <<op, u>> \in audit \cup lost
                   \/ \E p \in Handlers : /\ h[p].op = op /\ h[p].user = u
                                          /\ h[p].at \in {"get", "set", "audit"}

\* The session Redis tracks for an account agrees with the account: once no
\* suspension or role change is still revoking, an accepted token has the
\* account's role and the account is not suspended.  Not so for the tokens the
\* code is known to leave behind (escaped).  update_user_status,
\* change_user_role, login and blacklist_user_tokens interleaved.
TrackedSessionMatchesAccount ==
  \A u \in Users : LET j == tracked[u].jti IN
    (/\ j # NoJti /\ j \notin escaped
     /\ Accepted(j)
     /\ ~Revoking(u)) => /\ claim[j].role = row[u].role
                         /\ row[u].status # "suspended"

\* An account that got past "pending" has its approval, and a suspended account
\* its suspension, in admin_audit_log, or on the way there, or lost by a failure.
AuditTrail ==
  \A u \in Users :
    /\ u # Admin /\ row[u].status \notin {"absent", "pending"} => Recorded("approve", u)
    /\ row[u].status = "suspended" => Recorded("suspend", u)

\* A token get_current_user rejects (expired, or its jti blacklisted) is rejected
\* for good: the blacklist entry does not expire before the token does.
RejectedForGood ==
  [][\A j \in issued : ~Accepted(j) => ~Accepted(j)']_vars

-----------------------------------------------------------------------------
\* Accounts implements Vetting: how far the row got, the roles granted, and the
\* claims of the tokens clients hold.
Stage(u) == CASE row[u].status = "absent"  -> "unknown"
              [] row[u].status = "pending" -> "applied"
              [] row[u].password           -> "enrolled"
              [] OTHER                     -> "vetted"

V == INSTANCE Vetting WITH
       stage    <- [u \in Users |-> Stage(u)],
       sessions <- {<<claim[j].user, claim[j].role>> : j \in issued}

\* The supervised registration of auth.py's header (register, approve, activate,
\* login): no step, in whatever interleaving, opens a session out of turn.
SupervisedRegistration == V!Spec

-----------------------------------------------------------------------------
\* The inductive invariant behind the properties above: what a handler read is
\* still true enough when it writes, and a key outlives what it stands for.
Minted(j)   == claim[j].exp # 0
Enlisted(u) == row[u].status \notin {"absent", "pending"}

RowConsistent(u) ==
  /\ row[u].status \in {"active", "suspended"} => row[u].password
  /\ row[u].password => Enlisted(u)
  /\ Enlisted(u) => row[u].role \in granted[u]

HandlerConsistent(p) == LET u == h[p].user IN
  /\ h[p].at = "idle" \/ h[p].op # "none"
  /\ h[p].op = "login" =>
       /\ h[p].at = "write" /\ h[p].jti \in Jtis /\ Minted(h[p].jti)
       /\ claim[h[p].jti].user = u /\ claim[h[p].jti].role = h[p].role
       /\ h[p].role \in granted[u]
  /\ h[p].op = "activate" => Enlisted(u)
  /\ h[p].op \in {"suspend", "reactivate"} /\ h[p].at # "read" => row[u].password
  /\ h[p].op \in AdminOps =>
       /\ row[u].status # "absent"
       /\ \E j \in issued : claim[j].role = AdminRole
  /\ h[p].at \in {"get", "set", "audit"} => h[p].op \in AdminOps
  /\ h[p].at = "set" => h[p].jti \in Jtis /\ Minted(h[p].jti)

TokenConsistent(j) ==
  /\ claim[j].exp <= now + JwtTTL
  /\ j \in issued => Minted(j)
  /\ Minted(j) => row[claim[j].user].password
  /\ denied[j] # 0 => Minted(j) /\ claim[j].exp <= denied[j]

KeyConsistent(u) == LET j == tracked[u].jti IN
  j # NoJti => Minted(j) /\ claim[j].user = u /\ claim[j].exp <= tracked[u].until

\* Either the tracked token agrees with the account, or some handler still has
\* to look it up, or holds it and still has to blacklist it.
RevocationPending(u) == \E p \in Handlers :
  /\ h[p].user = u
  /\ h[p].at = "get" \/ (h[p].at = "set" /\ h[p].jti = tracked[u].jti)

SessionConsistent(u) == LET j == tracked[u].jti IN
  (j # NoJti /\ j \notin escaped /\ Accepted(j) /\ ~RevocationPending(u))
    => claim[j].role = row[u].role /\ row[u].status # "suspended"

IInv == /\ TypeOK
        /\ \A u \in Users : RowConsistent(u) /\ KeyConsistent(u) /\ SessionConsistent(u)
        /\ \A p \in Handlers : HandlerConsistent(p)
        /\ \A j \in Jtis : TokenConsistent(j)

-----------------------------------------------------------------------------
\* Stated by the repository, and refuted.
\* auth/blacklist.py: suspending a user stops "requests with the old token".
SuspensionEndsSessions ==
  \A u \in Users : row[u].status = "suspended" /\ ~Revoking(u) =>
    \A j \in issued : claim[j].user = u => ~Accepted(j)
=============================================================================
