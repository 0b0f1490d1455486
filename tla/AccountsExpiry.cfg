\* One request at a time, one failure; tokens, blacklist entries and links expire.
CONSTANTS
  Users = {admin, u}
  Admin = admin
  Targets = {u}
  Roles = {adm, judge}
  AdminRole = adm
  Handlers = {p1}
  Jtis = {j1, j2}
  NoJti = none
  Links = {k1, k2}
  NoLink = nolink
  JwtTTL = 2
  BlacklistTTL = 2
  LinkTTL = 2
  MaxTime = 3
  MaxFaults = 1
SPECIFICATION Spec
SYMMETRY Symmetry
INVARIANTS
  IInv
  AuditTrail
PROPERTY RejectedForGood
CHECK_DEADLOCK FALSE
