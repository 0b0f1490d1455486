\* Two requests at a time, no failure, a clock that stands still.
CONSTANTS
  Users = {admin, u}
  Admin = admin
  Targets = {u}
  Roles = {adm, judge}
  AdminRole = adm
  Handlers = {p1, p2}
  Jtis = {j1, j2, j3}
  NoJti = none
  Links = {k1, k2}
  NoLink = nolink
  JwtTTL = 1
  BlacklistTTL = 1
  LinkTTL = 1
  MaxTime = 0
  MaxFaults = 0
SPECIFICATION Spec
SYMMETRY Symmetry
INVARIANTS
  TypeOK
  TrackedSessionMatchesAccount
PROPERTY SupervisedRegistration
CHECK_DEADLOCK FALSE
