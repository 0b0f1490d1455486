\* A chat and a request for research: two requests of one session, two wordings of a question, one outage, one kill.
CONSTANTS
  a = a
  b = b
  p = p
  q = q
  Requests = {a, b}
  KindsOf <- MCKindsOf
  Sessions = {s}
  Questions = {p, q}
  Similar <- MCSimilar
  HistoryLimit = 1
  MaxAge = 0
  MaxRetries = 1
  MaxActive = 2
  MaxNow = 1
  MaxOutages = 0
  MaxKills = 0
  None = None
SPECIFICATION Spec
INVARIANTS
  ResearchIsGrounded
CHECK_DEADLOCK FALSE
