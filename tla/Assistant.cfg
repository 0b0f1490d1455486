\* Two requests of one session, two wordings of a question, one outage, one kill.
CONSTANTS
  a = a
  b = b
  p = p
  q = q
  Requests = {a, b}
  KindsOf <- MCKindsOf
  Sessions = {s}
  Questions = {p, q}
  Similar <- MCSimilar
  HistoryLimit = 1
  MaxAge = 0
  MaxRetries = 1
  MaxActive = 2
  MaxNow = 1
  MaxOutages = 1
  MaxKills = 1
  None = None
SPECIFICATION FairSpec
INVARIANTS
  AssistantTypeOK
  AnswerFollowsQuestion
  OnlyWholeExchanges
  CachedIsSaved
  CachedOnce
  ContextIsComplete
  
  AuthenticNeedsTwo
PROPERTIES
  AnswerExpires
  EveryRequestEnds
CHECK_DEADLOCK FALSE
