SPECIFICATION Spec
CONSTANTS
  Users <- OneUser
  Callers <- TwoCallers
  Calls <- AllCalls
  MaxCalls = 3
  MaxAborts = 1
  MaxSessions = 2
  MaxTime = 2
  Ttls = {1, 3}
  ExtraHour = 1
  SlidingWindow = TRUE
  MaxConcurrent = 1
  u1 = u1
  w1 = w1
  w2 = w2
INVARIANTS
  TypeOK
  RevokedUnreadable
  SessionsExpire
  LiveAreListed
  RevokesListed
CHECK_DEADLOCK FALSE
