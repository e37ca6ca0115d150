SPECIFICATION Spec
CONSTANTS
  Users <- OneUser
  Callers <- OneCaller
  Calls = {"create"}
  MaxCalls = 3
  MaxAborts = 0
  MaxSessions = 3
  MaxTime = 3
  Ttls = {2}
  ExtraHour = 3
  SlidingWindow = TRUE
  MaxConcurrent = 1
  u1 = u1
  w1 = w1
  w2 = w2
INVARIANTS
  WithinLimit
CHECK_DEADLOCK FALSE
