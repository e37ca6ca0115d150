SPECIFICATION TSpec
CONSTANTS
  Users <- MCUsers
  MaxSessions = 3
  MaxTime = 3
  Ttls = {1}
  DefaultTtl = 3
  SlidingWindow = TRUE
  MaxConcurrent = 2
  Timeout = 1
  u1 = u1
  u2 = u2
INVARIANTS
  IdleNotServed
CHECK_DEADLOCK FALSE
