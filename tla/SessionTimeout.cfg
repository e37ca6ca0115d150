SPECIFICATION TSpec
CONSTANTS
  Users <- MCUsers
  MaxSessions = 3
  MaxTime = 3
  Ttls = {1}
  DefaultTtl = 3
  SlidingWindow = FALSE
  MaxConcurrent = 2
  Timeout = 1
  u1 = u1
  u2 = u2
SYMMETRY MCSymmetry
INVARIANTS
  IndexConsistent
  WithinLimit
  IdleNotServed
  TerminationIsFinal
PROPERTIES
  ImplementsSessionStore
CHECK_DEADLOCK FALSE
