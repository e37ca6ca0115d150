SPECIFICATION Spec
CONSTANTS
    c1 = c1
    c2 = c2
    c3 = c3
    Callers <- MCCallers
    Impatient <- MCImpatient
    Limit = 2
    FailMax = 2
    ResetTimeout = 2
    MaxAttempts = 2
    OverloadAttempts = 3
INVARIANTS TripNeedsFailures
CHECK_DEADLOCK FALSE
