SPECIFICATION Spec
CONSTANTS
    t1 = t1
    t2 = t2
    Turns <- MCTurns
    InputKinds <- MCServerInputs
    MaxRefinements = 2
    EnableVerification = TRUE
    None = None
    Absent = Absent
INVARIANT AttemptsMayBeNone
CHECK_DEADLOCK FALSE
