SPECIFICATION FairSpec
CONSTANTS
    t1 = t1
    t2 = t2
    Turns <- MCTurns
    InputKinds <- MCInputs
    MaxRefinements = 2
    EnableVerification = TRUE
    None = None
    Absent = Absent
INVARIANTS TypeOK RefinementsBounded AcceptedWell OwnContext KeepsHistory
PROPERTY TurnsEnd
CHECK_DEADLOCK FALSE
