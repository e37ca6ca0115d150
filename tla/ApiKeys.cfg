SPECIFICATION Spec
CONSTANTS
    p = p
    q = q
    s1 = s1
    s2 = s2
    s3 = s3
    Secrets <- MCSecrets
    Requests <- MCRequests
    MaxKeys = 2
    CacheTTL = 1
    Lifetimes <- MCLifetimes
    Graces <- MCGraces
    Latency = 1
    Horizon = 3
    None = None
SYMMETRY MCSymmetry
INVARIANTS TypeOK WithinQuota StaleBounded
PROPERTY LostOnlyByOverlap
CHECK_DEADLOCK FALSE
