SPECIFICATION FairSpec
CONSTANTS
    i1 = i1
    i2 = i2
    a = a
    b = b
    c = c
    d = d
    good = good
    falsy = falsy
    Instances <- MCInstances
    Callers <- MCCallers
    On <- MCOn
    Decorated <- MCDecorated
    Values <- MCValues
    Falsy <- MCFalsy
    L1TTL = 1
    TTL = 3
    None = None
INVARIANTS TypeOK StaleBounded
PROPERTIES NoStampede GetsEnd
