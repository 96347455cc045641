SPECIFICATION FairSpec
CONSTANTS
    a1 = a1
    a2 = a2
    w1 = w1
    w2 = w2
    d1 = d1
    d2 = d2
    Apps = {a1, a2}
    Workers = {w1}
    OtherWorker = w2
    Daemons = {d1, d2}
    Of <- MCOf
    None = None
    Late = Late
    Answers = {"decrypt", "prohibit"}
    LowerFails = TRUE
    MaxOpens = 4
INVARIANTS
    TypeOK
    CountExact
    AloneInRelease
    LowerOpen
PROPERTY CallsReturn
CHECK_DEADLOCK FALSE
