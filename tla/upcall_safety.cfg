SPECIFICATION Spec
CONSTANTS
    a1 = a1
    a2 = a2
    dt = dt
    d1 = d1
    d2 = d2
    App = App
    Threads = {a1, a2, dt}
    DaemonThread = dt
    Daemons = {d1, d2}
    Tgid <- MCTgid
    Kinds = {"open"}
    IdSpace = 8
    MaxId = 3
SYMMETRY Symmetry
INVARIANTS
    TypeOK
    NoUseAfterFree
    OwnAnswer
    DaemonNeverWaits
    RequestsFreed
CHECK_DEADLOCK FALSE
