SPECIFICATION FairSpec
CONSTANTS
    a1 = a1
    dt = dt
    d1 = d1
    d2 = d2
    App = App
    Threads = {a1, dt}
    DaemonThread = dt
    Daemons = {d1, d2}
    Tgid <- MCTgid
    Kinds = {"write"}
    IdSpace = 8
    MaxId = 4
PROPERTIES
    UpcallReturns
    AbsSpec
CHECK_DEADLOCK FALSE
