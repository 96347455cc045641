SPECIFICATION FairSpec
CONSTANTS
    a = a
    b = b
    c = c
    Threads = {t1, t2}
    Root = Root
    Nodes = {a, b, c}
    None = None
    InitTree <- MCTree
    Direct <- MCDirect
    MaxMoves = 1
INVARIANTS
    TypeOK
    LocksReleased
    InStep
    LowerIsTree
    DirOfEntry
PROPERTY CallsReturn
CHECK_DEADLOCK FALSE
