SPECIFICATION FairSpec
CONSTANTS
    w1 = w1
    w2 = w2
    w3 = w3
    Workers = {w1, w2, w3}
    None = None
    NTasks = 3
    MaxRepeat = 2
INVARIANTS
    TypeOK
    NoUseAfterErase
PROPERTY HandledUnlessWasted
CHECK_DEADLOCK FALSE
