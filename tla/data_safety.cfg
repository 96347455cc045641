SPECIFICATION Spec
CONSTANTS
    PageSize = 2
    HeaderSize = 1
    Accesses = {"init", "decrypt"}
    MaxSize = 6
    InitSize = 3
    MaxOps = 3
INVARIANTS
    TypeOK
    PlainStored
    CipherStored
    PagesCurrent
CHECK_DEADLOCK FALSE
