SPECIFICATION Spec
CONSTANTS
    PageSize = 4
    HeaderSize = 1
    Accesses = {"init"}
    MaxSize = 4
    InitSize = 1
    MaxOps = 1
INVARIANT HolesZeroed
CHECK_DEADLOCK FALSE
