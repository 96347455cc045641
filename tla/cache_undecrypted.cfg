SPECIFICATION Spec
CONSTANTS
    t1 = t1
    c1 = c1
    Threads = {t1}
    NPages = 1
    FirstPages = 1
    Cells = {c1}
    Accesses = {"decrypt"}
    None = None
    MaxWrites = 1
INVARIANT PagesDecrypted
CHECK_DEADLOCK FALSE
