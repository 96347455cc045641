SPECIFICATION Spec
CONSTANTS
    t1 = t1
    t2 = t2
    c1 = c1
    Threads = {t1, t2}
    NPages = 3
    FirstPages = 1
    Cells = {c1}
    Accesses = {"init", "prohibit", "encrypt", "decrypt"}
    None = None
    MaxWrites = 2
VIEW View
SYMMETRY Symmetry
INVARIANTS
    TypeOK
    LocksReleased
    LowerIsCipher
    DecryptedView
    StoredView
    UpcallLetsRead
CHECK_DEADLOCK FALSE
