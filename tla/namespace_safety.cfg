SPECIFICATION Spec
CONSTANTS
    n1 = n1
    n2 = n2
    f1 = f1
    f2 = f2
    Threads = {t1, t2}
    Names = {n1, n2}
    DirOf <- MCDirOf
    Files = {f1, f2}
    DirFiles = {f2}
    Addrs = {a1, a2}
    LDents = {l1, l2}
    UDents = {u1, u2}
    None = None
    InitDisk <- MCDisk
    Direct = {n2}
    Copied = {1}
    MaxLost = 1
VIEW View
SYMMETRY Symmetry
INVARIANTS
    TypeOK
    SameFile
    LowerRefs
    Mirror
    NlinkCurrent
    InodeNotStale
    DirNlink
CHECK_DEADLOCK FALSE
