SPECIFICATION Spec
CONSTANTS
    Mounts = {m1, m2}
    MaxMounts = 4
SYMMETRY Symmetry
INVARIANTS
    TypeOK
    Balanced
CHECK_DEADLOCK FALSE
