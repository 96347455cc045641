SPECIFICATION Spec
CONSTANTS
    Mounts = {m1, m2}
    MaxMounts = 1
INVARIANT DeallocationNotMissed
CHECK_DEADLOCK FALSE
