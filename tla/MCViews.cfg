CONSTANTS
    Videos = {v1}
    Clients = {c1, c2}
    Views = {r1, r2, r3}
    Flushes = {f1, f2}
    Durations = {0, 3}
    Faults = {"db", "redis", "crash"}
    None = None
SYMMETRY Symmetry
SPECIFICATION ViewSpec
CHECK_DEADLOCK FALSE
INVARIANTS
    VTypeOK
    CountIsExact
    PendingIsExact
    OneViewPerLock
    RepeatIsHonest
