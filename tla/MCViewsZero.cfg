CONSTANTS
    Videos = {v1}
    Clients = {c1}
    Views = {r1}
    Flushes = {f1}
    Durations = {0, 3}
    Faults = {}
    None = None
SPECIFICATION ViewSpec
CHECK_DEADLOCK FALSE
INVARIANTS
    ViewIsAnswered
