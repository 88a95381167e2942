CONSTANTS
    Videos = {v1, v2}
    Clients = {c1}
    Views = {r1, r2}
    Flushes = {f1}
    Durations = {0, 3}
    Faults = {}
    None = None
SPECIFICATION FairViewSpec
CHECK_DEADLOCK FALSE
PROPERTIES
    ViewsReachTheRow
