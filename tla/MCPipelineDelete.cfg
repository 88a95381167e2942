SPECIFICATION Spec
CONSTANTS
    Videos = {v1}
    Workers = {w1}
    SourceLengths = {2000}
    Faults = {}
    MaxPuts = 1
    SharedScratch = FALSE
    None = None
    Users = {u1}
    Titles = {t1, t2}
    Deliveries = {e1}
    Patches = {}
    Deletes = {d1}
INVARIANTS
    DeleteRemovesObjects
CHECK_DEADLOCK FALSE
