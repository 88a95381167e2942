SPECIFICATION Spec
CONSTANTS
    Videos = {v1}
    Workers = {w1, w2}
    SourceLengths = {500, 2000}
    Faults = {"dispatch", "db", "crash", "post", "worker"}
    MaxPuts = 1
    SharedScratch = TRUE
    None = None
    Users = {u1}
    Titles = {t1}
    Deliveries = {e1}
    Patches = {p1}
    Deletes = {}
SYMMETRY Symmetry
INVARIANTS
    ProcessingIsOwned
    CompletedIsEarned
CHECK_DEADLOCK FALSE
