SPECIFICATION Spec
CONSTANTS
    Videos = {v1}
    Workers = {w1}
    SourceLengths = {2000}
    Faults = {"db", "upload", "unlink", "folder"}
    MaxPuts = 1
    SharedScratch = FALSE
    None = None
    Users = {u1}
    Titles = {t1, t2}
    Deliveries = {e1}
    Patches = {p1}
    Deletes = {d1}
SYMMETRY Symmetry
INVARIANTS
    CompletedIsPlayable
PROPERTIES
    WorkerSpec
CHECK_DEADLOCK FALSE
