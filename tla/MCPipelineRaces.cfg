SPECIFICATION Spec
CONSTANTS
    Videos = {v1}
    Workers = {w1, w2}
    SourceLengths = {500, 2000}
    Faults = {"redeliver"}
    MaxPuts = 2
    SharedScratch = FALSE
    None = None
    Users = {u1}
    Titles = {t1, t2}
    Deliveries = {e1, e2}
    Patches = {p1}
    Deletes = {d1}
SYMMETRY Symmetry
VIEW RowsView
INVARIANTS
    TypeOK
    StatusTrailsDispatch
    EditKept
PROPERTIES
    RemovedForGood
    FailureOnlyByRerun
    LifecycleSpec
CHECK_DEADLOCK FALSE
