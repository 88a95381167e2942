SPECIFICATION WorkerSpec
CONSTANTS
    Videos = {v1}
    Workers = {w1, w2}
    SourceLengths = {0, 500}
    Faults = {"upload", "unlink", "post", "worker"}
    SharedScratch = TRUE
    None = None
    MaxPuts = 2
    MaxDisturbances = 2
SYMMETRY Symmetry
CONSTRAINT FewDisturbances
INVARIANTS
    WTypeOK
    SourceGoneMeansStored
    PlaylistHasSegments
    VerdictIsEarned
CHECK_DEADLOCK FALSE
