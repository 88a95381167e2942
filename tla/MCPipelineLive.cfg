SPECIFICATION FairSpec
CONSTANTS
    Videos = {v1}
    Workers = {w1, w2}
    SourceLengths = {2000}
    Faults = {"redeliver"}
    MaxPuts = 2
    SharedScratch = FALSE
    None = None
    Users = {u1}
    Titles = {t1, t2}
    Deliveries = {e1, e2}
    Patches = {}
    Deletes = {d1}
PROPERTIES
    UploadSettles
CHECK_DEADLOCK FALSE
