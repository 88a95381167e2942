CONSTANTS
    Videos = {v1}
    ExVideos = {v1}
    Users = {u1}
    Requests = {r1, r2}
    Length = 2
    Faults = {"db", "tube"}
    None = None
SPECIFICATION LiveSpec
CHECK_DEADLOCK FALSE
PROPERTIES
    LengthArrives
