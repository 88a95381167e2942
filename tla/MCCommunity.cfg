CONSTANTS
    Videos = {v1, v2}
    Users = {u1, u2}
    Names = {n1}
    Requests = {r1, r2, r3}
    Clients = {k1, k2}
    MaxTag = 2
    MaxComment = 2
    MaxPosts = 2
    Faults = {"db"}
    None = None
SYMMETRY Symmetry
SPECIFICATION CommunitySpec
CHECK_DEADLOCK FALSE
INVARIANTS
    CommunityTypeOK
    NoDangling
    RoomsMatch
    HearingIsRight
    CommentHasVideo
PROPERTIES
    GoneByRequest
    PairsAreTrue
    DeletedByRight
