CONSTANTS
    Videos = {v1, v2}
    Users = {u1, u2}
    Requests = {r1, r2}
    Faults = {"db", "redis", "tube"}
    None = None
    ExVideos = {x1}
    Length = 2
    Stamps = {s1, s2}
    All = All
    Period = 2
    Flight = 1
    MaxTime = 4
    MaxBytes = 3
    EntrySize = 2
    Empty = Empty
    Handlers = {h1, h2, h3}
    Keys = {k1, k2}
    Null = Null
    Default = Default
    Absent = Absent
    Attempts = {a1, a2}
    Polls = {p1}
    Total = 3
    Durations <- Limits
    PerSheet = 100
    PerRow = 10
    Short = 600
    Long = 3600
    Playlists <- SomePlaylists
    Tags = {t1}
    Ranks = {1, 2}
SYMMETRY Symmetry
SPECIFICATION ServicesSpec
CHECK_DEADLOCK FALSE
INVARIANTS
    ServicesTypeOK
    CallPerCooldown
    AnswerIsRecent
    EntriesBounded
    AnswerIsOwn
    ShownIsEncoded
    PlayerIsServed
    ListIsWanted
PROPERTIES
    ColumnsKept
    RowsAreKept
