SPECIFICATION HSpec
CONSTANTS
    Missing = Missing
    Unknown = Unknown
    InitData = i
    Threads = {h1, h2}
    Keys = {k1, k2}
    Data = {i, x}
    Members = {m}
    Scores = {1, 2}
    Ops = {"add", "batch", "del", "zadd", "zrmv"}
    Lasting <- NoKeys
    Dirs = {d}
    Rows <- OneRow
    Serialized = TRUE
    MaxRequests = 3
    MaxCrashes = 1
INVARIANTS TypeOK RowsMatch MembersHaveRows FlushedKeysSurvive FlushedMembersSurvive
