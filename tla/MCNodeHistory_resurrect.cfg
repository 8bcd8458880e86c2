SPECIFICATION HSpec
CONSTANTS
    Missing = Missing
    Unknown = Unknown
    InitData = i
    Threads = {h1}
    Keys = {k1}
    Data = {i, x}
    Members = {m}
    Scores = {1}
    Ops = {"del", "zadd"}
    Lasting <- NoKeys
    Dirs = {}
    Rows <- NoRows
    Serialized = TRUE
    MaxRequests = 2
    MaxCrashes = 1
INVARIANTS FlushedZsetsStayDeleted
