SPECIFICATION FairSpec
CONSTANTS
    Missing = Missing
    InitData = i
    Threads = {h1, h2}
    Keys = {k1, k2}
    Data = {i, x}
    Members = {m}
    Scores = {1}
    Ops = {"add", "batch", "del", "zadd", "zrmv"}
    Lasting <- OneKey
    Dirs = {d1, d2}
    Rows <- OneRow
    Serialized = FALSE
    MaxRequests = 2
    MaxCrashes = 1
INVARIANTS InitialDataServed
PROPERTIES OnlyDelHides EventuallyDurable LoadEnds
