SPECIFICATION Spec
CONSTANTS
    N = 2
    k1 = k1
    k2 = k2
    Keys <- TwoKeys
    Shard <- Apart
    RowShard <- Apart
    Rows <- TwoKeys
    InitAt = {1}
    Requests = {r1}
    Ops = {"query"}
    MaxFailures = 0
    Row = Row
    None = None
CHECK_DEADLOCK FALSE
INVARIANTS
    OkMeansConnected
