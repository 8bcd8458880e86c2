SPECIFICATION Spec
CONSTANTS
    N = 2
    k1 = k1
    k2 = k2
    Keys <- TwoKeys
    Shard <- Apart
    RowShard <- Swapped
    Rows <- TwoKeys
    InitAt = {1}
    Requests = {}
    Ops = {}
    MaxFailures = 0
    Row = Row
    None = None
CHECK_DEADLOCK FALSE
INVARIANTS
    LoadedRowsServed
