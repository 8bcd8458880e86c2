SPECIFICATION FairSpec
CONSTANTS
    N = 2
    k1 = k1
    k2 = k2
    Keys <- TwoKeys
    Shard <- Apart
    RowShard <- Crossed
    Rows <- TwoKeys
    InitAt = {1}
    Requests = {r1}
    Ops = {"add", "del", "zadd", "zrange", "list", "batch"}
    MaxFailures = 1
    Row = Row
    None = None
CHECK_DEADLOCK FALSE
INVARIANTS
    TypeOK
    PoolInBounds
    RoutedToOwner
    NothingSkipped
    LoadedRowsKept
PROPERTIES
    LoadEnds
