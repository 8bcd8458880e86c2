SPECIFICATION FairCSpec
CONSTANTS
    N = 2
    k1 = k1
    Keys = {k1}
    Shard <- AtZero
    RowShard <- AtZero
    Rows = {k1}
    InitAt = {}
    Requests = {r1, r2}
    Ops = {"query", "add", "del"}
    MaxFailures = 1
    MaxCrashes = 1
    Row = Row
    None = None
CHECK_DEADLOCK FALSE
INVARIANTS
    CTypeOK
    ReadsAckedWrites
    PoolInBounds
PROPERTIES
    Answered
    Rejoins
