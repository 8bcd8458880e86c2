SPECIFICATION HSpec
CONSTANTS
    Missing = Missing
    k1 = k1
    k2 = k2
    Threads = {h1, h2}
    Keys <- TwoKeys
    ZKeys <- OneKey
    Data = {x}
    Members = {m1, m2}
    Scores = {1, 2}
    ZSets = {o1, o2}
    Ops = {"query", "add", "batch", "del", "list", "zadd", "zrange", "zrmv"}
    Refused = "400"
    Serialized = TRUE
SYMMETRY Symmetry
INVARIANTS TypeOK KeyExclusive ListedOnce AckedVisible StableReads
