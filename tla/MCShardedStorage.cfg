SPECIFICATION Spec
CONSTANTS
    Conns = {r1, r2}
    k1 = k1
    k2 = k2
    c1 = c1
    c2 = c2
    c3 = c3
    Cores <- ThreeCores
    Keys <- TwoKeys
    get_cpu <- Apart
    Data = {x}
    Members = {m}
    Scores = {1, 2}
    Missing = Missing
INVARIANTS
    TypeOK
    KeyExclusive
    ListedUnderScore
PROPERTIES
    Linearizable
