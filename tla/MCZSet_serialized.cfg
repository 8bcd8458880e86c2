SPECIFICATION Spec
CONSTANTS
    Missing = Missing
    Threads = {h1, h2, h3}
    Values = {v1, v2}
    Scores = {1, 2}
    Serialized = TRUE
INVARIANTS TypeOK IndexesAgree ListedOnce
PROPERTIES OnlyZrmvHides Linearizable
