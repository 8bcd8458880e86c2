SPECIFICATION Spec
CONSTANTS
    Missing = Missing
    Threads = {h1, h2}
    Values = {v1}
    Scores = {1, 2, 3}
    Serialized = FALSE
INVARIANTS ListedOnce
SYMMETRY Symmetry
