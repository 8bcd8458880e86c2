SPECIFICATION FairSpec
CONSTANTS
    n = 3
    Permits = 2
    Chunk = 2
    Pairs = 2
    Slots = 2
    Runs = 2
    MaxFailures = 1
    NoRequest = NoRequest
    NoAnswer = NoAnswer
    Missing = Missing
    Any = Any
INVARIANTS TypeOK NoPanic PermitsAccounted LeavesOnlyPairs
PROPERTIES Finishes KeepsSending
