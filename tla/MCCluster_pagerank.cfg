CONSTANTS
    Algorithm = "pagerank"
    Unit = 1024
    Input <- RankPath
    Part <- TwoParts
    N = 2
    Capacity = 1
    BatchEntries = 2
    MaxIterations = 3
    Streaming = TRUE
    LoadEntries = 2
    MaxCrashes = 1
    MaxFaults = 1
    Interval = 0
    Starts <- Fresh
    Leftover <- FreshStores
SPECIFICATION Spec
INVARIANTS
    ResultComplete
PROPERTIES
    ImplementsBsp
    FailFast
CHECK_DEADLOCK FALSE
