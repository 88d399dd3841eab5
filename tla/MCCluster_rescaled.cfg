CONSTANTS
    Algorithm = "wcc"
    Unit = 1
    Input <- Kite
    Part <- TwoOfThree
    N = 2
    Capacity = 1
    BatchEntries = 1
    MaxIterations = 5
    Interval = 2
    Streaming = FALSE
    LoadEntries = 2
    MaxCrashes = 0
    MaxFaults = 0
    Starts <- Rescaled
    Leftover <- FreshStores
SPECIFICATION Spec
INVARIANTS
    ResultComplete
CHECK_DEADLOCK FALSE
