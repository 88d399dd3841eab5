CONSTANTS
    Algorithm = "wcc"
    Unit = 1
    Input <- Kite
    Part <- ThreeParts
    N = 3
    Capacity = 1
    BatchEntries = 1
    MaxIterations = 5
    Streaming = FALSE
    LoadEntries = 2
    MaxCrashes = 1
    MaxFaults = 1
    Interval = 1
    Starts <- Recoveries
    Leftover <- UsedStores
SPECIFICATION Spec
INVARIANTS
    TypeOK
    FailsOnlyForCause
    ResultComplete
PROPERTIES
    SuperstepsAligned
    PublishedIsCut
    ImplementsBsp
    FailFast
    WorkersReleased
CHECK_DEADLOCK FALSE
