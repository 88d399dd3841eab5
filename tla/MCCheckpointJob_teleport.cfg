CONSTANTS
    w1 = w1
    w2 = w2
    Worker <- Workers
    Part <- PartOf
    Algorithm = "pagerank"
    Unit = 256
    Input <- RankInput
    Interval = 2
    MaxAttempts = 2
    MaxIterations = 4
    Ref <- Reference
    NoResult = NoResult
SPECIFICATION Spec
INVARIANTS
    ResultExactUnlessReopened
CHECK_DEADLOCK FALSE
