CONSTANTS
    w1 = w1
    w2 = w2
    Worker <- Workers
    Part <- PartOf
    Algorithm = "wcc"
    Unit = 1
    Input <- WccInput
    Interval = 2
    MaxAttempts = 4
    MaxIterations = 6
    Ref <- Reference
    NoResult = NoResult
SPECIFICATION Spec
INVARIANTS
    TypeOK
    PublishedComplete
    PublishedPristine
    RecoveredExact
    ResultExactUnlessReopened
CHECK_DEADLOCK FALSE
