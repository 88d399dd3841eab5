CONSTANTS
    Algorithm = "wcc"
    Unit = 1
    Graphs <- LabelledGraphs
    Partition <- Two
    Part <- PartOf
    OneFunction = FALSE
    MaxIterations = 6
SPECIFICATION Spec
INVARIANTS
    TypeOK
    LabelsExact
PROPERTIES
    LocalImplementsBsp
    WccSettles
CHECK_DEADLOCK FALSE
