CONSTANTS
    Algorithm = "pagerank"
    Unit = 4096
    Graphs <- RankedGraphs
    Partition <- Two
    Part <- PartOf
    OneFunction = TRUE
    MaxIterations = 3
SPECIFICATION Spec
INVARIANTS
    RanksConserved
PROPERTIES
    LocalImplementsBsp
CHECK_DEADLOCK FALSE
