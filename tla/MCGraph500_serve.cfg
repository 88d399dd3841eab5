CONSTANTS
    c1 = c1
    d1 = d1
    Client <- Clients
    MaxAsks = 3
    Chunk = 2
    MaxHeader = 2
    MaxBody = 1
    Param <- Params
    Dataset <- Datasets
    Meta <- Metas
    Request <- Requests
    MaxJobs = 2
SPECIFICATION Spec
INVARIANTS
    TypeOK
    SucceededVerified
    FailsOnlyForCause
    HandledAsSent
    WorkersLetGo
PROPERTIES
    JobsSettle
CHECK_DEADLOCK FALSE
