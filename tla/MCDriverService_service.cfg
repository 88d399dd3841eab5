CONSTANTS
    N = 2
    MaxRuns = 2
    MaxCrashes = 1
    MaxRestarts = 1
SPECIFICATION Spec
INVARIANTS
    TypeOK
    AnswersOwn
    RunningIsAccounted
    WaitsUpward
PROPERTIES
    ClientsAnswered
    WorkersLetGo
CHECK_DEADLOCK FALSE
