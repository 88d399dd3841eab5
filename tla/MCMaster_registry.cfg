CONSTANTS
    Worker = {w1, w2}
    Period = 2
    Delay = 1
    Ttl = 5
    MaxTime = 7
    Idle = Idle
SPECIFICATION Spec
SYMMETRY Symmetry
INVARIANTS
    TypeOK
PROPERTIES
    ForgetsTheDead
    ListsTheLiving
CHECK_DEADLOCK FALSE
