SPECIFICATION Spec
CONSTANTS
    Requests = {r1, r2, r3, r4}
    Limit <- MCLimit
    Window = 2
    Timeout = 1
    MaxRetries = 1
    MaxTime = 3
    MaxFaults = 1
    Never = Never
INVARIANTS
    TypeOK
    LimitHolds
    TwiceTheLimit
    NoEarly429
SYMMETRY Symmetry
CHECK_DEADLOCK FALSE
