SPECIFICATION FairSpec
CONSTANTS
    Messages = {m1, m2}
    Workers = {w1, w2}
    NoMessage = NoMessage
    MaxFaults = 2
INVARIANTS
    TypeOK
    OnePlaceAtATime
    DuplicatesNeedFaults
PROPERTIES
    KeepsThePromise
    QueueDrains
CHECK_DEADLOCK FALSE
