SPECIFICATION FairSpec
CONSTANTS
    Requests = {r1, r2, r3}
    Ids <- MCIds
    Columns <- MCColumns
    NoRow = NoRow
    Free = Free
    Jobs <- MCJobs
    MaxOpenConns = 2
    MaxFaults = 1
INVARIANTS
    TypeOK
    OnlyAppliedIsVisible
    LocksEndWithTheAnswer
    DeletedOnce
PROPERTIES
    ChangesAreAtomic
    RequestsEnd
CHECK_DEADLOCK FALSE
