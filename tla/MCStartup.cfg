SPECIFICATION FairSpec
CONSTANTS
    Instances = {i1, i2}
    None = None
    Latest = 2
    Size <- MCSize
    MaxDeploys = 1
    MaxFaults = 2
INVARIANTS
    TypeOK
    ServedSchemaIsWhole
    NoStatementTwice
    DirtyMeansCutOff
PROPERTIES
    AllServe
CHECK_DEADLOCK FALSE
