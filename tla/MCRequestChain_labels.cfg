SPECIFICATION Spec
CONSTANTS
    Requests = {q1, q2}
    Ids = {1}
    Roles = {"admin", "exec"}
    NoToken = NoToken
    Columns = {"class"}
    PhotoKey = PhotoKey
    Kinds <- MCKinds
    Servers = 2
    MaxFaults = 1
INVARIANTS
    LabelsAreTemplates
SYMMETRY Symmetry
CHECK_DEADLOCK FALSE
