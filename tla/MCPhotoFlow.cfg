SPECIFICATION RaceSpec
CONSTANTS
    Entities = {e1, e2}
    Exts = {jpg, png}
    Suffixes = {jpg, png, odd}
    Clients = {c1, c2}
    Deleters = {d1, d2}
    NoPhoto = NoPhoto
    Gone = Gone
    MaxPuts = 2
    MaxRequests = 3
    MaxStrays = 1
    MaxFaults = 1
    MaxInFlight = 3
INVARIANTS
    TypeOK
    KeysStayWithTheirEntity
    BrokenOnlyByUntimelyConfirm
SYMMETRY Symmetry
CHECK_DEADLOCK FALSE
