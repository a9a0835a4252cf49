SPECIFICATION RaceSpec
CONSTANTS
    Entities = {e1}
    Exts = {jpg}
    Suffixes = {jpg}
    Clients = {c1}
    Deleters = {d1}
    NoPhoto = NoPhoto
    Gone = Gone
    MaxPuts = 2
    MaxRequests = 1
    MaxStrays = 0
    MaxFaults = 0
    MaxInFlight = 1
PROPERTIES
    UploadCanBeConfirmed
CHECK_DEADLOCK FALSE
