SPECIFICATION FairSpec
CONSTANTS
    Readers = {r1, r2}
    Writers = {w1, w2}
    Keys = {all}
    NoKey = NoKey
    MaxVersion = 2
    TTL = 2
    MaxFaults = 1
INVARIANTS
    TypeOK
    NeverAheadOfReplica
    InvalidationEffective
    StaleEntriesExpire
PROPERTIES
    CacheConverges
