SPECIFICATION Spec
CONSTANTS
    Readers = {r1}
    Writers = {w1}
    Keys = {all}
    NoKey = NoKey
    MaxVersion = 1
    TTL = 2
    MaxFaults = 0
INVARIANTS
    FreshAfterInvalidation
