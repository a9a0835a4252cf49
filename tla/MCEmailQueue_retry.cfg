SPECIFICATION FairSpec
CONSTANTS
    Messages = {m1}
    Workers = {w1}
    NoMessage = NoMessage
    MaxFaults = 1
PROPERTIES
    RetryCanSucceed
CHECK_DEADLOCK FALSE
