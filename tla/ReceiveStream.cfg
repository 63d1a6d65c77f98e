SPECIFICATION FairSpec
CONSTANTS
    Readers = {r1, r2}
    ReadSizes = {1, 2}
    maxBytes = 3
    MaxPayload = 2
    MaxSent = 4
INVARIANTS
    ReadsWhatWasSent
PROPERTIES
    ReadReturns
CHECK_DEADLOCK FALSE
