SPECIFICATION FairSpec
CONSTANTS
    Readers = {r1, r2}
    Lengths = {0, 1, 2}
    maxBytes = 3
    MaxArrivals = 4
INVARIANTS
    InOrderNoLoss
    SpaceAccounted
    NoLostWakeup
PROPERTIES
    ReadersReturn
