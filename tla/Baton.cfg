SPECIFICATION FairSpec
CONSTANTS
    Start = 253
    Count = 2
    MaxFaults = 1
INVARIANTS
    DoneIsComplete
    NoSpuriousError
PROPERTIES
    ExchangeEnds
    ImplementsRing
CHECK_DEADLOCK FALSE
