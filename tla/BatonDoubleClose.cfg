SPECIFICATION Spec
CONSTANTS
    Start = 253
    Count = 2
    MaxFaults = 2
INVARIANT
    DoneClosedOnce
CHECK_DEADLOCK FALSE
