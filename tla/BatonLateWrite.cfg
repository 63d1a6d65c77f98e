SPECIFICATION Spec
CONSTANTS
    Start = 253
    Count = 2
    MaxFaults = 1
PROPERTY
    NoWriteAfterReturn
CHECK_DEADLOCK FALSE
