SPECIFICATION FairSpec
CONSTANTS
    Modes = {"bidi", "uni", "datagram"}
INVARIANTS
    NoMismatch
    PanicNeedsGiveUp
PROPERTIES
    EchoArrives
    ClientEnds
    HandlerReturnsAtEnd
CHECK_DEADLOCK FALSE
