SPECIFICATION FairSpec
CONSTANTS
    Callers = {c1}
    Acceptors = {a1}
    Loop = loop
    QueueCap = 2
    MaxCapsules = 3
INVARIANTS
    DoneClosedOnce
    DoneMeansEnded
    NoStreamDropped
    OneLateCapsule
PROPERTIES
    FirstErrorStands
    CloseReleasesWaiters
    PeerEndSeen
CHECK_DEADLOCK FALSE
