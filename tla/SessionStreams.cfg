SPECIFICATION FairSpec
CONSTANTS
    IsServer = TRUE
    QueueCap = 1
    maxBytes = 1
    PeerIDs = {0, 1, 2, 3}
    Capsules <- MCCapsules
    MaxCapsules = 2
    MaxOpens = 1
    MaxCloses = 1
    MaxReaders = 1
INVARIANTS
    OneStreamPerID
    ReadInOrder
    TrackedBeforeHeld
    RepliesFindTheirStream
    ClosedPipeHasCause
    OnlyStreamsRace
PROPERTIES
    ReadersReleased
CHECK_DEADLOCK FALSE
