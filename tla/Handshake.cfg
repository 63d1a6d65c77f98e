SPECIFICATION FairSpec
CONSTANTS
    Fields = {"data", "streams"}
    Names = {"echo", "chat", "nonASCII"}
    Unencodable = {"nonASCII"}
    MaxOffer = 2
    MaxSettings = 2
INVARIANTS
    SnapshotInWindow
    ServerLimitsAtConnect
    ProtocolAgreed
PROPERTIES
    ConnectReturns
    FailedConnectEnds
CHECK_DEADLOCK FALSE
