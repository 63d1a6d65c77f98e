SPECIFICATION Spec
CONSTANTS
    IsServer = TRUE
    Goroutines = {g1, g2}
    SettingsChoice = "credit"
    InMemory = FALSE
    PeerSettings <- MCPeerSettings
    Grants = {1, 3}
    NamedIDs = {0, 1}
    maxStreamCount = 2
    MaxOpens = 1
    MaxWrite = 2
    MaxSent = 3
    Calls = {"open", "write", "close"}
    SerialIDs = {0}
SYMMETRY Symmetry
INVARIANTS
    ChargeMatchesWire
    WireWithinGrant
PROPERTIES
    ImplementsCredit
    FinIsLast
CHECK_DEADLOCK FALSE
