SPECIFICATION Spec
CONSTANTS
    IsServer = TRUE
    Goroutines = {g1, g2}
    SettingsChoice = "streams"
    InMemory = FALSE
    PeerSettings <- MCPeerSettings
    Grants = {1, 3}
    NamedIDs = {0, 1, 4}
    maxStreamCount = 2
    MaxOpens = 2
    MaxWrite = 0
    MaxSent = 0
    Calls = {"open"}
    SerialIDs = {0}
SYMMETRY Symmetry
INVARIANTS
    OpensWithinGrant
    IDsDense
CHECK_DEADLOCK FALSE
