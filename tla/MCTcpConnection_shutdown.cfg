CONSTANTS
    Users = {}
    UserOps = {}
    MessageOps = {"send", "shutdown"}
    ClosingOps = {}
    OtherOps = {}
    KeepsRef = TRUE
    PeerOps = {"send"}
    InitSize = 4
    SndSize = 1
    Sizes = {1, 2}
    MaxCalls = 3
    MaxRcv = 1
    MaxDepth = 2
SPECIFICATION ReadingPeerSpec
PROPERTIES
    ShutdownCompletes
CHECK_DEADLOCK FALSE
