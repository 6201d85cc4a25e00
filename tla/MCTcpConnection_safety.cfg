CONSTANTS
    Users = {u1}
    UserOps = {"send", "shutdown", "force"}
    MessageOps = {"send", "shutdown", "force"}
    ClosingOps = {"send", "shutdown", "force"}
    OtherOps = {"send", "shutdown", "force"}
    KeepsRef = TRUE
    PeerOps = {"send", "fin", "reset"}
    InitSize = 2
    SndSize = 2
    Sizes = {1, 2}
    MaxCalls = 3
    MaxRcv = 1
    MaxDepth = 3
SPECIFICATION Spec
INVARIANTS
    TypeOK
    StreamInOrder
    InterestInSync
PROPERTIES
    CloseNoticed
CHECK_DEADLOCK FALSE
