CONSTANTS
    Users = {u1, u2}
    UserOps = {"send"}
    MessageOps = {"shutdown", "force"}
    ClosingOps = {"send", "shutdown"}
    OtherOps = {"shutdown"}
    KeepsRef = TRUE
    PeerOps = {"send", "fin", "reset"}
    InitSize = 2
    SndSize = 2
    Sizes = {1, 2}
    MaxCalls = 4
    MaxRcv = 1
    MaxDepth = 3
SPECIFICATION Spec
SYMMETRY Symmetry
PROPERTIES
    ImplementsLifecycle
    NoMessageAfterClosing
    FinAfterData
CHECK_DEADLOCK FALSE
