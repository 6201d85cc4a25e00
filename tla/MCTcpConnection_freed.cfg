CONSTANTS
    Users = {}
    UserOps = {}
    MessageOps = {}
    ClosingOps = {}
    OtherOps = {}
    KeepsRef = FALSE
    PeerOps = {"fin"}
    InitSize = 4
    SndSize = 1
    Sizes = {1}
    MaxCalls = 2
    MaxRcv = 1
    MaxDepth = 2
SPECIFICATION Spec
INVARIANTS
    NoUseAfterFree
CHECK_DEADLOCK FALSE
