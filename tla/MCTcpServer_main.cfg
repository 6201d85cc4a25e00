CONSTANTS
    Clients = {a, b}
    Listener = listener
    Instances <- SmallInstances
    Leftover = {"Connecting", "Connected"}
SPECIFICATION Spec
INVARIANTS
    TypeOK
    WaitFindsDispatcher
    NoDangling
    NoStaleAddress
PROPERTIES
    ClosedIsDestroyed
    EverybodyAccepted
CHECK_DEADLOCK FALSE
