CONSTANTS
    Clients = {a, b}
    Listener = listener
    Instances <- SmallInstances
    Leftover = {"Connecting", "Connected", "Disconnecting", "Disconnected"}
SPECIFICATION Spec
INVARIANTS
    EstablishedFirst
CHECK_DEADLOCK FALSE
