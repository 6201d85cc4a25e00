CONSTANTS
    Producers = {p1, p2}
    Consumers = {c1, c2}
    Size = 2
    MaxPushes = 3
    MaxThrows = 2
SPECIFICATION Spec
INVARIANTS
    TypeOK
    NoStandstill
    WaiterIsWoken
PROPERTIES
    ImplementsBoundedQueue
    EverythingPopped
CHECK_DEADLOCK FALSE
