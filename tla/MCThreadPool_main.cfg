CONSTANTS
    MaxNum = 4
    MaxCalls = 2
SPECIFICATION Spec
INVARIANTS
    TypeOK
    ListedInOrder
    ListedIsAlive
    SlotExists
CHECK_DEADLOCK FALSE
