CONSTANTS
    MaxNum = 2
    MaxCalls = 2
SPECIFICATION Spec
INVARIANTS
    AllocatedInCycle
CHECK_DEADLOCK FALSE
