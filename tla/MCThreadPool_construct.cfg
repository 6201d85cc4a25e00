CONSTANTS
    MaxNum = 1
    MaxCalls = 0
SPECIFICATION Spec
PROPERTIES
    ConstructorReturns
CHECK_DEADLOCK FALSE
