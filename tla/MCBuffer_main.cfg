CONSTANTS
    InitSize = 2
    TmpSize = 2
    MaxPush = 3
    MaxBytes = 7
    Letter <- Text
SPECIFICATION Spec
INVARIANTS
    TypeOK
PROPERTIES
    ImplementsByteQueue
    WholeReadsLoseNothing
