CONSTANTS
    Callers = {c1, c2}
    Tasks = {t1, t2}
    Sources = {s1, s2}
    Eventfd = wake
    EventListInit = 1
    EventfdMax = 2
SPECIFICATION Spec
INVARIANTS
    TypeOK
    NoLostWakeup
    NoLostStop
PROPERTIES
    ImplementsTaskQueue
    EveryTaskRuns
    StopEndsLoop
    EverySourceServed
CHECK_DEADLOCK FALSE
