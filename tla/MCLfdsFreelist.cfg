SPECIFICATION Spec
CONSTANTS
    Threads = {t1, t2}
    NumElements = 2
    MaxPushes = 6
INVARIANT
    OnePlace
PROPERTY
    ImplementsFreelist
CHECK_DEADLOCK FALSE
