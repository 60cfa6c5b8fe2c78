\* A ring of three bytes, of which a period takes two.
SPECIFICATION FairSpec
CONSTANTS
    SampleSize = 2
    RbSize = 2
    NPorts = 1
    NFrames = 1
    SemMax = 1
INVARIANT
    WholeSamples
PROPERTIES
    SessionAnswered
    ShutdownDelivered
CHECK_DEADLOCK FALSE
