SPECIFICATION Spec
CONSTANTS
    SampleSize = 4
    RbSize = 4
    NPorts = 1
    NFrames = 2
    SemMax = 2
INVARIANTS
    NoStrandedAudio
CHECK_DEADLOCK FALSE
