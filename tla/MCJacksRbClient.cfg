\* A ring of fifteen bytes, five periods; a read takes one.
SPECIFICATION Spec
CONSTANTS
    SampleSize = 3
    RbSize = 3
    NPorts = 2
    NFrames = 1
    SemMax = 1
INVARIANTS
    TypeOK
    NoLostWakeup
    SessionHandshake
    PortsStored
    NoStrandedAudio
CHECK_DEADLOCK FALSE
