CONSTANTS
    Base = 2
    MaxTail = 9
    Buffers <- MCBuffers

SPECIFICATION Spec

INVARIANTS
    TypeOK
    ReturnsWhatTheBufferHolds
    ThrowsOnlyWithoutCmdu

PROPERTIES
    Terminates

CHECK_DEADLOCK FALSE
