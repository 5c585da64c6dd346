\* A read may end anywhere, also inside a message, and the device may be changed.
SPECIFICATION Spec
CONSTANTS
    FrameLen = 4
    MaxSent = 4
    MaxBufferSize = 8
INVARIANTS
    TypeOK
    IntactInOrder
    LostIffSplit
    BoundedByOneRead
CHECK_DEADLOCK FALSE
