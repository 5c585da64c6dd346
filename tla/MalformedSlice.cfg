\* A read may end anywhere: what reaches processMessage().
SPECIFICATION Spec
CONSTANTS
    FrameLen = 4
    MaxSent = 2
    MaxBufferSize = 8
INVARIANTS
    KnownKind
CHECK_DEADLOCK FALSE
