SPECIFICATION Spec
CONSTANTS
    RECV_BUFFER_SIZE = 2
    NumBuffers = 2
    UseRegisteredBuffers = FALSE
    MaxOps = 6
INVARIANT SendBlocks
CHECK_DEADLOCK FALSE
