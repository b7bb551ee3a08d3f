\* A client that closes a window and leaves.
SPECIFICATION Spec
CONSTANTS
    Byte <- Bytes
    IntSize = 2
    Code <- Codes16
    Windows <- One
    BufferSize = 6
    MaxTaps = 1
INVARIANT
    OneCloseForOnePress
CHECK_DEADLOCK FALSE
