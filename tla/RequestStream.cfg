\* The requests of one client: two windows, three taps, a buffer of three ints.
SPECIFICATION FairSpec
CONSTANTS
    Byte <- Bytes
    IntSize = 2
    Code <- Codes16
    Windows <- Two
    BufferSize = 6
    MaxTaps = 3
INVARIANTS
    TypeOK
    ActsOnNamedWindows
    NothingInvented
    PacedRequestsServed
PROPERTY
    ThreadEnds
CHECK_DEADLOCK FALSE
