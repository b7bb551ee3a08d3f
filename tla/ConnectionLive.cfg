\* Liveness of the connection: two starts on one block of memory, so that a receive
\* thread of the first may serve the client of the second, and a port that may be taken.
SPECIFICATION FairSpec
CONSTANTS
    MaxStarts = 2
    Clients = {1, 2}
    Blocks = {b1}
    Null = Null
    PortTaken = TRUE
ACTION_CONSTRAINT OneClientEach
PROPERTY
    LateClientIsServed
CHECK_DEADLOCK FALSE
