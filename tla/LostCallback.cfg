\* A client accepted while startUp is running.
SPECIFICATION Spec
CONSTANTS
    MaxStarts = 1
    Clients = {c1}
    Blocks = {b1}
    Null = Null
    PortTaken = FALSE
INVARIANT
    SaysConnected
CHECK_DEADLOCK FALSE
