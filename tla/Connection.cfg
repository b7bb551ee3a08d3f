\* Safety of the connection: two starts, two clients, one block of memory, used again,
\* and a port that may be taken.
SPECIFICATION Spec
CONSTANTS
    MaxStarts = 2
    Clients = {c1, c2}
    Blocks = {b1}
    Null = Null
    PortTaken = TRUE
SYMMETRY Symmetry
INVARIANTS
    TypeOK
    ServerMatchesState
    AcceptorOwnsServer
    NoDoubleFree
    LabelAgrees
    ListSurvives
PROPERTY
    ImplementsSession
CHECK_DEADLOCK FALSE
