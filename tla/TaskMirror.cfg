\* Safety of the task list server: two windows whose icon is the same, a list
\* that is sent twice, windows without a title, and events of sub-objects.
SPECIFICATION Spec
CONSTANTS
    Windows = {w1, w2}
    Icons = {i1}
    Titles = {t1, NoTitle}
    NoTitle = NoTitle
    NoWindow = NoWindow
    NoIcon = NoIcon
    Absent = Absent
    SubObjectEvents = TRUE
    MaxChanges = 2
    MaxRequests = 2
SYMMETRY Symmetry
INVARIANTS
    TypeOK
    IconBeforeAdd
    ListReadable
    ClientMirrorsServer
    TitlesConverge
    ServerTracksDesktop
PROPERTY
    FramesFit
CHECK_DEADLOCK FALSE
