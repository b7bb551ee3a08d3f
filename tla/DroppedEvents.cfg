\* An event handled after the listing but before the state is CONNECTED.
SPECIFICATION Spec
CONSTANTS
    Windows = {w1}
    Icons = {i1}
    Titles = {t1}
    NoTitle = NoTitle
    NoWindow = NoWindow
    NoIcon = NoIcon
    Absent = Absent
    SubObjectEvents = FALSE
    MaxChanges = 1
    MaxRequests = 1
INVARIANT
    ClientShowsCurrentTasks
CHECK_DEADLOCK FALSE
