\* Liveness, with the threads scheduled: one window with two icons, two listings.
SPECIFICATION FairSpec
CONSTANTS
    Windows = {w1}
    Icons = {i1, i2}
    Titles = {t1, NoTitle}
    NoTitle = NoTitle
    NoWindow = NoWindow
    NoIcon = NoIcon
    Absent = Absent
    SubObjectEvents = TRUE
    MaxChanges = 2
    MaxRequests = 2
PROPERTIES
    RequestIsAnswered
    RowIconFollows
CHECK_DEADLOCK FALSE
