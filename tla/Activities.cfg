\* Two activities, two windows, and two frames read.
SPECIFICATION FairSpec
CONSTANTS
    w1 = w1
    w2 = w2
    Windows = {w1, w2}
    MaxActivities = 2
    MaxFrames = 2
ACTION_CONSTRAINT FirstIsW1
INVARIANTS
    TypeOK
    ListsItsOwn
    TapHitsRow
    TapReachesServer
PROPERTY
    BackEndsThread
CHECK_DEADLOCK FALSE
