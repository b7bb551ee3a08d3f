\* The client: two windows, two icons, two titles, four frames.
SPECIFICATION FairSpec
CONSTANTS
    w1 = w1
    w2 = w2
    i1 = i1
    i2 = i2
    t1 = t1
    t2 = t2
    Windows = {w1, w2}
    Icons = {i1, i2}
    Titles = {t1, t2}
    Rows <- MCRows
    NoTitle = NoTitle
    NoWindow = NoWindow
    NoIcon = NoIcon
    MaxFrames = 4
INVARIANTS
    TypeOK
    ListFollowsFrames
    TitlesFollowFrames
    PicturesDrawn
PROPERTY
    FramesAreShown
CHECK_DEADLOCK FALSE
