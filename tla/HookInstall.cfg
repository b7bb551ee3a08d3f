\* Three servers on one desktop, each started once.
SPECIFICATION FairSpec
CONSTANTS
    Servers = {s1, s2, s3}
    Null = Null
INVARIANTS
    TypeOK
    OneHook
    AloneIsHeard
PROPERTY
    QuitFreesSection
CHECK_DEADLOCK FALSE
