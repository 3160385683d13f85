SPECIFICATION FairSpec
CONSTANTS
    p1 = p1
    p2 = p2
    p3 = p3
    Procs <- MCThree
    MaxTries = 1
INVARIANTS
    TypeOK
    NothingLeftBehind
PROPERTIES
    StaleLockRecovered
CHECK_DEADLOCK FALSE
