SPECIFICATION FairSpec
CONSTANTS
    c1 = c1
    c2 = c2
    Cubelets <- MCCubelets
    Backlog = 2
    MaxFds = 5
    MaxCrashes = 1
INVARIANTS
    TypeOK
    NumberIsRow
    RegisteredOnce
PROPERTY
    EventuallyRegistered
CHECK_DEADLOCK FALSE
