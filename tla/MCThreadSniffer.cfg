SPECIFICATION Spec
CONSTANTS
    HasControl = FALSE
    HasOpenTimeout = FALSE
    MaxPackets = 1
    Signals <- MCTwoSignals
    MaxCaptures = 1
INVARIANTS
    TypeOK
    AsleepIfStoppedOnce
    StopsOnlyStarted
    PortReleased
    ForgottenOnlyIfEnded
CHECK_DEADLOCK FALSE
