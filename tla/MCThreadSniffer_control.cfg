SPECIFICATION FairSpec
CONSTANTS
    HasControl = TRUE
    HasOpenTimeout = TRUE
    MaxPackets = 0
    Signals <- MCNoSignal
    MaxCaptures = 1
PROPERTIES
    StopReturnsIfOpened
CHECK_DEADLOCK FALSE
