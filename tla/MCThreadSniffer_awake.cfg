SPECIFICATION Spec
CONSTANTS
    HasControl = TRUE
    HasOpenTimeout = FALSE
    MaxPackets = 1
    Signals <- MCOneSignal
    MaxCaptures = 1
INVARIANT AsleepAtEnd
CHECK_DEADLOCK FALSE
