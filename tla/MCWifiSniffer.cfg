CONSTANTS
    MaxStarts = 2
    MaxPackets = 4
    Room = 2
SPECIFICATION Spec
INVARIANT TypeOK
PROPERTY CaptureGoesOn
CHECK_DEADLOCK FALSE
