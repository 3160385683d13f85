SPECIFICATION Spec
CONSTANTS
    Frames <- MCFrames
    HEADER_LENGTH <- MCHeaderLength
    MaxFrames = 3
    MaxLost = 2
    MaxFails = 1
INVARIANTS
    TypeOK
    OnlySentFrames
    Recovers
    LossDetected
CHECK_DEADLOCK FALSE
