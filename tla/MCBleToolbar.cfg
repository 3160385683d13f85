CONSTANTS
    d1 = d1
    d2 = d2
    Device <- MCDevice
    Weak <- MCWeak
    None = None
SPECIFICATION Spec
INVARIANTS TypeOK MirrorsList FollowAgrees NoWriteAfterClose
PROPERTIES EndsAfterClose
CHECK_DEADLOCK FALSE
