CONSTANTS
    d1 = d1
    d2 = d2
    Device <- MCDevice
    Weak <- MCWeak
    None = None
SPECIFICATION Spec
PROPERTIES EndsWheneverClosed
CHECK_DEADLOCK FALSE
