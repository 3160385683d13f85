SPECIFICATION Spec
CONSTANTS
    TimerMax <- MCTimerMax
    MaxDrift <- MCMaxDrift
    MaxStep <- MCMaxStep
    MaxAge <- MCMaxAge
INVARIANTS
    TypeOK
    AbsoluteTime
CHECK_DEADLOCK FALSE
