CONSTANTS
    MaxFrames = 5
    MaxLine = 1
    CounterCap = 2
    TimerMax = 4
    HighMark = 1
    Trim = 1
    Lengths <- MCLengths
    Idles <- MCIdles
    Numbers <- MCNumbers
    None = None
SPECIFICATION Spec
INVARIANTS TypeOK RequestIsRight TimesTrue
PROPERTIES ImplementsPacketLog CollectorEnds
CHECK_DEADLOCK FALSE
