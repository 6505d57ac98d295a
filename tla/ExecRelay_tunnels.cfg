SPECIFICATION Spec
CONSTANTS
    MaxConns = 2
    MaxUp = 1
    MaxDn = 0
    MaxBreaks = 1
    MaxStarts = 1
    HighWater = 2
    LowWater = 1
    MaxBuffer = 8
    DaemonBuffer = 8
    MayBlock = FALSE
CHECK_DEADLOCK FALSE
INVARIANTS UpCounters ClosesOnItsWay
PROPERTY ImplementsTunnels
