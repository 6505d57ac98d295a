SPECIFICATION FairSpec
CONSTANTS
    MaxConns = 1
    MaxUp = 1
    MaxDn = 2
    MaxBreaks = 1
    MaxStarts = 2
    HighWater = 1
    LowWater = 0
    MaxBuffer = 2
    DaemonBuffer = 2
    MayBlock = TRUE
CHECK_DEADLOCK FALSE
INVARIANTS InOrder DnHeld Backpressure
PROPERTY Carried
