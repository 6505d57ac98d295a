SPECIFICATION Spec
CONSTANTS
    tick = tick
    ncl = ncl
    w1 = w1
    Nobody = Nobody
    Sessions <- ThreeSessions
    Pruners = {tick}
    Writes = {w1}
    MaxRuns = 2
    MaxCrashes = 1
    CanThrow = TRUE
INVARIANTS TypeOK NothingLost GivenBack
PROPERTY RemovedIdle
CHECK_DEADLOCK FALSE
