SPECIFICATION Spec
CONSTANTS
    tick = tick
    ncl = ncl
    w1 = w1
    Nobody = Nobody
    Sessions <- TwoSessions
    Pruners = {tick, ncl}
    Writes = {w1}
    MaxRuns = 1
    MaxCrashes = 0
    CanThrow = FALSE
INVARIANT NothingLost
CHECK_DEADLOCK FALSE
