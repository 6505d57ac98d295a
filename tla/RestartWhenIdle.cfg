SPECIFICATION RestartFairSpec
CONSTANTS
    NoEntry = NoEntry
    Calls = {c1, c2}
    Sessions = {s1}
    MaxPolls = 2
    MaxSpawns = 2
INVARIANT Reached
PROPERTY Ended
CHECK_DEADLOCK FALSE
