SPECIFICATION FairSpec
CONSTANTS
    c1 = c1  web1 = web1  web2 = web2  tel = tel  k1 = k1  k2 = k2  s1 = s1  s2 = s2
    Cards = {c1}
    Inboxes = {web1, web2, tel}  Chats = {tel}  Room = room
    Clicks = {k1, k2}  Sweeps = {s1, s2}
    MaxCrashes = 1  MaxFails = 3
CHECK_DEADLOCK FALSE
INVARIANTS RowLive Actionable RoomCardTrue
PROPERTIES OneDecisionEach Settles Cleaned
