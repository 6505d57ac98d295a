SPECIFICATION Spec
CONSTANTS
    r1 = r1  r2 = r2  s1 = s1  m1 = m1  a = a
    NoRow = NoRow  NoText = NoText
    Rows = {r1, r2}  Sessions = {s1}  Session <- BySession1
    Rooms = {m1}  Home <- AtHome  Room <- InRoom1
    Contents <- TwoKinds  MaxFiles = 1
    MaxTries = 2  PendingBound = 2  Passes = {p1}  MaxUpsets = 1
CHECK_DEADLOCK FALSE
INVARIANTS TypeOK RetrySafe NeverLost Complete SeenStoredAlone
SYMMETRY SymRows
