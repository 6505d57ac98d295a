SPECIFICATION FairSpec
CONSTANTS
    None = None
    Names = {n1, n2}
    Ids = {i1, i2}
    Slots = {c1, c2}
    Shapes <- SomeShapes
    Stacks <- SomeStacks
    Dated = {i1}
    n1 = n1
    n2 = n2
    Asked <- SomeAsked
    Quota = 2
    MaxCalls = 3
    MaxUpsets = 1
INVARIANTS RunsApproved StoppedIsDown DeletedIsGone QuotaKept
PROPERTY Honest
CHECK_DEADLOCK FALSE
