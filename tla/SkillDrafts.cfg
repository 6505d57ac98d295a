\* Two drafts of one name, two handlers at a time, one restart.
SPECIFICATION Spec
CONSTANTS
    MaxDrafts = 2
    deploy = deploy
    NameOf <- SameName
    Slots = {1, 2}
    MaxCrashes = 1
    None = None
INVARIANT CardTrue
PROPERTY DiscardStands
CHECK_DEADLOCK FALSE
