\* One app name, exposed again under a second route; a call may fail and the
\* host may stop.
SPECIFICATION FairSpec
CONSTANTS
    notes = notes
    Apps = {notes}
    AppOf <- OneApp
    Ids = {1, 2, 3, 4}
    None = None
    MaxExposes = 2
    MaxUpsets = 1
INVARIANT Tracked
PROPERTIES
    GuardedFirst
    Published
    Withdrawn
CHECK_DEADLOCK FALSE
