SPECIFICATION RegistryFairSpec
CONSTANTS
    Names = {n1}
    MaxRegs = 4
    Window = 1
    MaxRestarts = 2
INVARIANT OnlyCurrentAttached
PROPERTY Attached
CHECK_DEADLOCK FALSE
