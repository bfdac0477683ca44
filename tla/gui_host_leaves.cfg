CONSTANTS
    HOSTS <- MCHosts
    InitHosts <- MCInitHosts
    None = "none"
    MaxChanges = 2
SPECIFICATION Spec
CHECK_DEADLOCK FALSE
INVARIANT GuiNeverHangs
