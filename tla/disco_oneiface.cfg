CONSTANTS
    NAMES <- MCNames
    Collector = "collector"
    IFACES <- OneIface
    MaxFlaps = 4
SPECIFICATION Spec
CHECK_DEADLOCK FALSE
INVARIANT HostsMatchWhenQuiet
PROPERTY EventuallyConsistent
