CONSTANTS
    NAMES <- MCNames
    Collector = "collector"
    IFACES <- TwoIfaces
    MaxFlaps = 4
SPECIFICATION Spec
CHECK_DEADLOCK FALSE
INVARIANT HostsMatchWhenQuiet
