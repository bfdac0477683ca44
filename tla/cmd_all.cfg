CONSTANTS
    HOSTS <- MCHosts
    LocalName = "gw0"
    HostId <- MCHostId
    Instance = "0"
    TOPOLOGIES <- MCOneSpotNoGw
    IsWs = FALSE
    KernelAddMayFail = TRUE
    KernelDelMayFail = FALSE
    MaxRestarts = 0
    EarlyCalls = TRUE
    LINES <- MCLines
    MaxUnits = 2
SPECIFICATION Spec
INVARIANT TypeOK
INVARIANT ChildReaped
INVARIANT CodeOnlyAfterExit
INVARIANT StreamAcked


PROPERTY ShutdownEndsHandler
