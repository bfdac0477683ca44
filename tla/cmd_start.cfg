CONSTANTS
    HOSTS <- MCHosts
    LocalName = "gw0"
    HostId <- MCHostId
    Instance = "0"
    TOPOLOGIES <- MCOneSpotNoGw
    IsWs = FALSE
    KernelAddMayFail = FALSE
    KernelDelMayFail = FALSE
    MaxRestarts = 0
    EarlyCalls = TRUE
    LINES <- MCNoReply
    MaxUnits = 2
SPECIFICATION Spec
PROPERTY OneReplyPerCommand
