CONSTANTS
    HOSTS <- MCHosts
    LocalName = "gw0"
    HostId <- MCHostId
    Instance = "0"
    TOPOLOGIES <- MCOneSpot
    IsWs = FALSE
    KernelAddMayFail = TRUE
    KernelDelMayFail = TRUE
    MaxRestarts = 1
    EarlyCalls = TRUE
SPECIFICATION Spec
INVARIANT LockReleased
