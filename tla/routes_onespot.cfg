CONSTANTS
    HOSTS <- MCHosts
    LocalName = "gw0"
    HostId <- MCHostId
    Instance = "0"
    TOPOLOGIES <- MCOneSpotNoGw
    IsWs = FALSE
    KernelAddMayFail = FALSE
    KernelDelMayFail = FALSE
    MaxRestarts = 1
    EarlyCalls = FALSE
SPECIFICATION Spec
INVARIANT TypeOK
INVARIANT KernelBackedByTable
INVARIANT StoppedMeansNoRoutes
INVARIANT StopHolds
PROPERTY CallsReturn
