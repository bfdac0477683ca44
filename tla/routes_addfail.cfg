CONSTANTS
    HOSTS <- MCHosts
    LocalName = "gw0"
    HostId <- MCHostId
    Instance = "0"
    TOPOLOGIES <- MCRedeployed
    IsWs = FALSE
    KernelAddMayFail = TRUE
    KernelDelMayFail = FALSE
    MaxRestarts = 0
    EarlyCalls = TRUE
SPECIFICATION Spec
INVARIANT KernelBackedByTable
INVARIANT StoppedMeansNoRoutes
PROPERTY CallsReturn
