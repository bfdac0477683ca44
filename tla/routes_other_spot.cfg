CONSTANTS
    HOSTS <- MCHosts
    LocalName = "gw0"
    HostId <- MCHostId
    Instance = "0"
    TOPOLOGIES <- MCTwoSpots
    IsWs = FALSE
    KernelAddMayFail = FALSE
    KernelDelMayFail = FALSE
    MaxRestarts = 1
    EarlyCalls = TRUE
SPECIFICATION Spec
INVARIANT StopHolds
