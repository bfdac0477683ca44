CONSTANTS
    HOSTS <- MCHosts
    LocalName = "gw0"
    HostId <- MCHostId
    Instance = "0"
    TOPOLOGIES <- MCRedeployed
    IsWs = FALSE
    KernelAddMayFail = FALSE
    KernelDelMayFail = FALSE
    MaxRestarts = 0
    EarlyCalls = FALSE
SPECIFICATION Spec
PROPERTY Implements
