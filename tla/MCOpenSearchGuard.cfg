SPECIFICATION Spec
CONSTANTS
    o1 = o1
    o2 = o2
    Operator = {o1}
    Names <- MCNames
    System <- MCSystem
    PageSize = 2
    CallerUser = 1
    CallerRoles = {3, 4}
    CallerAccount = "a"
    Configs <- GuardConfigs
    Clusters <- GuardClusters
    Meddling <- MCMeddling
    MaxFaults = 0
PROPERTY
    DeletesSpareCaller
CHECK_DEADLOCK FALSE
