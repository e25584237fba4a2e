SPECIFICATION Spec
CONSTANTS
    o1 = o1
    o2 = o2
    Operator = {o1, o2}
    Names <- MCNames
    System <- MCSystem
    PageSize = 2
    CallerUser = 1
    CallerRoles = {3, 4}
    CallerAccount = "a"
    Configs <- MCConfigs
    Clusters <- MCClusters
    Meddling <- MCMeddling
    MaxFaults = 1
INVARIANTS
    CleanRunSettles
PROPERTIES
    LeavesRest
    TowardsDeclared
    DeletesNeverFail
    MappingsFollowRoles
    DeletesSpareCaller
    Converges
CHECK_DEADLOCK FALSE
