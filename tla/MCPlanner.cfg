SPECIFICATION Spec
CONSTANTS
    u = u
    u2 = u2
    r = r
    r2 = r2
    g = g
    x = x
    y = y
    Id <- MCId
    TypeOf <- MCTypeOf
    Orderings <- MCOrderings
    Checked <- MCChecked
    Inputs <- MCInputs
    Clusters <- MCClusters
INVARIANTS
    TypeOK
    EveryChangeOrdered
    DeclaredOrderRespected
    DeletesAreWarranted
    HandsOverValidPlan
CHECK_DEADLOCK FALSE
