SPECIFICATION Spec
CONSTANTS
    u = u
    u2 = u2
    r = r
    r2 = r2
    g = g
    x = x
    y = y
    Id <- CrossingId
    TypeOf <- CrossingTypeOf
    Orderings <- MCOrderings
    Checked <- MCChecked
    Inputs <- CrossingInputs
    Clusters <- MCClusters
INVARIANT EveryChangeOrdered
CHECK_DEADLOCK FALSE
