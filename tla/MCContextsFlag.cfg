SPECIFICATION Spec
CONSTANTS
    opensearch = opensearch
    mysql = mysql
    prod = prod
    staging = staging
    db = db
    None = None
    Provider = {opensearch, mysql}
    Name = {prod, staging, db}
    Inputs <- TwoContexts
INVARIANT
    FlagSelects
CHECK_DEADLOCK FALSE
