SPECIFICATION Spec
CONSTANTS
    u = u
    a = a
    b = b
    c = c
    all = all
    sys = sys
    db = db
    tmp = tmp
    p = p
    q = q
    rest = rest
    old = old
    new = new
    utf8 = utf8
    latin = latin
    Account <- MCAccount
    Scope <- MCScope
    Global = all
    Priv <- MCPriv
    Password = {old, new}
    Schema <- MCSchema
    Charset <- MCCharset
    Configs <- MCConfigs
    Servers <- MCServers
    Meddling <- MCMeddling
    MaxFaults = 2
    Caller = c
    Required = {p}
    SystemScope = {sys}
INVARIANTS
    TypeOK
    CleanRunSettles
PROPERTIES
    AdditiveLeavesRest
    KeepsWhatIsDeclared
    DeletesSpareCaller
    Converges
CHECK_DEADLOCK FALSE
