SPECIFICATION Spec
CONSTANTS
    Nodes = {n1, n2}
    None = None
    Databases <- MCDatabases
    Configs <- MCConfigs
    Traffic <- MCTraffic
    KeyScopes <- MCKeyScopes
    MaxKeys = 3
    Limit = 2
    Window = 2
    MaxStops = 1
    MaxTime = 2
INVARIANTS
    RetiredKeyRunsNothing
    ScopesAreRespected
    KeysHaveOneLine
    RateIsBounded
    ServesOnItsSchema
    MigrationIsWhole
SYMMETRY Symmetry
CHECK_DEADLOCK FALSE
