CONSTANTS
    Identifiers = {i1, i2}
    Validators = {v1, v2}
    Finalizers = {f1}
    PublicTLS = FALSE
    Lifetime = 2
    ReuseLifetime = 1
    None = None
    MaxTime = 2
    MaxFaults = 0
SPECIFICATION OrderSpec
CHECK_DEADLOCK FALSE
SYMMETRY OrderSymmetry
INVARIANT CompletedIsReady
