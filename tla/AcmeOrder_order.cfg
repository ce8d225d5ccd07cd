CONSTANTS
    Identifiers = {i1, i2}
    Validators = {v1, v2}
    Finalizers = {f1, f2}
    PublicTLS = TRUE
    Lifetime = 2
    ReuseLifetime = 1
    None = None
    MaxTime = 2
    MaxFaults = 1
SPECIFICATION FairSpec
CHECK_DEADLOCK FALSE
INVARIANTS
    EnrolledIsAuthorized
    ValidHasItsCertificate
PROPERTIES
    OpenIsCompleted
    ExpiredIsDecided
