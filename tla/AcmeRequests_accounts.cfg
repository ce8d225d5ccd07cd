SPECIFICATION Spec
CONSTANTS
    Accounts = {a1, a2}
    Keys = {k1, k2}
    KeyType <- ECKeys
    Orders = {o1, o2}
    Requests = {r1, r2}
    First = a1
    FirstKey = k1
    None = None
    TTL = 1
    MaxSize = 2
    MaxNonces = 4
    MaxTime = 1
SYMMETRY Symmetry
INVARIANTS
    NonceVerdicts
    OneAccountPerKey
    DeactivatedIsRefused
PROPERTY DeactivationIsFinal
CHECK_DEADLOCK FALSE
