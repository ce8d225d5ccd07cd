SPECIFICATION Spec
CONSTANTS
    Nodes = {n1, n2, n3}
    Repairers = {}
    Enrollments = {e1, e2}
    Issuers = {i1}
    IssuerOf <- OneIssuer
    Serials = {s1, s2}
    NoSerial = NoSerial
    None = None
    Lease = 3
    ReadTicks = 1
    MaxTime = 6
    MaxSignatures = 2
    MaxFaults = 0
SYMMETRY Symmetry
INVARIANTS
    IssuedConsistent
    LeaseExclusion
    AuditedIsIssued
PROPERTIES
    ImplementsIssueOnce
    GivenUpOnlyOnCollision
CHECK_DEADLOCK FALSE
