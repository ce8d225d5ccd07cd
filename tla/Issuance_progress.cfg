SPECIFICATION FairSpec
CONSTANTS
    Nodes = {n1, n2}
    Repairers = {r1}
    Enrollments = {e1}
    Issuers = {i1}
    IssuerOf <- OneIssuer
    Serials = {s1, s2}
    NoSerial = NoSerial
    None = None
    Lease = 2
    ReadTicks = 0
    MaxTime = 5
    MaxSignatures = 3
    MaxFaults = 1
PROPERTIES
    ApprovedIsIssued
    IssuedIsAudited
CHECK_DEADLOCK FALSE
