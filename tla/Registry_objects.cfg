SPECIFICATION Spec
CONSTANTS
    None = None
    Unparsable = Unparsable
    c1 = c1
    c2 = c2
    c3 = c3
    Callers = {c1, c2, c3}
    LowerCase <- MCLowerCase
    Addresses = {1, 2}
    MaxCSRSANs = 3
    Schedule <- MCSchedule
    Scenarios <- MCScenarios
    CAAPolicy <- MCCAAPolicy
SYMMETRY Symmetry
INVARIANTS
    OneActiveResponder
    TransitionsFormOnePath
    CertificatesAreCovered
    OrdersHonourCAA
CHECK_DEADLOCK FALSE
