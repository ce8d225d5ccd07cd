CHECK_DEADLOCK FALSE
SPECIFICATION FairSpec
CONSTANTS
  p1 = p1
  p2 = p2
  q1 = q1
  Certificates = {c1}
  DistributionPoints = {d1}
  Publishers = {p1, p2}
  Responders = {q1}
  Deployments <- PublishersOrResponder
  Lease = 1
  None = None
  MaxTime = 4
  MaxNumber = 3
  MaxFaults = 2
INVARIANT
  NumbersAreContiguous
  CRLsGrow
  LeaseExclusion
  AnswersAreCurrent
PROPERTY
  RevokedIsPublished
