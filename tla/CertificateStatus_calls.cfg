SPECIFICATION FairSpec
CONSTANTS
  c1 = c1
  c2 = c2
  o1 = o1
  o2 = o2
  s1 = s1
  s2 = s2
  CertificateList <- TwoCertificates
  NotAfter <- TwoTimes
  WarningWindow = 1
  ScanLimit = 2
  Operators = {o1, o2}
  Scanners = {s1, s2}
  MaxTime = 2
  Deployments <- MCDeployments
INVARIANT
  RecordsMatchRows
PROPERTY
  ImplementsCertificateStates
  PastDueIsSettled
