------------------------ MODULE MCCertificateStatus ------------------------
(* A small instance of CertificateStatus for TLC. *)
EXTENDS CertificateStatus, TLC

CONSTANTS c1, c2, o1, o2, s1, s2

TwoCertificates == <<c1, c2>>
TwoTimes == c1 :> 1 @@ c2 :> 2

\* Calls race calls and a scan; scans race each other and a call; transactions fail.
Teams == <<
    [procs |-> {o1, o2, s1}, calls |-> 3, faults |-> 0],
    [procs |-> {o1, s1, s2}, calls |-> 2, faults |-> 0],
    [procs |-> {o1, s1},     calls |-> 2, faults |-> 1] >>

MCDeployments == Teams

=============================================================================
