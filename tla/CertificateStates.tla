------------------------- MODULE CertificateStates -------------------------
(***************************************************************************)
(* What the service promises about the life of an issued certificate: the  *)
(* states of domain.CertificateStatus, the calls that move a certificate   *)
(* between them, and one revocation record for every revoked certificate.  *)
(* Each change happens at once.  CertificateStatus implements this         *)
(* specification with transactions that interleave; RevocationStatus uses  *)
(* it for the inventory that CRLs and OCSP answers are made from.          *)
(***************************************************************************)
CONSTANT Certificates

VARIABLES status, revocations

certVars == <<status, revocations>>

CertificateStatuses == {"valid", "suspended", "revoked", "expired"}

StatesOK ==
    /\ status \in [Certificates -> CertificateStatuses]
    /\ revocations \subseteq Certificates

InitStates ==
    /\ status = [c \in Certificates |-> "valid"]
    /\ revocations = {}

Move(c, from, to) ==
    /\ status[c] \in from
    /\ status' = [status EXCEPT ![c] = to]

Suspend(c) == Move(c, {"valid"}, "suspended") /\ UNCHANGED revocations

Resume(c) == Move(c, {"suspended"}, "valid") /\ UNCHANGED revocations

Revoke(c) ==
    /\ Move(c, {"valid", "suspended"}, "revoked")
    /\ revocations' = revocations \cup {c}

\* One expiration scan expires all the certificates it found in one commit.
Expire(S) ==
    /\ \A c \in S : status[c] \in {"valid", "suspended"}
    /\ status' = [c \in Certificates |-> IF c \in S THEN "expired" ELSE status[c]]
    /\ UNCHANGED revocations

NextStates ==
    \/ \E c \in Certificates : Suspend(c) \/ Resume(c) \/ Revoke(c)
    \/ \E S \in (SUBSET Certificates) \ {{}} : Expire(S)

SpecStates == InitStates /\ [][NextStates]_certVars

=============================================================================
