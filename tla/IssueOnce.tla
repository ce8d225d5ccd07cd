------------------------------ MODULE IssueOnce -----------------------------
(***************************************************************************)
(* What issuance promises its clients, with no attempts, leases or nodes:  *)
(* an enrollment is decided once, an approved enrollment turns into one    *)
(* certificate in one step, a serial number is used once per issuer, and   *)
(* nothing that was decided or issued is ever taken back.                  *)
(***************************************************************************)
CONSTANTS Enrollments, IssuerOf

VARIABLES enrollment, certificates

vars == <<enrollment, certificates>>

Init ==
    /\ enrollment = [e \in Enrollments |-> "pending"]
    /\ certificates = {}

Decide(e) ==
    /\ enrollment[e] = "pending"
    /\ \E d \in {"approved", "rejected"} : enrollment' = [enrollment EXCEPT ![e] = d]
    /\ UNCHANGED certificates

Issue(e) ==
    /\ enrollment[e] = "approved"
    /\ \E c \in certificates' :
          /\ c.enrollment = e
          /\ \A d \in certificates :
                /\ d.enrollment # e
                /\ IssuerOf[d.enrollment] = IssuerOf[e] => d.mat.serial # c.mat.serial
          /\ certificates' = certificates \cup {c}
    /\ enrollment' = [enrollment EXCEPT ![e] = "issued"]

Next == \E e \in Enrollments : Decide(e) \/ Issue(e)

Spec == Init /\ [][Next]_vars
=============================================================================
