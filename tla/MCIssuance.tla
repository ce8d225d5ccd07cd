----------------------------- MODULE MCIssuance -----------------------------
(* Small instances of Issuance: all enrollments name one issuer, so that two *)
(* signed certificates can collide on a serial number.                       *)
EXTENDS Issuance, TLC

OneIssuer == [e \in Enrollments |-> CHOOSE i \in Issuers : TRUE]

\* Requests, repairs and serial numbers are interchangeable.
Symmetry == Permutations(Nodes) \cup Permutations(Repairers) \cup Permutations(Serials)
=============================================================================
