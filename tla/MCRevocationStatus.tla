------------------------- MODULE MCRevocationStatus -------------------------
(* A small instance of RevocationStatus for TLC. *)
EXTENDS RevocationStatus

CONSTANTS p1, p2, q1

\* Publishers and responders only read the inventory and write no state of each
\* other: they need not run in the same behaviour.
PublishersOrResponder == {{p1, p2}, {q1}}

=============================================================================
