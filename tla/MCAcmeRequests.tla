-------------------------- MODULE MCAcmeRequests --------------------------
(* Small instances of AcmeRequests: every account key is a P-256 key. *)
EXTENDS AcmeRequests, TLC

ECKeys == [k \in Keys |-> "EC"]
Symmetry == Permutations(Requests)
=============================================================================
