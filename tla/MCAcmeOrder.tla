----------------------------- MODULE MCAcmeOrder -----------------------------
(* Instances of AcmeOrder for TLC. *)
EXTENDS AcmeOrder, TLC

\* Requests and identifiers are interchangeable.
OrderSymmetry == Permutations(Validators) \cup Permutations(Identifiers)
==============================================================================
