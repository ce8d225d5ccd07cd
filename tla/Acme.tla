-------------------------------- MODULE Acme --------------------------------
(***************************************************************************)
(* What the modules of the ACME interface, AcmeRequests and AcmeOrder,     *)
(* have in common.                                                         *)
(***************************************************************************)
CONSTANTS
    None,       \* no account, key, order, identifier or certificate
    MaxTime     \* bound on the clock

VARIABLE clock
=============================================================================
