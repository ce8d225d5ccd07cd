------------------------------ MODULE MCOutbox ------------------------------
(* A small instance of Outbox: every endpoint subscribes to every message.  *)
EXTENDS Outbox

CONSTANTS a, b

TwoEndpoints == <<a, b>>
AllSubscribed == [m \in Messages |-> Endpoints]
OneTickDelay == <<1>>
=============================================================================
