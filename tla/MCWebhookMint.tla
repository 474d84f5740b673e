--------------------------- MODULE MCWebhookMint ---------------------------
(* WebhookMint with two events, of which the id of one begins with that   *)
(* of the other.                                                            *)
EXTENDS WebhookMint

MCOrders == {"1", "12"}
MCWithin == [o \in MCOrders |-> IF o = "1" THEN {"1", "12"} ELSE {o}]
=============================================================================
