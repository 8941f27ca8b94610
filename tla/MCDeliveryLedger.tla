-------------------------- MODULE MCDeliveryLedger --------------------------
(* DeliveryLedger with one outlet source, one pinned source and two targets. *)
EXTENDS DeliveryLedger

CONSTANTS s1, p1, c1, g1, g2
=============================================================================
