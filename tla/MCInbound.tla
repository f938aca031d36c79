------------------------------ MODULE MCInbound ------------------------------
(* Instance of InboundDelivery for model checking: one ordinary envelope the *)
(* node publishes twice, one of an unknown kind that shares the drains.      *)
EXTENDS InboundDelivery

Publishes == [e \in Env |-> IF e \in Unknown THEN 1 ELSE 2]
=============================================================================
