------------------------- MODULE MCOutboundDispatch -------------------------
(* Model-checking instances of OutboundDispatch: two deliveries in creation
   order, or one, and their worker sets.                                   *)
EXTENDS OutboundDispatch

CONSTANTS d1, d2, p1, k1

InOrder == [d \in Deliveries |-> IF d = d1 THEN 1 ELSE 2]
=============================================================================
