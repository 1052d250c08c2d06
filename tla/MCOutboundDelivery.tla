------------------------- MODULE MCOutboundDelivery -------------------------
(* Model-checking instance of OutboundDelivery: interchangeable workers.   *)
EXTENDS OutboundDelivery, TLC

Symmetry == Permutations(Workers)
=============================================================================
