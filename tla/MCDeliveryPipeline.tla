------------------------- MODULE MCDeliveryPipeline -------------------------
(* Instances of DeliveryPipeline for TLC. *)
EXTENDS DeliveryPipeline

CONSTANTS c1, m1, m2, m3, p

\* m1 declares p dead; the others are chat lines.
OneDeath == [r \in Remote |-> IF r = m1 THEN p ELSE NoPeer]
=============================================================================
