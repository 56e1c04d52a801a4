------------------------- MODULE MCReliableUnicast -------------------------
(***************************************************************************)
(* Values for the constants of ReliableUnicast: two nodes and two calls    *)
(* from the first to the second, so that calls overlap, wait for each      *)
(* other's frames and share the acknowledging goroutine.                   *)
(***************************************************************************)
EXTENDS ReliableUnicast

CONSTANTS a, b, c1, c2

OneWayFrom == [c \in Call |-> a]
OneWayTo   == [c \in Call |-> b]
=============================================================================
