------------------------- MODULE MCCausalMulticast -------------------------
(***************************************************************************)
(* Values for the constants of CausalMulticast: up to three members and a  *)
(* bound on the messages each of them sends.                               *)
(***************************************************************************)
EXTENDS CausalMulticast, TLC

CONSTANTS a, b, c

MCRank == [m \in Member |-> CASE m = a -> 1 [] m = b -> 2 [] OTHER -> 3]

\* a sends, b answers: the third member may read the answer first.
ChainSends == [m \in Member |-> IF m \in {a, b} THEN 1 ELSE 0]

\* One sender, two messages that may overtake each other.
FifoSends == [m \in Member |-> IF m = a THEN 2 ELSE 0]
=============================================================================
