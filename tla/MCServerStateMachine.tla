------------------------ MODULE MCServerStateMachine ------------------------
(* Instances of ServerStateMachine for TLC. *)
EXTENDS ServerStateMachine, TLC

CONSTANTS p1, p2, s1, s2, s3

\* The peers only differ in their names, and so do the slots.
PeersAndSlots == Permutations(Peer) \cup Permutations(Slot)
=============================================================================
