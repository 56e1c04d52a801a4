---------------------------- MODULE MCMembership ----------------------------
(* Symmetry for Membership: the servers that join are alike. *)
EXTENDS Membership, TLC

JoinerSymmetry == Permutations(Joiner)
=============================================================================
