---------------------------- MODULE MCMembership ----------------------------
(* Membership on small instances: permutable sessions and members. *)
EXTENDS Membership, TLC

Symmetry == Permutations(Session) \cup Permutations(Member)
=============================================================================
