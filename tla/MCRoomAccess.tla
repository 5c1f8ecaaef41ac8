---------------------------- MODULE MCRoomAccess ----------------------------
(* One private room on small instances; sessions are permutable. *)
EXTENDS RoomAccess, TLC

Symmetry == Permutations(Session)
=============================================================================
