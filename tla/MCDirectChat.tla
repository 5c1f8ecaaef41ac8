--------------------------- MODULE MCDirectChat ---------------------------
(* Two peers on small instances; peers and messages are permutable. *)
EXTENDS DirectChat, TLC

Symmetry == Permutations(Peer) \cup Permutations(Message)
=============================================================================
