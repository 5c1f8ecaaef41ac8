------------------------- MODULE MCCredentialFile -------------------------
(* One user's processes and groups on small instances; both are permutable. *)
EXTENDS CredentialFile, TLC

Symmetry == Permutations(Process) \cup Permutations(Group)
=============================================================================
