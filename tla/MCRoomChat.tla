---------------------------- MODULE MCRoomChat ----------------------------
(* Three rooms on small instances: permutable sessions and messages. *)
EXTENDS RoomChat, TLC

MCRoom == { [general |-> TRUE, queue |-> 2, history |-> 1],
            [general |-> TRUE, queue |-> 1, history |-> 2],
            [general |-> FALSE, queue |-> 1, history |-> 1] }

Symmetry == Permutations(Session) \cup Permutations(Message)
=============================================================================
