------------------------------ MODULE RoomLog ------------------------------
(***************************************************************************)
(* What a room promises, with no database, locks, tasks or queues: one log *)
(* of messages that only grows at its end and holds no message twice, and, *)
(* for each session, what its window shows of that log.  A window shows    *)
(* nothing that is not in the log; it is loaded with the newest messages in*)
(* their order, and then gains one message of the log at a time.           *)
(***************************************************************************)
EXTENDS Naturals, Sequences

CONSTANTS Session, Message

VARIABLES
    log,   \* the room's messages in the order of their sequence numbers
    shown  \* shown[s]: positions of the log, in the order s displays them

Position == 1..Len(log)

\* positions a..Len(log), ascending
Newest(a) == [i \in 1..(Len(log) + 1 - a) |-> a + i - 1]

Init ==
    /\ log = <<>>
    /\ shown = [s \in Session |-> <<>>]

Publish(m) ==
    /\ \A k \in Position : log[k] # m
    /\ log' = Append(log, m)
    /\ UNCHANGED shown

Show(s) ==
    /\ \E k \in Position : shown' = [shown EXCEPT ![s] = Append(@, k)]
    /\ UNCHANGED log

\* a history that was read earlier, when the log had e messages
Load(s) ==
    /\ \E e \in Position, a \in Position :
          /\ a <= e
          /\ shown' = [shown EXCEPT ![s] = SubSeq(Newest(a), 1, e + 1 - a)]
    /\ UNCHANGED log

\* windows are closed: one, or all of them when the gateway crashes
Close ==
    /\ \E gone \in SUBSET Session :
          shown' = [s \in Session |-> IF s \in gone THEN <<>> ELSE shown[s]]
    /\ UNCHANGED log

Next ==
    \/ Close
    \/ \E m \in Message : Publish(m)
    \/ \E s \in Session : Show(s) \/ Load(s)

Spec == Init /\ [][Next]_<<log, shown>>
=============================================================================
