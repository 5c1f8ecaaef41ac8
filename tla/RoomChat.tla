------------------------------ MODULE RoomChat ------------------------------
(***************************************************************************)
(* The messages of one public room of a group: the rows of the store       *)
(* (append_message, history in storage.rs), the handlers of the connection *)
(* tasks (handle_room_chat, handle_join_room, handle_leave_room and        *)
(* enter_group in server.rs), the queue of each connection, and what the   *)
(* terminal client shows of the room (ChatApp in tui.rs).                  *)
(*                                                                         *)
(* A connection task runs one handler at a time and writes to its client   *)
(* only between handlers.  An action ends where the handler awaits a lock  *)
(* or the store; a broadcast collects its receivers under one lock and     *)
(* then sends to one after the other, with no lock held.                   *)
(*                                                                         *)
(* The queue stands for the whole path to the client's window (mpsc queue, *)
(* TCP, the client's own queue): every part of it keeps the order.         *)
(***************************************************************************)
EXTENDS Naturals, Sequences, FiniteSets

CONSTANTS
    Session,       \* connection tasks; a slot is reused after it closes
    Message,       \* message_id values, chosen by the clients
    NoMessage,
    Room           \* the rooms to look at: whether it is "general", which every session
                   \* is in, CLIENT_QUEUE_CAPACITY and HISTORY_CAPACITY

ASSUME ConstantsAssumption ==
    /\ IsFiniteSet(Session) /\ IsFiniteSet(Message)
    /\ NoMessage \notin Message
    /\ Room \subseteq [general : BOOLEAN, queue : Nat \ {0}, history : Nat \ {0}]

VARIABLES
    room,         \* the room; it does not change
    nextSequence, \* rooms.next_sequence
    stored,       \* table group_messages
    pc,           \* where each connection task is
    work,         \* what its handler holds between two actions
    joined,       \* whether the room is in the session's joined_rooms
    queue,        \* messages on their way to the client
    window,       \* items of the client's RoomView, as sequence numbers
    base,         \* history: the newest message the client's history reached to
    lost          \* history: messages that this session will not be shown

storeVars == <<room, nextSequence, stored>>
vars == <<storeVars, pc, work, joined, queue, window, base, lost>>

Sequence == 1..(nextSequence - 1)
Ids == {r.id : r \in stored}

(***************************************************************************)
(* off         no connection                                               *)
(* registered  in group.clients, history not yet read                      *)
(* loaded      history read, Welcome not yet written                       *)
(* online      in the select! loop, no handler running                     *)
(* sending     handle_room_chat passed its checks, message not yet stored  *)
(* committed   append_message returned, receivers not yet collected        *)
(* fanout      receivers collected, not all sent to                        *)
(* joining     handle_join_room passed its checks, history not yet read    *)
(* read        join_room has the history, joined_rooms not yet changed     *)
(* entered     joined_rooms changed, RoomJoined not yet queued             *)
(***************************************************************************)
PC == {"off", "registered", "loaded", "online", "sending", "committed",
       "fanout", "joining", "read", "entered"}

Idle == [id |-> NoMessage, seq |-> 0, to |-> {}, history |-> <<>>]

Chat(k) == [type |-> "chat", seq |-> k, history |-> <<>>]
RoomJoined(h) == [type |-> "joined", seq |-> 0, history |-> h]
RoomLeft == [type |-> "left", seq |-> 0, history |-> <<>>]

History == Seq(Nat \ {0})

\* what a handler may hold: the message it stores, its receivers, the history it has read
Work == [id : Message \cup {NoMessage}, seq : Nat, to : SUBSET Session, history : History]
Packet == [type : {"chat", "joined", "left"}, seq : Nat, history : History]

TypeOK ==
    /\ room \in Room
    /\ nextSequence \in Nat \ {0}
    /\ stored \subseteq [seq : Nat, id : Message, from : Session]
    /\ pc \in [Session -> PC]
    /\ work \in [Session -> Work]
    /\ joined \in [Session -> BOOLEAN]
    /\ queue \in [Session -> Seq(Packet)]
    /\ window \in [Session -> History]
    /\ base \in [Session -> Nat]
    /\ lost \in [Session -> SUBSET Nat]

Chats(s) == {queue[s][i].seq : i \in {j \in 1..Len(queue[s]) : queue[s][j].type = "chat"}}

\* the newest message of a history
Reach(h) == IF h = <<>> THEN 0 ELSE h[Len(h)]

(***************************************************************************)
(* history, then fit_history_to_frame: the newest messages, at most        *)
(* room.history of them and, unless there is none, at least one; how many  *)
(* fit the frame depends on their texts.                                   *)
(***************************************************************************)
Newest(n) == [i \in 1..n |-> nextSequence - 1 - n + i]
\* variant: a limit that the number of rows does not bound
HistoriesPadded == IF nextSequence = 1 THEN {<<>>} ELSE {Newest(n) : n \in 1..room.history}

Histories ==
    IF nextSequence = 1 THEN {<<>>}
    ELSE {Newest(n) : n \in 1..(IF room.history < nextSequence - 1 THEN room.history
                                ELSE nextSequence - 1)}

Init ==
    /\ room \in Room
    /\ nextSequence = 1
    /\ stored = {}
    /\ pc = [s \in Session |-> "off"]
    /\ work = [s \in Session |-> Idle]
    /\ joined = [s \in Session |-> FALSE]
    /\ queue = [s \in Session |-> <<>>]
    /\ window = [s \in Session |-> <<>>]
    /\ base = [s \in Session |-> 0]
    /\ lost = [s \in Session |-> {}]

\* variant: append without looking at the capacity, newest first
EnqueueFirst(r, m) ==
    IF Len(queue[r]) < room.queue THEN [queue EXCEPT ![r] = <<m>> \o @] ELSE queue

\* send_to_client: try_send drops the message when the queue is full
HasSpace(r) == Len(queue[r]) < room.queue
Enqueue(r, m) == IF HasSpace(r) THEN [queue EXCEPT ![r] = Append(@, m)] ELSE queue

-----------------------------------------------------------------------------
(* enter_group *)

Connect(s) ==
    /\ pc[s] = "off"
    /\ pc' = [pc EXCEPT ![s] = "registered"]
    /\ joined' = [joined EXCEPT ![s] = room.general]
    /\ UNCHANGED <<storeVars, work, queue, window, base, lost>>

\* the history in Welcome is that of the general room
LoadWelcome(s) ==
    /\ pc[s] = "registered"
    /\ \E h \in (IF room.general THEN Histories ELSE {<<>>}) :
          work' = [work EXCEPT ![s].history = h]
    /\ pc' = [pc EXCEPT ![s] = "loaded"]
    /\ UNCHANGED <<storeVars, joined, queue, window, base, lost>>

\* Welcome reaches the client, and ChatApp::new shows its history
FinishWelcome(s) ==
    /\ pc[s] = "loaded"
    /\ pc' = [pc EXCEPT ![s] = "online"]
    /\ window' = [window EXCEPT ![s] = work[s].history]
    /\ base' = [base EXCEPT ![s] = Reach(work[s].history)]
    /\ work' = [work EXCEPT ![s] = Idle]
    /\ UNCHANGED <<storeVars, joined, queue, lost>>

\* the entry is removed; senders that were already collected lead nowhere
Close(gone) ==
    /\ pc' = [s \in Session |-> IF s \in gone THEN "off" ELSE pc[s]]
    /\ work' = [s \in Session |->
                   IF s \in gone THEN Idle ELSE [work[s] EXCEPT !.to = @ \ gone]]
    /\ joined' = [s \in Session |-> s \notin gone /\ joined[s]]
    /\ queue' = [s \in Session |-> IF s \in gone THEN <<>> ELSE queue[s]]
    /\ window' = [s \in Session |-> IF s \in gone THEN <<>> ELSE window[s]]
    /\ base' = [s \in Session |-> IF s \in gone THEN 0 ELSE base[s]]
    /\ lost' = [s \in Session |-> IF s \in gone THEN {} ELSE lost[s]]
    /\ UNCHANGED storeVars

\* a store or write error in enter_group, a read error, a kick
Disconnect(s) ==
    /\ pc[s] \in {"registered", "loaded", "online"}
    /\ Close({s})

\* the gateway dies; the store survives it
Crash == Close(Session)

-----------------------------------------------------------------------------
(* handle_room_chat *)

\* the session is in the room, and the room exists
StartChat(s, m) ==
    /\ pc[s] = "online"
    /\ joined[s]
    /\ pc' = [pc EXCEPT ![s] = "sending"]
    /\ work' = [work EXCEPT ![s].id = m]
    /\ UNCHANGED <<storeVars, joined, queue, window, base, lost>>

\* variant: the sequence number is taken outside the transaction
AppendMessageOutside(s) ==
    /\ pc[s] = "sending"
    /\ nextSequence' = nextSequence + 1
    /\ IF work[s].id \in Ids
       THEN /\ stored' = stored
            /\ pc' = [pc EXCEPT ![s] = "online"]
            /\ work' = [work EXCEPT ![s] = Idle]
       ELSE /\ stored' = stored \cup {[seq |-> nextSequence, id |-> work[s].id, from |-> s]}
            /\ pc' = [pc EXCEPT ![s] = "committed"]
            /\ work' = [work EXCEPT ![s].seq = nextSequence]
    /\ UNCHANGED <<room, joined, queue, window, base, lost>>

\* append_message: one transaction; message_id is the primary key
AppendMessage(s) ==
    /\ pc[s] = "sending"
    /\ work[s].id \notin Ids
    /\ stored' = stored \cup {[seq |-> nextSequence, id |-> work[s].id, from |-> s]}
    /\ nextSequence' = nextSequence + 1
    /\ pc' = [pc EXCEPT ![s] = "committed"]
    /\ work' = [work EXCEPT ![s].seq = nextSequence]
    /\ UNCHANGED <<room, joined, queue, window, base, lost>>

\* the id is in use or the store fails: rolled back, answered with an error
RejectMessage(s) ==
    /\ pc[s] = "sending"
    /\ pc' = [pc EXCEPT ![s] = "online"]
    /\ work' = [work EXCEPT ![s] = Idle]
    /\ UNCHANGED <<storeVars, joined, queue, window, base, lost>>

\* broadcast_to_room, under group.clients.lock()
Receivers == {r \in Session : joined[r]}

\* join_room of r has read its history but not changed joined_rooms yet
Overlooked(r, k) == pc[r] = "read" /\ ~joined[r] /\ k > Reach(work[r].history)

CollectReceivers(s) ==
    /\ pc[s] = "committed"
    /\ pc' = [pc EXCEPT ![s] = "fanout"]
    /\ work' = [work EXCEPT ![s].to = Receivers]
    /\ lost' = [r \in Session |->
                   IF Overlooked(r, work[s].seq) THEN lost[r] \cup {work[s].seq} ELSE lost[r]]
    /\ UNCHANGED <<storeVars, joined, queue, window, base>>

SendChat(s, r) ==
    /\ pc[s] = "fanout"
    /\ r \in work[s].to
    /\ work' = [work EXCEPT ![s].to = @ \ {r}]
    /\ queue' = Enqueue(r, Chat(work[s].seq))
    /\ lost' = IF HasSpace(r) THEN lost ELSE [lost EXCEPT ![r] = @ \cup {work[s].seq}]
    /\ UNCHANGED <<storeVars, pc, joined, window, base>>

\* variant: the loop over the receivers ends at the first one
FinishChatEarly(s) ==
    /\ pc[s] = "fanout"
    /\ pc' = [pc EXCEPT ![s] = "online"]
    /\ work' = [work EXCEPT ![s] = Idle]
    /\ UNCHANGED <<storeVars, joined, queue, window, base, lost>>

FinishChat(s) ==
    /\ pc[s] = "fanout"
    /\ work[s].to = {}
    /\ pc' = [pc EXCEPT ![s] = "online"]
    /\ work' = [work EXCEPT ![s] = Idle]
    /\ UNCHANGED <<storeVars, joined, queue, window, base, lost>>

-----------------------------------------------------------------------------
(* handle_join_room, join_room, handle_leave_room *)

\* the room exists and is public; a session may join a room it is in
StartJoin(s) ==
    /\ pc[s] = "online"
    /\ pc' = [pc EXCEPT ![s] = "joining"]
    /\ UNCHANGED <<storeVars, work, joined, queue, window, base, lost>>

ReadHistory(s) ==
    /\ pc[s] = "joining"
    /\ \/ /\ \E h \in Histories : work' = [work EXCEPT ![s].history = h]
          /\ pc' = [pc EXCEPT ![s] = "read"]
       \/ /\ pc' = [pc EXCEPT ![s] = "online"]  \* history_unavailable
          /\ UNCHANGED work
    /\ UNCHANGED <<storeVars, joined, queue, window, base, lost>>

EnterRoom(s) ==
    /\ pc[s] = "read"
    /\ joined' = [joined EXCEPT ![s] = TRUE]
    /\ pc' = [pc EXCEPT ![s] = "entered"]
    /\ UNCHANGED <<storeVars, work, queue, window, base, lost>>

(***************************************************************************)
(* RoomJoined replaces the items of the client's window: what was queued   *)
(* before it and is newer than its history is shown and then wiped.  If    *)
(* the queue is full the client never gets the history.                    *)
(***************************************************************************)
QueueRoomJoined(s) ==
    LET reach == Reach(work[s].history)
    IN  /\ pc[s] = "entered"
        /\ pc' = [pc EXCEPT ![s] = "online"]
        /\ work' = [work EXCEPT ![s] = Idle]
        /\ queue' = Enqueue(s, RoomJoined(work[s].history))
        /\ lost' = [lost EXCEPT ![s] = @ \cup
                      IF HasSpace(s) THEN {k \in Chats(s) : k > reach} ELSE 1..reach]
        /\ base' = [base EXCEPT ![s] = IF HasSpace(s) THEN reach ELSE @]
        /\ UNCHANGED <<storeVars, joined, window>>

LeaveRoom(s) ==
    /\ pc[s] = "online"
    /\ ~room.general
    /\ joined' = [joined EXCEPT ![s] = FALSE]
    /\ queue' = Enqueue(s, RoomLeft)
    /\ UNCHANGED <<storeVars, pc, work, window, base, lost>>

-----------------------------------------------------------------------------

\* ChatApp::handle_server_event: a Chat is appended, seen before or not
Apply(w, m) ==
    CASE m.type = "chat" -> Append(w, m.seq)
      [] m.type = "joined" -> m.history
      [] m.type = "left" -> w

\* select!, outbound branch: the head of the queue reaches the client
Deliver(s) ==
    /\ pc[s] = "online"
    /\ queue[s] # <<>>
    /\ queue' = [queue EXCEPT ![s] = Tail(@)]
    /\ window' = [window EXCEPT ![s] = Apply(@, Head(queue[s]))]
    /\ UNCHANGED <<storeVars, pc, work, joined, base, lost>>

Handler(s) ==
    \/ LoadWelcome(s) \/ FinishWelcome(s)
    \/ AppendMessage(s) \/ RejectMessage(s)
    \/ CollectReceivers(s) \/ (\E r \in Session : SendChat(s, r)) \/ FinishChat(s)
    \/ ReadHistory(s) \/ EnterRoom(s) \/ QueueRoomJoined(s)

Next ==
    \/ \E s \in Session :
          \/ Connect(s) \/ Disconnect(s)
          \/ \E m \in Message : StartChat(s, m)
          \/ StartJoin(s) \/ LeaveRoom(s)
          \/ Handler(s) \/ Deliver(s)
    \/ Crash

Spec == Init /\ [][Next]_vars

-----------------------------------------------------------------------------
(* Properties *)

RowAt(k) == CHOOSE r \in stored : r.seq = k
IdAt(k) == IF \E r \in stored : r.seq = k THEN RowAt(k).id ELSE NoMessage

Log == INSTANCE RoomLog WITH log <- [k \in Sequence |-> IdAt(k)], shown <- window

(***************************************************************************)
(* The room is a log: sequence numbers have no gap whatever is rejected,   *)
(* retried or interrupted, no message id is stored twice, and no client    *)
(* shows a message before it is committed.                                 *)
(***************************************************************************)
RoomIsLog == Log!Spec

(***************************************************************************)
(* Messages of one sender reach every receiver in the order in which they  *)
(* were sent, although the broadcasts of several senders interleave.       *)
(***************************************************************************)
SenderOrder ==
    \A r \in Session : \A i, j \in 1..Len(queue[r]) :
        /\ i < j /\ queue[r][i].type = "chat" /\ queue[r][j].type = "chat"
        /\ RowAt(queue[r][i].seq).from = RowAt(queue[r][j].seq).from
        => queue[r][i].seq < queue[r][j].seq

\* the handler of some session still has to send message k to s
OnItsWay(s, k) ==
    \E a \in Session :
        work[a].seq = k /\ (pc[a] = "committed" \/ (pc[a] = "fanout" /\ s \in work[a].to))

\* a history that s has, is being sent or is about to be sent reaches to k
InHistory(s, k) ==
    \/ pc[s] = "registered"
    \/ pc[s] \in {"loaded", "entered"} /\ k <= Reach(work[s].history)
    \/ k <= base[s]

InWindow(s, k) == \E i \in 1..Len(window[s]) : window[s][i] = k

(***************************************************************************)
(* A session that is in the room misses no message: each one is within its *)
(* history, shown, queued or about to be queued.  The exceptions are those *)
(* that lost collects: the queue was full, the broadcast fell between the  *)
(* two halves of join_room, or RoomJoined wiped it from the window.        *)
(***************************************************************************)
NothingMissed ==
    \A s \in Session : joined[s] => \A k \in Sequence :
        InHistory(s, k) \/ InWindow(s, k) \/ k \in Chats(s) \/ OnItsWay(s, k) \/ k \in lost[s]

\* how often a message is shown or about to be
Copies(s, k) ==
    Cardinality({i \in 1..Len(window[s]) : window[s][i] = k})
    + Cardinality({i \in 1..Len(queue[s]) : queue[s][i] = Chat(k)})

(***************************************************************************)
(* A message that is committed between the registration of a session and   *)
(* its history is shown twice, once from each; never three times, whatever *)
(* the session joins, leaves and joins again meanwhile.                    *)
(***************************************************************************)
AtMostTwice == \A s \in Session : \A k \in Sequence : Copies(s, k) <= 2

(***************************************************************************)
(* Who is in a room is shown each message at least once, with the          *)
(* exceptions that lost names, and at most twice: append_message, the      *)
(* broadcast and join_room's two halves interleave (server.rs:1369).       *)
(***************************************************************************)
ShownOnceOrTwice == NothingMissed /\ AtMostTwice
=============================================================================
