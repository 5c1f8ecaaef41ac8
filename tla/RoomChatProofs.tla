--------------------------- MODULE RoomChatProofs ---------------------------
(* Proofs of the safety properties of RoomChat, for all constants. *)
EXTENDS RoomChat, FiniteSetTheorems, TLAPS

\* A handler that stores or sends a message holds it; what is queued has been committed.
Held ==
    \A s \in Session :
        /\ pc[s] = "sending" => work[s].id \in Message
        /\ pc[s] \in {"committed", "fanout"} => work[s].seq \in Sequence
        /\ \A i \in 1..Len(queue[s]) :
              queue[s][i].type = "chat" => queue[s][i].seq \in Sequence

\* What the handlers write into their records.
LEMMA WorkUpdates ==
    /\ Idle \in Work
    /\ \A w \in Work :
          /\ \A q \in SUBSET Session : [w EXCEPT !.to = q] \in Work
          /\ \A m \in Message : [w EXCEPT !.id = m] \in Work
          /\ \A k \in Nat : [w EXCEPT !.seq = k] \in Work
          /\ \A h \in History : [w EXCEPT !.history = h] \in Work
<1>1. Idle \in Work
  BY ConstantsAssumption DEF Idle, Work, History
<1>2. ASSUME NEW w \in Work, NEW q \in SUBSET Session PROVE [w EXCEPT !.to = q] \in Work
  BY DEF Work
<1>3. ASSUME NEW w \in Work, NEW m \in Message PROVE [w EXCEPT !.id = m] \in Work
  BY DEF Work
<1>4. ASSUME NEW w \in Work, NEW k \in Nat PROVE [w EXCEPT !.seq = k] \in Work
  BY DEF Work
<1>5. ASSUME NEW w \in Work, NEW h \in History PROVE [w EXCEPT !.history = h] \in Work
  BY DEF Work
<1>6. QED
  BY <1>1, <1>2, <1>3, <1>4, <1>5

\* A history is a sequence of sequence numbers, up to the newest one there is.
LEMMA HistoriesReach ==
    ASSUME nextSequence \in Nat \ {0}, room \in Room, NEW h \in Histories
    PROVE  /\ h \in History
           /\ Reach(h) = nextSequence - 1
           /\ h = <<>> \/ \E n \in 1..(nextSequence - 1) : h = Newest(n)
<1>1. CASE nextSequence = 1
  BY <1>1 DEF Histories, History, Reach
<1>2. CASE nextSequence # 1
  <2>1. PICK n \in 1..(nextSequence - 1) : h = Newest(n)
    BY <1>2, ConstantsAssumption DEF Histories
  <2>2. \A i \in 1..n : nextSequence - 1 - n + i \in Nat \ {0}
    OBVIOUS
  <2>3. h \in History /\ Len(h) = n
    BY <2>1, <2>2 DEF Newest, History
  <2>4. h[Len(h)] = nextSequence - 1 /\ h # <<>>
    BY <2>1, <2>3 DEF Newest
  <2>5. QED
    BY <2>1, <2>3, <2>4 DEF Reach
<1>3. QED
  BY <1>1, <1>2

\* try_send adds a packet at the end of one queue, or drops it because that queue is full.
LEMMA EnqueueEffect ==
    ASSUME queue \in [Session -> Seq(Packet)], NEW r \in Session, NEW m \in Packet,
           queue' = Enqueue(r, m)
    PROVE  /\ queue' \in [Session -> Seq(Packet)]
           /\ \A a \in Session \ {r} : queue'[a] = queue[a]
           /\ ~HasSpace(r) => queue' = queue
           /\ HasSpace(r) =>
                 /\ Len(queue'[r]) = Len(queue[r]) + 1
                 /\ queue'[r][Len(queue[r]) + 1] = m
                 /\ \A i \in 1..Len(queue[r]) : queue'[r][i] = queue[r][i]
           /\ \A a \in Session : \A i \in 1..Len(queue'[a]) :
                 \/ i \in 1..Len(queue[a]) /\ queue'[a][i] = queue[a][i]
                 \/ a = r /\ HasSpace(r) /\ i = Len(queue[r]) + 1 /\ queue'[a][i] = m
<1>1. queue[r] \in Seq(Packet)
  OBVIOUS
<1>2. CASE HasSpace(r)
  <2>1. queue' = [queue EXCEPT ![r] = Append(@, m)]
    BY <1>2 DEF Enqueue
  <2>2. /\ Len(queue'[r]) = Len(queue[r]) + 1 /\ queue'[r][Len(queue[r]) + 1] = m
        /\ \A i \in 1..Len(queue[r]) : queue'[r][i] = queue[r][i]
        /\ queue'[r] \in Seq(Packet) /\ Len(queue[r]) \in Nat
    BY <1>1, <2>1
  <2>3. \A i \in 1..Len(queue'[r]) : i \in 1..Len(queue[r]) \/ i = Len(queue[r]) + 1
    BY <2>2
  <2>4. QED
    BY <1>2, <2>1, <2>2, <2>3
<1>3. CASE ~HasSpace(r)
  BY <1>3 DEF Enqueue
<1>4. QED
  BY <1>2, <1>3

\* What the handlers queue are packets, with the fields that the client reads.
LEMMA PacketsMade ==
    /\ \A k \in Nat :
          /\ Chat(k) \in Packet /\ Chat(k).type = "chat" /\ Chat(k).seq = k
          /\ Chat(k).history = <<>>
    /\ \A h \in History :
          RoomJoined(h) \in Packet /\ RoomJoined(h).type = "joined" /\ RoomJoined(h).history = h
    /\ RoomLeft \in Packet /\ RoomLeft.type = "left" /\ RoomLeft.history = <<>>
  BY DEF Chat, RoomJoined, RoomLeft, Packet, History

\* The elements of a queue are packets.
LEMMA QueueElements ==
    ASSUME queue \in [Session -> Seq(Packet)], NEW a \in Session, NEW i \in 1..Len(queue[a])
    PROVE  /\ queue[a][i] \in Packet /\ queue[a][i].type \in {"chat", "joined", "left"}
           /\ queue[a][i].seq \in Nat /\ queue[a][i].history \in History
<1>1. queue[a][i] \in Packet
  OBVIOUS
<1>2. QED
  BY <1>1 DEF Packet

\* Delivering the head of a queue shifts the packets behind it.
LEMMA DeliverEffect ==
    ASSUME queue \in [Session -> Seq(Packet)], NEW s \in Session, Deliver(s)
    PROVE  /\ queue' \in [Session -> Seq(Packet)]
           /\ \A a \in Session \ {s} : queue'[a] = queue[a]
           /\ Len(queue[s]) \in Nat \ {0} /\ Head(queue[s]) = queue[s][1]
           /\ Len(queue'[s]) = Len(queue[s]) - 1
           /\ \A i \in 1..Len(queue'[s]) :
                 i + 1 \in 2..Len(queue[s]) /\ queue'[s][i] = queue[s][i + 1]
<1>1. queue[s] \in Seq(Packet) /\ queue[s] # <<>> /\ queue' = [queue EXCEPT ![s] = Tail(@)]
  BY DEF Deliver
<1>2. queue'[s] = Tail(queue[s])
  BY <1>1
<1>3. QED
  BY <1>1, <1>2

\* Closing connections leaves every variable within its type.
LEMMA CloseType ==
    ASSUME TypeOK, Held, NEW gone \in SUBSET Session, Close(gone)
    PROVE  TypeOK'
<1>1. ASSUME NEW s \in Session PROVE [work[s] EXCEPT !.to = @ \ gone] \in Work
  <2>1. work[s] \in Work
    BY DEF TypeOK
  <2>2. QED
    BY <2>1 DEF Work
<1>2. work' \in [Session -> Work]
  BY <1>1, WorkUpdates DEF Close
<1>3. /\ <<>> \in Seq(Packet) /\ <<>> \in History
      /\ pc' \in [Session -> PC] /\ joined' \in [Session -> BOOLEAN]
  BY DEF TypeOK, Close, History, PC
<1>4. /\ queue' \in [Session -> Seq(Packet)] /\ window' \in [Session -> History]
      /\ base' \in [Session -> Nat] /\ lost' \in [Session -> SUBSET Nat]
  BY <1>3 DEF TypeOK, Close
<1>5. TypeOK'
  BY <1>2, <1>3, <1>4 DEF TypeOK, Close, storeVars
<1>6. QED
  BY <1>5

\* No handler writes a value outside its variable's type.
LEMMA TypeStep == TypeOK /\ Held /\ [Next]_vars => TypeOK'
<1> SUFFICES ASSUME TypeOK, Held, [Next]_vars PROVE TypeOK'
  OBVIOUS
<1> USE ConstantsAssumption DEF TypeOK, Held
<1>a. \A s \in Session :
         /\ work[s] \in Work /\ work[s].history \in History /\ work[s].seq \in Nat
         /\ work[s].to \in SUBSET Session
  BY DEF Work
<1>b. \A h \in History : Reach(h) \in Nat
  BY DEF History, Reach
<1>c. /\ \A h \in Histories : h \in History
      /\ <<>> \in History
  BY HistoriesReach DEF History
<1>1. ASSUME NEW s \in Session, Connect(s) PROVE TypeOK'
  <2>1. room.general \in BOOLEAN
    OBVIOUS
  <2>2. QED
    BY <1>1, <2>1 DEF Connect, storeVars, PC
<1>2. ASSUME NEW s \in Session, LoadWelcome(s) PROVE TypeOK'
  <2>1. PICK h \in History : work' = [work EXCEPT ![s].history = h]
    BY <1>2, <1>c DEF LoadWelcome
  <2>2. work' \in [Session -> Work]
    BY <1>a, <2>1, WorkUpdates
  <2>3. QED
    BY <1>2, <2>2 DEF LoadWelcome, storeVars, PC
<1>3. ASSUME NEW s \in Session, FinishWelcome(s) PROVE TypeOK'
  <2>1. work' \in [Session -> Work]
    BY <1>3, WorkUpdates DEF FinishWelcome
  <2>2. window' \in [Session -> History] /\ base' \in [Session -> Nat]
    BY <1>3, <1>a, <1>b DEF FinishWelcome
  <2>3. QED
    BY <1>3, <2>1, <2>2 DEF FinishWelcome, storeVars, PC
<1>4. ASSUME NEW s \in Session, Disconnect(s) PROVE TypeOK'
  BY <1>4, CloseType DEF Disconnect
<1>5. ASSUME NEW s \in Session, NEW m \in Message, StartChat(s, m) PROVE TypeOK'
  <2>1. work' \in [Session -> Work]
    BY <1>5, <1>a, WorkUpdates DEF StartChat
  <2>2. QED
    BY <1>5, <2>1 DEF StartChat, storeVars, PC
<1>6. ASSUME NEW s \in Session, AppendMessage(s) PROVE TypeOK'
  <2>1. work' \in [Session -> Work]
    BY <1>6, <1>a, WorkUpdates DEF AppendMessage
  <2>2. stored' \subseteq [seq : Nat, id : Message, from : Session]
    BY <1>6 DEF AppendMessage
  <2>3. QED
    BY <1>6, <2>1, <2>2 DEF AppendMessage, PC
<1>7. ASSUME NEW s \in Session, RejectMessage(s) \/ FinishChat(s) PROVE TypeOK'
  <2>1. work' \in [Session -> Work]
    BY <1>7, WorkUpdates DEF RejectMessage, FinishChat
  <2>2. QED
    BY <1>7, <2>1 DEF RejectMessage, FinishChat, storeVars, PC
<1>8. ASSUME NEW s \in Session, CollectReceivers(s) PROVE TypeOK'
  <2>1. work' \in [Session -> Work]
    BY <1>8, <1>a, WorkUpdates DEF CollectReceivers, Receivers
  <2>2. QED
    BY <1>8, <1>a, <2>1 DEF CollectReceivers, storeVars, PC
<1>9. ASSUME NEW s \in Session, NEW r \in Session, SendChat(s, r) PROVE TypeOK'
  <2>1. work' \in [Session -> Work]
    BY <1>9, <1>a, WorkUpdates DEF SendChat
  <2>2. Chat(work[s].seq) \in Packet
    BY <1>a, PacketsMade
  <2>3. queue' \in [Session -> Seq(Packet)]
    BY <1>9, <2>2, EnqueueEffect DEF SendChat
  <2>4. lost' \in [Session -> SUBSET Nat]
    BY <1>9, <1>a DEF SendChat
  <2>5. QED
    BY <1>9, <2>1, <2>3, <2>4 DEF SendChat, storeVars
<1>10. ASSUME NEW s \in Session, StartJoin(s) PROVE TypeOK'
  BY <1>10 DEF StartJoin, storeVars, PC
<1>11. ASSUME NEW s \in Session, ReadHistory(s) PROVE TypeOK'
  <2>1. work' \in [Session -> Work]
    <3>1. CASE work' = work
      BY <3>1
    <3>2. CASE \E h \in Histories : work' = [work EXCEPT ![s].history = h]
      BY <3>2, <1>a, <1>c, WorkUpdates
    <3>3. QED
      BY <1>11, <3>1, <3>2 DEF ReadHistory
  <2>2. QED
    BY <1>11, <2>1 DEF ReadHistory, storeVars, PC
<1>12. ASSUME NEW s \in Session, EnterRoom(s) PROVE TypeOK'
  BY <1>12 DEF EnterRoom, storeVars, PC
<1>13. ASSUME NEW s \in Session, QueueRoomJoined(s) PROVE TypeOK'
  <2>1. work' \in [Session -> Work]
    BY <1>13, WorkUpdates DEF QueueRoomJoined
  <2>2. RoomJoined(work[s].history) \in Packet
    BY <1>a, PacketsMade
  <2>3. queue' \in [Session -> Seq(Packet)]
    BY <1>13, <2>2, EnqueueEffect DEF QueueRoomJoined
  <2>4. \A i \in 1..Len(queue[s]) : queue[s][i].seq \in Nat
    BY QueueElements
  <2>5. lost' \in [Session -> SUBSET Nat]
    BY <1>13, <1>a, <1>b, <2>4 DEF QueueRoomJoined, Chats
  <2>6. base' \in [Session -> Nat]
    BY <1>13, <1>a, <1>b DEF QueueRoomJoined
  <2>7. QED
    BY <1>13, <2>1, <2>3, <2>5, <2>6 DEF QueueRoomJoined, storeVars, PC
<1>14. ASSUME NEW s \in Session, LeaveRoom(s) PROVE TypeOK'
  <2>1. RoomLeft \in Packet
    BY PacketsMade
  <2>2. queue' \in [Session -> Seq(Packet)]
    BY <1>14, <2>1, EnqueueEffect DEF LeaveRoom
  <2>3. QED
    BY <1>14, <2>2 DEF LeaveRoom, storeVars
<1>15. ASSUME NEW s \in Session, Deliver(s) PROVE TypeOK'
  <2>1. queue' \in [Session -> Seq(Packet)]
    BY <1>15, DeliverEffect
  <2>2. Apply(window[s], Head(queue[s])) \in History
    <3> DEFINE m == Head(queue[s])
    <3>1. /\ m.type \in {"chat", "joined", "left"} /\ m.history \in History
          /\ m.type = "chat" => m.seq \in Nat \ {0}
      BY <1>15, DeliverEffect, QueueElements DEF Sequence
    <3>2. window[s] \in History
      OBVIOUS
    <3> HIDE DEF m
    <3>3. Apply(window[s], m) \in History
      BY <3>1, <3>2 DEF Apply, History
    <3>4. QED
      BY <3>3 DEF m
  <2>3. QED
    BY <1>15, <2>1, <2>2 DEF Deliver, storeVars
<1>16. ASSUME Crash PROVE TypeOK'
  BY <1>16, CloseType DEF Crash
<1>17. ASSUME UNCHANGED vars PROVE TypeOK'
  BY <1>17 DEF vars, storeVars
<1>18. QED
  BY <1>1, <1>2, <1>3, <1>4, <1>5, <1>6, <1>7, <1>8, <1>9, <1>10, <1>11, <1>12, <1>13, <1>14,
     <1>15, <1>16, <1>17 DEF Next, Handler

\* What a handler stores or sends, and what is queued, is in the log and stays there.
LEMMA HeldStep == TypeOK /\ Held /\ [Next]_vars => Held'
<1> SUFFICES ASSUME TypeOK, Held, [Next]_vars PROVE Held'
  OBVIOUS
<1> USE ConstantsAssumption DEF Held
<1>a. /\ work \in [Session -> Work] /\ pc \in [Session -> PC] /\ nextSequence \in Nat \ {0}
      /\ queue \in [Session -> Seq(Packet)] /\ \A s \in Session : work[s].seq \in Nat
      /\ \A s \in Session : work[s].history \in History
  BY DEF TypeOK, Work
<1>1. ASSUME NEW s \in Session, Connect(s) PROVE Held'
  BY <1>1, <1>a DEF Connect, storeVars, Sequence
<1>2. ASSUME NEW s \in Session, LoadWelcome(s) PROVE Held'
  BY <1>2, <1>a DEF LoadWelcome, storeVars, Sequence, Work
<1>3. ASSUME NEW s \in Session, FinishWelcome(s) PROVE Held'
  BY <1>3, <1>a DEF FinishWelcome, storeVars, Sequence
<1>4. ASSUME NEW s \in Session, Disconnect(s) PROVE Held'
  BY <1>4, <1>a DEF Disconnect, Close, storeVars, Sequence, Work
<1>5. ASSUME NEW s \in Session, NEW m \in Message, StartChat(s, m) PROVE Held'
  BY <1>5, <1>a DEF StartChat, storeVars, Sequence, Work
<1>6. ASSUME NEW s \in Session, AppendMessage(s) PROVE Held'
  BY <1>6, <1>a DEF AppendMessage, Sequence, Work
<1>7. ASSUME NEW s \in Session, RejectMessage(s) \/ FinishChat(s) PROVE Held'
  BY <1>7, <1>a DEF RejectMessage, FinishChat, storeVars, Sequence
<1>8. ASSUME NEW s \in Session, CollectReceivers(s) PROVE Held'
  BY <1>8, <1>a DEF CollectReceivers, storeVars, Sequence, Work
<1>9. ASSUME NEW s \in Session, NEW r \in Session, SendChat(s, r) PROVE Held'
  <2>1. /\ pc' = pc /\ nextSequence' = nextSequence
        /\ \A a \in Session : work'[a].id = work[a].id /\ work'[a].seq = work[a].seq
        /\ work[s].seq \in Sequence
    BY <1>9, <1>a DEF SendChat, storeVars, Work
  <2>2. \A a \in Session : \A i \in 1..Len(queue'[a]) :
           queue'[a][i].type = "chat" => queue'[a][i].seq \in Sequence
    <3>1. queue' = Enqueue(r, Chat(work[s].seq))
      BY <1>9 DEF SendChat
    <3>2. Chat(work[s].seq) \in Packet /\ Chat(work[s].seq).seq = work[s].seq
      BY <1>a, PacketsMade
    <3>3. \A a \in Session : \A i \in 1..Len(queue'[a]) :
             \/ i \in 1..Len(queue[a]) /\ queue'[a][i] = queue[a][i]
             \/ queue'[a][i] = Chat(work[s].seq)
      BY <1>a, <3>1, <3>2, EnqueueEffect
    <3>4. QED
      BY <2>1, <3>2, <3>3
  <2>3. QED
    BY <2>1, <2>2 DEF Sequence
<1>10. ASSUME NEW s \in Session, StartJoin(s) PROVE Held'
  BY <1>10, <1>a DEF StartJoin, storeVars, Sequence
<1>11. ASSUME NEW s \in Session, ReadHistory(s) PROVE Held'
  BY <1>11, <1>a DEF ReadHistory, storeVars, Sequence, Work
<1>12. ASSUME NEW s \in Session, EnterRoom(s) PROVE Held'
  BY <1>12, <1>a DEF EnterRoom, storeVars, Sequence
<1>13. ASSUME NEW s \in Session, QueueRoomJoined(s) PROVE Held'
  <2>1. \A a \in Session : \A i \in 1..Len(queue'[a]) :
           queue'[a][i].type = "chat" => queue'[a][i].seq \in Sequence
    <3>1. queue' = Enqueue(s, RoomJoined(work[s].history))
      BY <1>13 DEF QueueRoomJoined
    <3>2. /\ RoomJoined(work[s].history) \in Packet
          /\ RoomJoined(work[s].history).type # "chat"
      BY <1>a, PacketsMade
    <3>3. \A a \in Session : \A i \in 1..Len(queue'[a]) :
             \/ i \in 1..Len(queue[a]) /\ queue'[a][i] = queue[a][i]
             \/ queue'[a][i] = RoomJoined(work[s].history)
      BY <1>a, <3>1, <3>2, EnqueueEffect
    <3>4. QED
      BY <3>2, <3>3
  <2>2. QED
    BY <1>13, <1>a, <2>1 DEF QueueRoomJoined, storeVars, Sequence
<1>14. ASSUME NEW s \in Session, LeaveRoom(s) PROVE Held'
  <2>1. \A a \in Session : \A i \in 1..Len(queue'[a]) :
           queue'[a][i].type = "chat" => queue'[a][i].seq \in Sequence
    <3>1. queue' = Enqueue(s, RoomLeft) /\ RoomLeft \in Packet /\ RoomLeft.type # "chat"
      BY <1>14, PacketsMade DEF LeaveRoom
    <3>2. \A a \in Session : \A i \in 1..Len(queue'[a]) :
             \/ i \in 1..Len(queue[a]) /\ queue'[a][i] = queue[a][i]
             \/ queue'[a][i] = RoomLeft
      BY <1>a, <3>1, EnqueueEffect
    <3>3. QED
      BY <3>1, <3>2
  <2>2. QED
    BY <1>14, <1>a, <2>1 DEF LeaveRoom, storeVars, Sequence
<1>15. ASSUME NEW s \in Session, Deliver(s) PROVE Held'
  <2>1. \A a \in Session : \A i \in 1..Len(queue'[a]) :
           queue'[a][i].type = "chat" => queue'[a][i].seq \in Sequence
    <3>1. /\ \A a \in Session \ {s} : queue'[a] = queue[a]
          /\ \A i \in 1..Len(queue'[s]) :
                i + 1 \in 1..Len(queue[s]) /\ queue'[s][i] = queue[s][i + 1]
      BY <1>15, <1>a, DeliverEffect
    <3>2. QED
      BY <3>1
  <2>2. QED
    BY <1>15, <1>a, <2>1 DEF Deliver, storeVars, Sequence
<1>16. ASSUME Crash PROVE Held'
  BY <1>16, <1>a DEF Crash, Close, storeVars, Sequence
<1>17. ASSUME UNCHANGED vars PROVE Held'
  BY <1>17, <1>a DEF vars, storeVars, Sequence
<1>18. QED
  BY <1>1, <1>2, <1>3, <1>4, <1>5, <1>6, <1>7, <1>8, <1>9, <1>10, <1>11, <1>12, <1>13, <1>14,
     <1>15, <1>16, <1>17 DEF Next, Handler

\* Rows, handler records, queues and windows stay within their domains.
THEOREM TypeCorrect == Spec => []TypeOK
<1>1. Init => TypeOK /\ Held
  BY ConstantsAssumption, WorkUpdates DEF Init, TypeOK, Held, PC, History
<1>2. QED
  BY <1>1, TypeStep, HeldStep, PTL DEF Spec

\* The store is a log: one row for each sequence number, and each message once.
Logged ==
    /\ \A q \in stored : q.seq \in Sequence
    /\ \A k \in Sequence : \E q \in stored : q.seq = k
    /\ \A p, q \in stored : p.seq = q.seq \/ p.id = q.id => p = q

\* the room's messages and their senders, by sequence number
Texts == [k \in Sequence |-> IdAt(k)]
Author == [k \in Sequence |-> RowAt(k).from]

\* Only append_message writes to the store: one row at the end, for a message it lacks.
LEMMA StoreStep ==
    ASSUME TypeOK, [Next]_vars
    PROVE  \/ UNCHANGED <<nextSequence, stored>>
           \/ \E s \in Session : AppendMessage(s)
  BY DEF Next, Handler, vars, storeVars, Connect, LoadWelcome, FinishWelcome, Close, Disconnect,
         Crash, StartChat, RejectMessage, CollectReceivers, SendChat, FinishChat, StartJoin,
         ReadHistory, EnterRoom, QueueRoomJoined, LeaveRoom, Deliver

\* A message that is stored is the newest; the log keeps its shape and every other message.
LEMMA Appended ==
    ASSUME TypeOK, Held, Logged, NEW s \in Session, AppendMessage(s)
    PROVE  /\ Logged'
           /\ nextSequence' = nextSequence + 1 /\ nextSequence \in Nat \ {0}
           /\ \A k \in Sequence : k \in Sequence' /\ Texts'[k] = Texts[k] /\ Author'[k] = Author[k]
           /\ nextSequence \in Sequence' /\ work'[s].seq = nextSequence
           /\ Texts'[nextSequence] = work[s].id /\ Author'[nextSequence] = s
           /\ \A k \in Sequence : Texts[k] # work[s].id
<1> DEFINE row == [seq |-> nextSequence, id |-> work[s].id, from |-> s]
<1>1. /\ stored' = stored \cup {row} /\ nextSequence' = nextSequence + 1
      /\ row.id \notin Ids /\ nextSequence \in Nat \ {0}
  BY DEF AppendMessage, TypeOK
<1>2. row.seq = nextSequence /\ row.id = work[s].id /\ row.from = s
  OBVIOUS
<1> HIDE DEF row
<1>3. \A q \in stored : q.seq # row.seq /\ q.id # row.id
  BY <1>1, <1>2 DEF Logged, Sequence, Ids
<1>4. Logged'
  BY <1>1, <1>2, <1>3 DEF Logged, Sequence
<1>5. ASSUME NEW k \in Sequence
      PROVE  /\ k \in Sequence' /\ IdAt(k)' = IdAt(k) /\ RowAt(k)' = RowAt(k)
             /\ IdAt(k) # work[s].id
  <2>1. PICK q \in stored : q.seq = k
    BY DEF Logged
  <2>2. RowAt(k) = q
    BY <2>1 DEF Logged, RowAt
  <2>3. RowAt(k)' = q
    BY <1>1, <1>4, <2>1 DEF Logged, RowAt
  <2>4. IdAt(k) = q.id /\ IdAt(k)' = q.id
    BY <1>1, <2>1, <2>2, <2>3 DEF IdAt
  <2>5. QED
    BY <1>1, <1>2, <1>3, <2>1, <2>2, <2>3, <2>4 DEF Sequence
<1>6. Texts'[nextSequence] = work[s].id /\ Author'[nextSequence] = s /\ nextSequence \in Sequence'
  <2>1. PICK n \in Sequence' : n = nextSequence
    BY <1>1 DEF Sequence
  <2>2. RowAt(n)' = row
    BY <1>1, <1>2, <1>4, <2>1 DEF Logged, RowAt
  <2>3. IdAt(n)' = work[s].id
    BY <1>1, <1>2, <2>1, <2>2 DEF IdAt
  <2>4. QED
    BY <1>2, <2>1, <2>2, <2>3 DEF Texts, Author
<1>7. work'[s].seq = nextSequence
  BY DEF AppendMessage, TypeOK, Work
<1>8. QED
  BY <1>1, <1>4, <1>5, <1>6, <1>7 DEF Texts, Author

\* The log keeps its shape, and no message that it has ever changes.
LEMMA LoggedStep ==
    ASSUME TypeOK, Held, Logged, [Next]_vars
    PROVE  /\ Logged'
           /\ \A k \in Sequence : k \in Sequence' /\ Texts'[k] = Texts[k] /\ Author'[k] = Author[k]
<1>1. CASE UNCHANGED <<nextSequence, stored>>
  BY <1>1 DEF Logged, Sequence, RowAt, IdAt, Texts, Author
<1>2. CASE \E s \in Session : AppendMessage(s)
  BY <1>2, Appended
<1>3. QED
  BY <1>1, <1>2, StoreStep

-----------------------------------------------------------------------------
(* The order of one sender's messages *)

\* a still has its message to send to r
Pending(a, r) == pc[a] = "committed" \/ (pc[a] = "fanout" /\ r \in work[a].to)

\* What a sender has still to send is its own, and newer than what it has queued.
Ordered ==
    /\ \A a \in Session : pc[a] \in {"committed", "fanout"} => Author[work[a].seq] = a
    /\ \A a, r \in Session : \A i \in 1..Len(queue[r]) :
          Pending(a, r) /\ queue[r][i].type = "chat" /\ Author[queue[r][i].seq] = a
          => queue[r][i].seq < work[a].seq

\* What is queued from one sender is queued in the order in which it was stored.
Sorted ==
    \A r \in Session : \A i, j \in 1..Len(queue[r]) :
        /\ i < j /\ queue[r][i].type = "chat" /\ queue[r][j].type = "chat"
        /\ Author[queue[r][i].seq] = Author[queue[r][j].seq]
        => queue[r][i].seq < queue[r][j].seq

\* A step after which senders have no more to send, and queues only lost packets from the
\* front or gained no messages, keeps the order.
LEMMA OrderKept ==
    ASSUME TypeOK, Held, Ordered, Sorted,
           \A k \in Sequence : Author'[k] = Author[k],
           \A a \in Session : pc'[a] \in {"committed", "fanout"} =>
              pc[a] \in {"committed", "fanout"} /\ work'[a].seq = work[a].seq,
           \A a, r \in Session : Pending(a, r)' => Pending(a, r),
           \A r \in Session : \E d \in Nat : \A i \in 1..Len(queue'[r]) :
              queue'[r][i].type = "chat" =>
                 i + d \in 1..Len(queue[r]) /\ queue'[r][i] = queue[r][i + d]
    PROVE  Ordered' /\ Sorted'
<1>1. \A a \in Session : pc[a] \in {"committed", "fanout"} => work[a].seq \in Sequence
  BY DEF Held
<1>2. \A r \in Session : \A i \in 1..Len(queue[r]) :
         queue[r][i].type = "chat" => queue[r][i].seq \in Sequence
  BY DEF Held
<1>3. ASSUME NEW a \in Session, pc'[a] \in {"committed", "fanout"}
      PROVE  Author'[work'[a].seq] = a
  BY <1>1, <1>3 DEF Ordered
<1>4. ASSUME NEW a \in Session, NEW r \in Session, NEW i \in 1..Len(queue'[r]),
             Pending(a, r)', queue'[r][i].type = "chat", Author'[queue'[r][i].seq] = a
      PROVE  queue'[r][i].seq < work'[a].seq
  <2>1. PICK d \in Nat : i + d \in 1..Len(queue[r]) /\ queue'[r][i] = queue[r][i + d]
    BY <1>4
  <2>2. Author[queue[r][i + d].seq] = a
    BY <1>2, <1>4, <2>1
  <2>3. Pending(a, r) /\ work'[a].seq = work[a].seq
    BY <1>4 DEF Pending
  <2>4. QED
    BY <1>4, <2>1, <2>2, <2>3 DEF Ordered
<1>5. Ordered'
  BY <1>3, <1>4 DEF Ordered
<1>6. Sorted'
  <2> SUFFICES ASSUME NEW r \in Session, NEW i \in 1..Len(queue'[r]), NEW j \in 1..Len(queue'[r]),
                      i < j, queue'[r][i].type = "chat", queue'[r][j].type = "chat",
                      Author'[queue'[r][i].seq] = Author'[queue'[r][j].seq]
               PROVE  queue'[r][i].seq < queue'[r][j].seq
    BY DEF Sorted
  <2>1. PICK d \in Nat : \A l \in 1..Len(queue'[r]) : queue'[r][l].type = "chat" =>
           l + d \in 1..Len(queue[r]) /\ queue'[r][l] = queue[r][l + d]
    OBVIOUS
  <2>2. i + d \in 1..Len(queue[r]) /\ queue'[r][i] = queue[r][i + d]
    BY <2>1
  <2>3. j + d \in 1..Len(queue[r]) /\ queue'[r][j] = queue[r][j + d]
    BY <2>1
  <2>4. Author[queue[r][i + d].seq] = Author[queue[r][j + d].seq]
    <3>1. queue[r][i + d].seq \in Sequence /\ queue[r][j + d].seq \in Sequence
      BY <1>2, <2>2, <2>3
    <3>2. QED
      BY <2>2, <2>3, <3>1
  <2>5. i + d < j + d
    OBVIOUS
  <2>6. QED
    BY <2>2, <2>3, <2>4, <2>5 DEF Sorted
<1>7. QED
  BY <1>5, <1>6

\* Broadcasts of several senders interleave, but each queue keeps the order of every sender.
LEMMA OrderedStep ==
    ASSUME TypeOK, Held, Logged, Ordered, Sorted, [Next]_vars
    PROVE  Ordered' /\ Sorted'
<1>a. /\ work \in [Session -> Work] /\ pc \in [Session -> PC] /\ nextSequence \in Nat \ {0}
      /\ queue \in [Session -> Seq(Packet)] /\ \A s \in Session : work[s].seq \in Nat
      /\ \A s \in Session : work[s].history \in History
  BY DEF TypeOK, Work
<1>b. \A k \in Sequence : k \in Sequence' /\ Author'[k] = Author[k]
  BY LoggedStep
<1>c. ASSUME NEW r \in Session, NEW d \in {0}, queue'[r] = queue[r]
      PROVE  \A i \in 1..Len(queue'[r]) : queue'[r][i].type = "chat" =>
                i + d \in 1..Len(queue[r]) /\ queue'[r][i] = queue[r][i + d]
  BY <1>a, <1>c
<1>d. ASSUME queue' = queue
      PROVE  \A r \in Session : \E d \in Nat : \A i \in 1..Len(queue'[r]) :
                queue'[r][i].type = "chat" =>
                   i + d \in 1..Len(queue[r]) /\ queue'[r][i] = queue[r][i + d]
  BY <1>c, <1>d
<1>e. ASSUME NEW s \in Session, NEW m \in Packet, m.type # "chat", queue' = Enqueue(s, m)
      PROVE  \A r \in Session : \E d \in Nat : \A i \in 1..Len(queue'[r]) :
                queue'[r][i].type = "chat" =>
                   i + d \in 1..Len(queue[r]) /\ queue'[r][i] = queue[r][i + d]
  <2>1. \A r \in Session : \A i \in 1..Len(queue'[r]) : queue'[r][i].type = "chat" =>
           i + 0 \in 1..Len(queue[r]) /\ queue'[r][i] = queue[r][i + 0]
    <3>1. \A r \in Session : \A i \in 1..Len(queue'[r]) :
             (i \in 1..Len(queue[r]) /\ queue'[r][i] = queue[r][i]) \/ queue'[r][i] = m
      BY <1>a, <1>e, EnqueueEffect
    <3>2. QED
      BY <1>e, <3>1
  <2>2. QED
    BY <2>1
<1>f. ASSUME NEW gone \in SUBSET Session, Close(gone) PROVE Ordered' /\ Sorted'
  <2>1. \A r \in Session : \E d \in Nat : \A i \in 1..Len(queue'[r]) :
           queue'[r][i].type = "chat" =>
              i + d \in 1..Len(queue[r]) /\ queue'[r][i] = queue[r][i + d]
    <3>1. \A r \in Session : queue'[r] = queue[r] \/ Len(queue'[r]) = 0
      BY <1>f DEF Close
    <3>2. QED
      BY <1>c, <3>1
  <2>2. \A a \in Session : pc'[a] \in {"committed", "fanout"} =>
           pc'[a] = pc[a] /\ work'[a].seq = work[a].seq /\ work'[a].to \subseteq work[a].to
    BY <1>f, <1>a DEF Close, Work
  <2>3. \A a, r \in Session : Pending(a, r)' => Pending(a, r)
    BY <2>2 DEF Pending
  <2>4. QED
    BY <1>b, <2>1, <2>2, <2>3, OrderKept
<1>1. ASSUME NEW s \in Session, Connect(s) PROVE Ordered' /\ Sorted'
  BY <1>1, <1>a, <1>b, <1>d, OrderKept DEF Connect, Pending
<1>2. ASSUME NEW s \in Session, LoadWelcome(s) PROVE Ordered' /\ Sorted'
  BY <1>2, <1>a, <1>b, <1>d, OrderKept DEF LoadWelcome, Pending
<1>3. ASSUME NEW s \in Session, FinishWelcome(s) PROVE Ordered' /\ Sorted'
  BY <1>3, <1>a, <1>b, <1>d, OrderKept DEF FinishWelcome, Pending
<1>4. ASSUME NEW s \in Session, Disconnect(s) PROVE Ordered' /\ Sorted'
  BY <1>4, <1>f DEF Disconnect
<1>5. ASSUME NEW s \in Session, NEW m \in Message, StartChat(s, m) PROVE Ordered' /\ Sorted'
  BY <1>5, <1>a, <1>b, <1>d, OrderKept DEF StartChat, Pending
<1>6. ASSUME NEW s \in Session, AppendMessage(s) PROVE Ordered' /\ Sorted'
  <2>1. queue' = queue /\ pc'[s] = "committed" /\ work'[s].seq = nextSequence
        /\ Author'[nextSequence] = s
        /\ \A a \in Session \ {s} : work'[a] = work[a] /\ pc'[a] = pc[a]
    BY <1>6, <1>a, Appended DEF AppendMessage
  <2>2. \A r \in Session : \A i \in 1..Len(queue[r]) : queue[r][i].type = "chat" =>
           /\ queue[r][i].seq \in Sequence /\ queue[r][i].seq < nextSequence
           /\ Author'[queue[r][i].seq] = Author[queue[r][i].seq]
    BY <1>a, <1>b DEF Held, Sequence
  <2>3. \A a \in Session \ {s} : pc[a] \in {"committed", "fanout"} => work[a].seq \in Sequence
    BY DEF Held
  <2>4. Ordered'
    BY <1>b, <2>1, <2>2, <2>3 DEF Ordered, Pending
  <2>5. Sorted'
    BY <2>1, <2>2 DEF Sorted
  <2>6. QED
    BY <2>4, <2>5
<1>7. ASSUME NEW s \in Session, RejectMessage(s) \/ FinishChat(s) PROVE Ordered' /\ Sorted'
  BY <1>7, <1>a, <1>b, <1>d, OrderKept DEF RejectMessage, FinishChat, Pending
<1>8. ASSUME NEW s \in Session, CollectReceivers(s) PROVE Ordered' /\ Sorted'
  <2>1. /\ pc[s] = "committed" /\ pc'[s] = "fanout" /\ queue' = queue
        /\ work'[s].seq = work[s].seq
        /\ \A a \in Session \ {s} : work'[a] = work[a] /\ pc'[a] = pc[a]
    BY <1>8, <1>a DEF CollectReceivers, Work
  <2>2. \A a, r \in Session : Pending(a, r)' => Pending(a, r)
    BY <2>1 DEF Pending
  <2>3. QED
    BY <1>b, <1>d, <2>1, <2>2, OrderKept
<1>9. ASSUME NEW s \in Session, NEW r \in Session, SendChat(s, r) PROVE Ordered' /\ Sorted'
  <2>1. /\ pc[s] = "fanout" /\ r \in work[s].to /\ pc' = pc /\ r \notin work'[s].to
        /\ \A a \in Session : work'[a].seq = work[a].seq /\ work'[a].to \subseteq work[a].to
        /\ queue' = Enqueue(r, Chat(work[s].seq))
    BY <1>9, <1>a DEF SendChat, Work
  <2>2. Chat(work[s].seq) \in Packet /\ Chat(work[s].seq).seq = work[s].seq
    BY <1>a, PacketsMade
  <2>3. \A x \in Session : \A i \in 1..Len(queue'[x]) :
           \/ i \in 1..Len(queue[x]) /\ queue'[x][i] = queue[x][i]
           \/ x = r /\ i = Len(queue[r]) + 1 /\ queue'[x][i].seq = work[s].seq
    BY <1>a, <2>1, <2>2, EnqueueEffect
  <2>4. Pending(s, r) /\ ~Pending(s, r)' /\ \A a, x \in Session : Pending(a, x)' => Pending(a, x)
    BY <2>1 DEF Pending
  <2>5. /\ \A a \in Session : pc[a] \in {"committed", "fanout"} => work[a].seq \in Sequence
        /\ \A x \in Session : \A i \in 1..Len(queue[x]) :
              queue[x][i].type = "chat" => queue[x][i].seq \in Sequence
    BY DEF Held
  <2>6. Author[work[s].seq] = s
    BY <2>1 DEF Ordered
  <2>7. Ordered'
    <3>1. \A a \in Session : pc'[a] \in {"committed", "fanout"} => Author'[work'[a].seq] = a
      BY <1>b, <2>1, <2>5 DEF Ordered
    <3>2. ASSUME NEW a \in Session, NEW x \in Session, NEW i \in 1..Len(queue'[x]),
                 Pending(a, x)', queue'[x][i].type = "chat", Author'[queue'[x][i].seq] = a
          PROVE  queue'[x][i].seq < work'[a].seq
      <4>1. CASE i \in 1..Len(queue[x]) /\ queue'[x][i] = queue[x][i]
        BY <1>b, <2>1, <2>4, <2>5, <3>2, <4>1 DEF Ordered
      <4>2. CASE x = r /\ queue'[x][i].seq = work[s].seq
        <5>1. a = s
          BY <1>b, <2>1, <2>5, <2>6, <3>2, <4>2
        <5>2. QED
          BY <2>4, <3>2, <4>2, <5>1
      <4>3. QED
        BY <2>3, <4>1, <4>2
    <3>3. QED
      BY <3>1, <3>2 DEF Ordered
  <2>8. Sorted'
    <3> SUFFICES ASSUME NEW x \in Session, NEW i \in 1..Len(queue'[x]), NEW j \in 1..Len(queue'[x]),
                        i < j, queue'[x][i].type = "chat", queue'[x][j].type = "chat",
                        Author'[queue'[x][i].seq] = Author'[queue'[x][j].seq]
                 PROVE  queue'[x][i].seq < queue'[x][j].seq
      BY DEF Sorted
    <3>1. Len(queue[x]) \in Nat
      BY <1>a
    <3>2. i \in 1..Len(queue[x]) /\ queue'[x][i] = queue[x][i]
      <4>1. ~(x = r /\ i = Len(queue[r]) + 1)
        BY <2>3, <3>1
      <4>2. QED
        BY <2>3, <4>1
    <3>3. Author'[queue'[x][i].seq] = Author[queue[x][i].seq]
      BY <1>b, <2>5, <3>2
    <3>4. CASE j \in 1..Len(queue[x]) /\ queue'[x][j] = queue[x][j]
      <4>1. Author'[queue'[x][j].seq] = Author[queue[x][j].seq]
        BY <1>b, <2>5, <3>4
      <4>2. QED
        BY <3>2, <3>3, <3>4, <4>1 DEF Sorted
    <3>5. CASE x = r /\ queue'[x][j].seq = work[s].seq
      <4>1. Author'[queue'[x][j].seq] = s
        BY <1>b, <2>1, <2>5, <2>6, <3>5
      <4>2. QED
        BY <2>4, <3>2, <3>3, <3>5, <4>1 DEF Ordered
    <3>6. QED
      BY <2>3, <3>4, <3>5
  <2>9. QED
    BY <2>7, <2>8
<1>10. ASSUME NEW s \in Session, StartJoin(s) PROVE Ordered' /\ Sorted'
  BY <1>10, <1>a, <1>b, <1>d, OrderKept DEF StartJoin, Pending
<1>11. ASSUME NEW s \in Session, ReadHistory(s) PROVE Ordered' /\ Sorted'
  BY <1>11, <1>a, <1>b, <1>d, OrderKept DEF ReadHistory, Pending, Work
<1>12. ASSUME NEW s \in Session, EnterRoom(s) PROVE Ordered' /\ Sorted'
  BY <1>12, <1>a, <1>b, <1>d, OrderKept DEF EnterRoom, Pending
<1>13. ASSUME NEW s \in Session, QueueRoomJoined(s) PROVE Ordered' /\ Sorted'
  <2>1. /\ queue' = Enqueue(s, RoomJoined(work[s].history))
        /\ RoomJoined(work[s].history) \in Packet /\ RoomJoined(work[s].history).type # "chat"
    BY <1>13, <1>a, PacketsMade DEF QueueRoomJoined
  <2>2. \A a \in Session : pc'[a] \in {"committed", "fanout"} =>
           pc'[a] = pc[a] /\ work'[a] = work[a]
    BY <1>13, <1>a DEF QueueRoomJoined
  <2>3. \A a, r \in Session : Pending(a, r)' => Pending(a, r)
    BY <2>2 DEF Pending
  <2>4. QED
    BY <1>b, <1>e, <2>1, <2>2, <2>3, OrderKept
<1>14. ASSUME NEW s \in Session, LeaveRoom(s) PROVE Ordered' /\ Sorted'
  <2>1. /\ queue' = Enqueue(s, RoomLeft) /\ pc' = pc /\ work' = work
        /\ RoomLeft \in Packet /\ RoomLeft.type # "chat"
    BY <1>14, PacketsMade DEF LeaveRoom
  <2>2. \A a, r \in Session : Pending(a, r)' => Pending(a, r)
    BY <2>1 DEF Pending
  <2>3. QED
    BY <1>b, <1>e, <2>1, <2>2, OrderKept
<1>15. ASSUME NEW s \in Session, Deliver(s) PROVE Ordered' /\ Sorted'
  <2>1. pc' = pc /\ work' = work /\ \A r \in Session \ {s} : queue'[r] = queue[r]
    BY <1>15, <1>a DEF Deliver
  <2>2. \A i \in 1..Len(queue'[s]) : i + 1 \in 1..Len(queue[s]) /\ queue'[s][i] = queue[s][i + 1]
    BY <1>15, <1>a, DeliverEffect
  <2>3. \A r \in Session : \E d \in Nat : \A i \in 1..Len(queue'[r]) :
           queue'[r][i].type = "chat" =>
              i + d \in 1..Len(queue[r]) /\ queue'[r][i] = queue[r][i + d]
    BY <1>c, <2>1, <2>2
  <2>4. \A a, r \in Session : Pending(a, r)' => Pending(a, r)
    BY <2>1 DEF Pending
  <2>5. QED
    BY <1>b, <2>1, <2>3, <2>4, OrderKept
<1>16. ASSUME Crash PROVE Ordered' /\ Sorted'
  BY <1>16, <1>f DEF Crash
<1>17. ASSUME UNCHANGED vars PROVE Ordered' /\ Sorted'
  BY <1>17, <1>b, <1>d, OrderKept DEF vars, Pending
<1>18. QED
  BY <1>1, <1>2, <1>3, <1>4, <1>5, <1>6, <1>7, <1>8, <1>9, <1>10, <1>11, <1>12, <1>13, <1>14,
     <1>15, <1>16, <1>17 DEF Next, Handler

(***************************************************************************)
(* handle_room_chat stores a message in one transaction and sends it with  *)
(* no lock held.  Whatever the other handlers do meanwhile, every receiver *)
(* has each sender's messages queued in the order in which they were       *)
(* stored.                                                                 *)
(***************************************************************************)
THEOREM SenderOrderCorrect == Spec => []SenderOrder
<1>1. Init => TypeOK /\ Held /\ Logged /\ Ordered /\ Sorted
  BY ConstantsAssumption, WorkUpdates
  DEF Init, TypeOK, Held, PC, History, Logged, Ordered, Sorted, Sequence, Pending
<1>2. TypeOK /\ Held /\ Logged /\ Ordered /\ Sorted /\ [Next]_vars
         => TypeOK' /\ Held' /\ Logged' /\ Ordered' /\ Sorted'
  BY TypeStep, HeldStep, LoggedStep, OrderedStep
<1>3. Held /\ Sorted => SenderOrder
  BY DEF Held, Sorted, SenderOrder, Author
<1>4. QED
  BY <1>1, <1>2, <1>3, PTL DEF Spec

-----------------------------------------------------------------------------
(* The room is a log *)

\* a history is a run of consecutive messages, none newer than n
IsRun(h, n) == h = <<>> \/ \E e \in 1..n : \E l \in 1..e : h = [i \in 1..l |-> e - l + i]

\* What has been read as a history is one; windows show messages of the log.
Genuine ==
    \A s \in Session :
        /\ IsRun(work[s].history, nextSequence - 1)
        /\ \A i \in 1..Len(queue[s]) : IsRun(queue[s][i].history, nextSequence - 1)
        /\ \A i \in 1..Len(window[s]) : window[s][i] \in Sequence

\* A run shows messages of the log, each once, up to the newest it reaches.
LEMMA RunShows ==
    ASSUME NEW n \in Nat, NEW h, IsRun(h, n)
    PROVE  /\ h \in History /\ Len(h) \in Nat /\ Reach(h) \in 0..n
           /\ \A i \in 1..Len(h) : h[i] \in 1..n /\ h[i] <= Reach(h)
           /\ \A i, j \in 1..Len(h) : h[i] = h[j] => i = j
<1>1. CASE h = <<>>
  BY <1>1 DEF History, Reach
<1>2. ASSUME NEW e \in 1..n, NEW l \in 1..e, h = [i \in 1..l |-> e - l + i]
      PROVE  /\ h \in History /\ Len(h) \in Nat /\ Reach(h) \in 0..n
             /\ \A i \in 1..Len(h) : h[i] \in 1..n /\ h[i] <= Reach(h)
             /\ \A i, j \in 1..Len(h) : h[i] = h[j] => i = j
  <2>1. \A i \in 1..l : e - l + i \in Nat \ {0} /\ e - l + i <= e
    OBVIOUS
  <2>2. h \in Seq(Nat \ {0}) /\ Len(h) = l
    BY <1>2, <2>1
  <2>3. \A i \in 1..l : h[i] = e - l + i
    BY <1>2
  <2>4. Reach(h) = e
    <3>1. h # <<>>
      BY <2>2
    <3>2. QED
      BY <2>2, <2>3, <3>1 DEF Reach
  <2>5. QED
    BY <2>1, <2>2, <2>3, <2>4 DEF History
<1>3. QED
  BY <1>1, <1>2 DEF IsRun

\* A run of the log stays one when the log grows.
LEMMA RunGrows ==
    ASSUME NEW n \in Nat, NEW m \in Nat, n <= m, NEW h, IsRun(h, n)
    PROVE  IsRun(h, m)
  BY DEF IsRun

\* What the store returns as a history is a run of the log.
LEMMA HistoryIsRun ==
    ASSUME TypeOK, NEW h \in Histories
    PROVE  IsRun(h, nextSequence - 1) /\ Reach(h) = nextSequence - 1
<1>1. /\ Reach(h) = nextSequence - 1
      /\ h = <<>> \/ \E n \in 1..(nextSequence - 1) : h = Newest(n)
  BY HistoriesReach DEF TypeOK
<1>2. ASSUME NEW n \in 1..(nextSequence - 1), h = Newest(n) PROVE IsRun(h, nextSequence - 1)
  <2>1. nextSequence - 1 \in 1..(nextSequence - 1)
    BY DEF TypeOK
  <2>2. QED
    BY <1>2, <2>1 DEF IsRun, Newest
<1>3. QED
  BY <1>1, <1>2 DEF IsRun

\* Histories and windows hold nothing but the log, in every step.
LEMMA GenuineStep ==
    ASSUME TypeOK, Held, Logged, Genuine, [Next]_vars
    PROVE  Genuine'
<1> DEFINE Last == nextSequence - 1
<1>a. /\ work \in [Session -> Work] /\ pc \in [Session -> PC] /\ nextSequence \in Nat \ {0}
      /\ queue \in [Session -> Seq(Packet)] /\ \A s \in Session : work[s].seq \in Nat
      /\ \A s \in Session : work[s].history \in History
      /\ window \in [Session -> History]
  BY DEF TypeOK, Work
<1>b. Last' \in Nat /\ Last \in Nat /\ Last <= Last' /\ \A k \in Sequence : k \in Sequence'
  <2>1. CASE UNCHANGED nextSequence
    BY <1>a, <2>1 DEF Sequence
  <2>2. CASE nextSequence' = nextSequence + 1
    BY <1>a, <2>2 DEF Sequence
  <2>3. QED
    BY <2>1, <2>2, StoreStep DEF AppendMessage
<1>c. \A h : IsRun(h, Last) => IsRun(h, Last')
  BY <1>b, RunGrows
<1>d. IsRun(<<>>, Last')
  BY DEF IsRun
<1>e. /\ \A s \in Session : IsRun(work[s].history, Last')
      /\ \A s \in Session : \A i \in 1..Len(queue[s]) : IsRun(queue[s][i].history, Last')
      /\ \A s \in Session : \A i \in 1..Len(window[s]) : window[s][i] \in Sequence'
  BY <1>b, <1>c DEF Genuine
<1>f. \A h : IsRun(h, Last) => \A i \in 1..Len(h) : h[i] \in Sequence'
  BY <1>b, RunShows DEF Sequence
<1>g. ASSUME NEW s \in Session, NEW m \in Packet, IsRun(m.history, Last'), queue' = Enqueue(s, m)
      PROVE  \A r \in Session : \A i \in 1..Len(queue'[r]) : IsRun(queue'[r][i].history, Last')
  <2>1. \A r \in Session : \A i \in 1..Len(queue'[r]) :
           (i \in 1..Len(queue[r]) /\ queue'[r][i] = queue[r][i]) \/ queue'[r][i] = m
    BY <1>a, <1>g, EnqueueEffect
  <2>2. QED
    BY <1>e, <1>g, <2>1
<1>h. Idle.history = <<>>
  BY DEF Idle
<1> HIDE DEF Last
<1>i. ASSUME NEW s \in Session, queue' = queue, window' = window,
             IsRun(work'[s].history, Last'),
             \A r \in Session \ {s} : work'[r].history = work[r].history
      PROVE  Genuine'
  BY <1>e, <1>i DEF Genuine, Last
<1>j. ASSUME queue' = queue, window' = window, \A r \in Session : work'[r].history = work[r].history
      PROVE  Genuine'
  BY <1>e, <1>j DEF Genuine, Last
<1>k. ASSUME NEW gone \in SUBSET Session, Close(gone) PROVE Genuine'
  <2>1. \A r \in Session : work'[r].history = work[r].history \/ work'[r].history = <<>>
    BY <1>k, <1>a, <1>h DEF Close, Work
  <2>2. \A r \in Session : /\ queue'[r] = queue[r] \/ Len(queue'[r]) = 0
                           /\ window'[r] = window[r] \/ Len(window'[r]) = 0
    BY <1>k DEF Close
  <2>3. QED
    BY <1>d, <1>e, <2>1, <2>2 DEF Genuine, Last
<1>1. ASSUME NEW s \in Session, Connect(s) PROVE Genuine'
  BY <1>1, <1>j DEF Connect
<1>2. ASSUME NEW s \in Session, LoadWelcome(s) PROVE Genuine'
  <2>1. PICK h \in Histories \cup {<<>>} : work' = [work EXCEPT ![s].history = h]
    BY <1>2 DEF LoadWelcome
  <2>2. IsRun(h, Last')
    BY <1>c, <1>d, HistoryIsRun DEF Last
  <2>3. QED
    BY <1>2, <1>a, <1>i, <2>1, <2>2 DEF LoadWelcome, Work
<1>3. ASSUME NEW s \in Session, FinishWelcome(s) PROVE Genuine'
  <2>1. \A i \in 1..Len(window'[s]) : window'[s][i] \in Sequence'
    BY <1>3, <1>a, <1>f DEF FinishWelcome, Genuine, Last
  <2>2. \A r \in Session \ {s} : work'[r] = work[r] /\ window'[r] = window[r]
    BY <1>3, <1>a DEF FinishWelcome
  <2>3. work'[s].history = <<>> /\ queue' = queue
    BY <1>3, <1>a, <1>h DEF FinishWelcome
  <2>4. QED
    BY <1>d, <1>e, <2>1, <2>2, <2>3 DEF Genuine, Last
<1>4. ASSUME NEW s \in Session, Disconnect(s) PROVE Genuine'
  BY <1>4, <1>k DEF Disconnect
<1>5. ASSUME NEW s \in Session, NEW m \in Message, StartChat(s, m) PROVE Genuine'
  BY <1>5, <1>a, <1>j DEF StartChat, Work
<1>6. ASSUME NEW s \in Session, AppendMessage(s) PROVE Genuine'
  BY <1>6, <1>a, <1>j DEF AppendMessage, Work
<1>7. ASSUME NEW s \in Session, RejectMessage(s) \/ FinishChat(s) PROVE Genuine'
  BY <1>7, <1>a, <1>d, <1>h, <1>i DEF RejectMessage, FinishChat
<1>8. ASSUME NEW s \in Session, CollectReceivers(s) PROVE Genuine'
  BY <1>8, <1>a, <1>j DEF CollectReceivers, Work
<1>9. ASSUME NEW s \in Session, NEW r \in Session, SendChat(s, r) PROVE Genuine'
  <2>1. /\ queue' = Enqueue(r, Chat(work[s].seq)) /\ window' = window
        /\ \A a \in Session : work'[a].history = work[a].history
    BY <1>9, <1>a DEF SendChat, Work
  <2>2. Chat(work[s].seq) \in Packet /\ IsRun(Chat(work[s].seq).history, Last')
    BY <1>a, <1>d, PacketsMade
  <2>3. QED
    BY <1>e, <1>g, <2>1, <2>2 DEF Genuine, Last
<1>10. ASSUME NEW s \in Session, StartJoin(s) PROVE Genuine'
  BY <1>10, <1>j DEF StartJoin
<1>11. ASSUME NEW s \in Session, ReadHistory(s) PROVE Genuine'
  <2>1. CASE work' = work
    BY <1>11, <1>j, <2>1 DEF ReadHistory
  <2>2. ASSUME NEW h \in Histories, work' = [work EXCEPT ![s].history = h] PROVE Genuine'
    <3>1. IsRun(h, Last')
      BY <1>c, HistoryIsRun DEF Last
    <3>2. QED
      BY <1>11, <1>a, <1>i, <2>2, <3>1 DEF ReadHistory, Work
  <2>3. QED
    BY <1>11, <2>1, <2>2 DEF ReadHistory
<1>12. ASSUME NEW s \in Session, EnterRoom(s) PROVE Genuine'
  BY <1>12, <1>j DEF EnterRoom
<1>13. ASSUME NEW s \in Session, QueueRoomJoined(s) PROVE Genuine'
  <2>1. queue' = Enqueue(s, RoomJoined(work[s].history)) /\ window' = window
    BY <1>13 DEF QueueRoomJoined
  <2>2. /\ RoomJoined(work[s].history) \in Packet
        /\ IsRun(RoomJoined(work[s].history).history, Last')
    BY <1>a, <1>e, PacketsMade
  <2>3. \A r \in Session : work'[r].history = work[r].history \/ work'[r].history = <<>>
    BY <1>13, <1>a, <1>h DEF QueueRoomJoined
  <2>4. QED
    BY <1>d, <1>e, <1>g, <2>1, <2>2, <2>3 DEF Genuine, Last
<1>14. ASSUME NEW s \in Session, LeaveRoom(s) PROVE Genuine'
  <2>1. queue' = Enqueue(s, RoomLeft) /\ window' = window /\ work' = work
    BY <1>14 DEF LeaveRoom
  <2>2. RoomLeft \in Packet /\ IsRun(RoomLeft.history, Last')
    BY <1>d, PacketsMade
  <2>3. QED
    BY <1>e, <1>g, <2>1, <2>2 DEF Genuine, Last
<1>15. ASSUME NEW s \in Session, Deliver(s) PROVE Genuine'
  <2>1. work' = work /\ \A r \in Session \ {s} : queue'[r] = queue[r] /\ window'[r] = window[r]
    BY <1>15, <1>a DEF Deliver
  <2>2. /\ Len(queue[s]) \in Nat \ {0} /\ Head(queue[s]) = queue[s][1]
        /\ \A i \in 1..Len(queue'[s]) : i + 1 \in 1..Len(queue[s]) /\ queue'[s][i] = queue[s][i + 1]
    BY <1>15, <1>a, DeliverEffect
  <2>3. \A i \in 1..Len(window'[s]) : window'[s][i] \in Sequence'
    <3> DEFINE m == queue[s][1]
    <3>1. window'[s] = Apply(window[s], m)
      BY <1>15, <1>a, <2>2 DEF Deliver
    <3>2. /\ m.type \in {"chat", "joined", "left"} /\ IsRun(m.history, Last)
          /\ m.type = "chat" => m.seq \in Sequence'
      BY <1>a, <1>b, <2>2, QueueElements DEF Held, Genuine, Last
    <3> HIDE DEF m
    <3>3. CASE m.type = "chat"
      <4>1. window'[s] = Append(window[s], m.seq) /\ window[s] \in Seq(Nat \ {0})
        BY <1>a, <3>1, <3>3 DEF Apply, History
      <4>2. QED
        BY <1>e, <3>2, <3>3, <4>1
    <3>4. CASE m.type = "joined"
      BY <1>f, <3>1, <3>2, <3>4 DEF Apply
    <3>5. CASE m.type = "left"
      BY <1>e, <3>1, <3>5 DEF Apply
    <3>6. QED
      BY <3>2, <3>3, <3>4, <3>5
  <2>4. \A i \in 1..Len(queue'[s]) : IsRun(queue'[s][i].history, Last')
    BY <1>e, <2>2
  <2>5. QED
    BY <1>e, <2>1, <2>3, <2>4 DEF Genuine, Last
<1>16. ASSUME Crash PROVE Genuine'
  BY <1>16, <1>k DEF Crash
<1>17. ASSUME UNCHANGED vars PROVE Genuine'
  BY <1>17, <1>j DEF vars
<1>18. QED
  BY <1>1, <1>2, <1>3, <1>4, <1>5, <1>6, <1>7, <1>8, <1>9, <1>10, <1>11, <1>12, <1>13, <1>14,
     <1>15, <1>16, <1>17 DEF Next, Handler

\* The store holds the messages of the log, in the order of their sequence numbers.
LEMMA TextsIsSeq ==
    ASSUME TypeOK, Logged
    PROVE  Texts \in Seq(Message) /\ Len(Texts) = nextSequence - 1 /\ DOMAIN Texts = Sequence
<1>1. \A k \in Sequence : IdAt(k) \in Message
  <2> SUFFICES ASSUME NEW k \in Sequence PROVE IdAt(k) \in Message
    OBVIOUS
  <2>1. PICK q \in stored : q.seq = k
    BY DEF Logged
  <2>2. RowAt(k) = q /\ q.id \in Message
    BY <2>1 DEF Logged, RowAt, TypeOK
  <2>3. QED
    BY <2>1, <2>2 DEF IdAt
<1>2. Sequence = 1..(nextSequence - 1) /\ nextSequence - 1 \in Nat
  BY DEF Sequence, TypeOK
<1>3. QED
  BY <1>1, <1>2 DEF Texts

\* append_message publishes one message that the log does not have.
LEMMA PublishStep ==
    ASSUME TypeOK, TypeOK', Held, Logged, NEW s \in Session, AppendMessage(s)
    PROVE  Log!Publish(work[s].id) /\ work[s].id \in Message
<1> DEFINE m == work[s].id
<1>1. m \in Message
  BY DEF Held, AppendMessage
<1>2. /\ Logged' /\ nextSequence' = nextSequence + 1 /\ nextSequence \in Nat \ {0}
      /\ \A k \in Sequence : Texts'[k] = Texts[k] /\ Texts[k] # m
      /\ Texts'[nextSequence] = m
  BY Appended
<1>3. Texts \in Seq(Message) /\ Len(Texts) = nextSequence - 1 /\ DOMAIN Texts = Sequence
  BY TextsIsSeq
<1>4. Texts' = [k \in Sequence' |-> Texts'[k]]
  BY DEF Texts
<1>5. Sequence = 1..(nextSequence - 1) /\ Sequence' = 1..nextSequence
  BY <1>2 DEF Sequence
<1> HIDE DEF m
<1>6. /\ Append(Texts, m) = [k \in 1..nextSequence |-> Append(Texts, m)[k]]
      /\ Append(Texts, m)[nextSequence] = m
      /\ \A k \in Sequence : Append(Texts, m)[k] = Texts[k]
  <2>1. Len(Append(Texts, m)) = nextSequence /\ Append(Texts, m) \in Seq(Message)
    BY <1>1, <1>2, <1>3 DEF m
  <2>2. Append(Texts, m)[Len(Texts) + 1] = m
    BY <1>1, <1>3 DEF m
  <2>3. \A k \in 1..Len(Texts) : Append(Texts, m)[k] = Texts[k]
    BY <1>1, <1>3 DEF m
  <2>4. \A q \in Seq(Message) : q = [k \in 1..Len(q) |-> q[k]]
    OBVIOUS
  <2>5. Append(Texts, m) = [k \in 1..nextSequence |-> Append(Texts, m)[k]]
    BY <2>1, <2>4
  <2>6. Append(Texts, m)[nextSequence] = m
    BY <1>2, <1>3, <2>2
  <2>7. QED
    BY <1>3, <1>5, <2>3, <2>5, <2>6
<1>7. Texts' = Append(Texts, m)
  <2>1. \A k \in 1..nextSequence : k \in Sequence \/ k = nextSequence
    BY <1>2, <1>5
  <2>2. \A k \in 1..nextSequence : Texts'[k] = Append(Texts, m)[k]
    BY <1>2, <1>6, <2>1
  <2>3. QED
    BY <1>4, <1>5, <1>6, <2>2
<1>8. window' = window
  BY DEF AppendMessage
<1>9. \A k \in 1..Len(Texts) : Texts[k] # m
  BY <1>2, <1>3, <1>5
<1>10. QED
  BY <1>1, <1>7, <1>8, <1>9 DEF Log!Publish, Log!Position, Texts, m

\* A window that is filled with a history shows a stretch of the log, or nothing.
LEMMA LoadStep ==
    ASSUME TypeOK, Logged, NEW s \in Session, NEW h, IsRun(h, nextSequence - 1),
           window' = [window EXCEPT ![s] = h], Texts' = Texts
    PROVE  Log!Next
<1>1. CASE h = <<>>
  <2>1. window' = [r \in Session |-> IF r \in {s} THEN <<>> ELSE window[r]]
    BY <1>1 DEF TypeOK
  <2>2. Log!Close
    BY <2>1 DEF Log!Close, Texts
  <2>3. QED
    BY <2>2 DEF Log!Next
<1>2. ASSUME NEW e \in 1..(nextSequence - 1), NEW l \in 1..e, h = [i \in 1..l |-> e - l + i]
      PROVE  Log!Next
  <2> DEFINE a == e + 1 - l
  <2>1. Len(Texts) = nextSequence - 1 /\ nextSequence - 1 \in Nat
    BY TextsIsSeq DEF TypeOK
  <2>2. /\ a \in 1..e /\ e \in 1..Len(Texts) /\ a \in 1..Len(Texts) /\ e + 1 - a = l
        /\ l <= Len(Texts) + 1 - a
    BY <2>1
  <2> DEFINE newest == [i \in 1..(Len(Texts) + 1 - a) |-> a + i - 1]
  <2>3. SubSeq(newest, 1, l) = h
    <3>1. newest \in Seq(Nat) /\ Len(newest) = Len(Texts) + 1 - a
      BY <2>1, <2>2
    <3>2. SubSeq(newest, 1, l) \in Seq(Nat) /\ Len(SubSeq(newest, 1, l)) = l
      BY <2>1, <2>2, <3>1
    <3>3. \A i \in 1..l : SubSeq(newest, 1, l)[i] = newest[i] /\ newest[i] = e - l + i
      BY <2>1, <2>2, <3>1
    <3>4. \A q \in Seq(Nat) : q = [i \in 1..Len(q) |-> q[i]]
      OBVIOUS
    <3> HIDE DEF newest
    <3>5. SubSeq(newest, 1, l) = [i \in 1..l |-> SubSeq(newest, 1, l)[i]]
      BY <3>2, <3>4
    <3>6. QED
      BY <1>2, <3>3, <3>5
  <2>4. Log!Newest(a) = newest
    BY DEF Log!Newest, Texts
  <2>5. window' = [window EXCEPT ![s] = SubSeq(Log!Newest(a), 1, e + 1 - a)]
    BY <2>2, <2>3, <2>4
  <2> HIDE DEF a, newest
  <2>6. Log!Load(s)
    <3>1. a \in Log!Position /\ e \in Log!Position /\ a <= e
      BY <2>2 DEF Log!Position, Texts
    <3>2. QED
      BY <2>5, <3>1 DEF Log!Load, Texts
  <2>7. QED
    BY <2>6 DEF Log!Next
<1>3. QED
  BY <1>1, <1>2 DEF IsRun

\* Every step appends to the log, changes what one window shows of it, or closes windows.
LEMMA LogStep ==
    ASSUME TypeOK, TypeOK', Held, Logged, Genuine, [Next]_vars
    PROVE  [Log!Next]_<<Texts, window>>
<1> USE DEF Texts
<1>a. UNCHANGED <<nextSequence, stored>> => Texts' = Texts
  BY DEF Texts, Sequence, IdAt, RowAt
<1>b. ASSUME UNCHANGED <<nextSequence, stored>>, NEW gone \in SUBSET Session, Close(gone)
      PROVE  Log!Next
  <2>1. Log!Close
    BY <1>a, <1>b DEF Close, Log!Close
  <2>2. QED
    BY <2>1 DEF Log!Next
<1>1. CASE UNCHANGED <<nextSequence, stored, window>>
  BY <1>1, <1>a
<1>2. ASSUME NEW s \in Session, AppendMessage(s) PROVE Log!Next
  BY <1>2, PublishStep DEF Log!Next
<1>3. ASSUME NEW s \in Session, FinishWelcome(s) PROVE Log!Next
  <2>1. IsRun(work[s].history, nextSequence - 1)
    BY DEF Genuine
  <2>2. QED
    BY <1>3, <1>a, <2>1, LoadStep DEF FinishWelcome, storeVars
<1>4. ASSUME NEW s \in Session, Disconnect(s) PROVE Log!Next
  BY <1>4, <1>b DEF Disconnect, Close, storeVars
<1>5. ASSUME Crash PROVE Log!Next
  BY <1>5, <1>b DEF Crash, Close, storeVars
<1>6. ASSUME NEW s \in Session, Deliver(s) PROVE [Log!Next]_<<Texts, window>>
  <2> DEFINE m == queue[s][1]
  <2>1. window' = [window EXCEPT ![s] = Apply(@, m)] /\ Texts' = Texts /\ 1 \in 1..Len(queue[s])
    BY <1>6, <1>a, DeliverEffect DEF Deliver, storeVars, TypeOK
  <2>2. /\ m.type \in {"chat", "joined", "left"} /\ IsRun(m.history, nextSequence - 1)
        /\ m.type = "chat" => m.seq \in Sequence
    BY <2>1, QueueElements DEF Held, Genuine, TypeOK
  <2> HIDE DEF m
  <2>3. CASE m.type = "chat"
    <3>1. m.seq \in Log!Position
      BY <2>2, <2>3, TextsIsSeq DEF Log!Position, Sequence
    <3>2. window' = [window EXCEPT ![s] = Append(@, m.seq)]
      BY <2>1, <2>3 DEF Apply
    <3>3. Log!Show(s)
      BY <2>1, <3>1, <3>2 DEF Log!Show
    <3>4. QED
      BY <3>3 DEF Log!Next
  <2>4. CASE m.type = "joined"
    <3>1. window' = [window EXCEPT ![s] = m.history]
      BY <2>1, <2>4 DEF Apply
    <3>2. QED
      BY <2>1, <2>2, <3>1, LoadStep
  <2>5. CASE m.type = "left"
    BY <2>1, <2>5 DEF Apply, TypeOK
  <2>6. QED
    BY <2>2, <2>3, <2>4, <2>5
<1>7. QED
  <2>1. ASSUME NEW s \in Session,
               \/ Connect(s) \/ LoadWelcome(s) \/ (\E m \in Message : StartChat(s, m))
               \/ RejectMessage(s) \/ CollectReceivers(s)
               \/ (\E r \in Session : SendChat(s, r)) \/ FinishChat(s) \/ StartJoin(s)
               \/ ReadHistory(s) \/ EnterRoom(s) \/ QueueRoomJoined(s) \/ LeaveRoom(s)
        PROVE  UNCHANGED <<nextSequence, stored, window>>
    BY <2>1 DEF Connect, LoadWelcome, StartChat, RejectMessage, CollectReceivers, SendChat,
          FinishChat, StartJoin, ReadHistory, EnterRoom, QueueRoomJoined, LeaveRoom, storeVars
  <2>2. UNCHANGED vars => UNCHANGED <<nextSequence, stored, window>>
    BY DEF vars, storeVars
  <2>3. QED
    BY <1>1, <1>2, <1>3, <1>4, <1>5, <1>6, <2>1, <2>2 DEF Next, Handler

(***************************************************************************)
(* append_message gives out the sequence numbers, and with the handlers,   *)
(* queues and clients around it a room is still one append-only log: no    *)
(* gap, no message twice, and nothing in a window that is not in the log.  *)
(***************************************************************************)
THEOREM RoomIsLogCorrect == Spec => RoomIsLog
<1>1. Init => TypeOK /\ Held /\ Logged /\ Genuine
  BY ConstantsAssumption, WorkUpdates
  DEF Init, TypeOK, Held, PC, History, Logged, Genuine, Sequence, IsRun, Idle
<1>2. TypeOK /\ Held /\ Logged /\ Genuine /\ [Next]_vars
         => TypeOK' /\ Held' /\ Logged' /\ Genuine'
  BY TypeStep, HeldStep, LoggedStep, GenuineStep
<1>3. Init => Log!Init
  <2>1. ASSUME Init PROVE Texts = <<>>
    BY <2>1 DEF Init, Texts, Sequence
  <2>2. QED
    BY <2>1 DEF Init, Log!Init, Texts
<1>4. TypeOK /\ TypeOK' /\ Held /\ Logged /\ Genuine /\ [Next]_vars
         => [Log!Next]_<<Texts, window>>
  BY LogStep
<1>5. Spec => Log!Spec
  BY <1>1, <1>2, <1>3, <1>4, PTL DEF Spec, Log!Spec, Texts
<1>6. QED
  BY <1>5 DEF RoomIsLog

-----------------------------------------------------------------------------
(* No message is missed *)

\* Before its Welcome a session shows nothing and is in no room but the general one.
Unwelcomed ==
    \A s \in Session :
        /\ pc[s] \in {"off", "registered", "loaded"} => window[s] = <<>> /\ base[s] = 0
        /\ pc[s] = "off" => ~joined[s]
        /\ pc[s] = "registered" => (joined[s] => room.general)

\* A history that join_room has read covers what its client has been shown.
Covered ==
    \A s \in Session :
        /\ base[s] < nextSequence
        /\ pc[s] \in {"read", "entered"} =>
              /\ base[s] <= Reach(work[s].history)
              /\ \A i \in 1..Len(window[s]) : window[s][i] <= Reach(work[s].history)

\* Packet i of the queue of s is message k.
Queued(s, i, k) == queue[s][i].type = "chat" /\ queue[s][i].seq = k

\* What RoomJoined wipes from the window is in its history or counted as lost.
WipedFor(s) ==
    \A i \in 1..Len(queue[s]) : queue[s][i].type = "joined" =>
        /\ Reach(queue[s][i].history) <= base[s]
        /\ \A k \in Sequence :
              InWindow(s, k) \/ (\E j \in 1..(i - 1) : Queued(s, j, k))
              => k <= base[s] \/ k \in lost[s]
Wiped == \A s \in Session : WipedFor(s)

\* Between the halves of join_room, what the history lacks is lost or will find the session.
Halfway ==
    \A s \in Session : pc[s] = "read" /\ ~joined[s] =>
        \A k \in Sequence :
            \/ k <= Reach(work[s].history) \/ k \in lost[s]
            \/ \E a \in Session : pc[a] = "committed" /\ work[a].seq = k

\* A session leaves the state before its Welcome with Welcome, and joins only after it.
LEMMA UnwelcomedStep ==
    ASSUME TypeOK, Unwelcomed, [Next]_vars
    PROVE  Unwelcomed'
<1> USE DEF Unwelcomed, TypeOK
<1>1. ASSUME NEW s \in Session, Connect(s) \/ LoadWelcome(s) \/ FinishWelcome(s) PROVE Unwelcomed'
  BY <1>1 DEF Connect, LoadWelcome, FinishWelcome, storeVars
<1>2. ASSUME NEW s \in Session, Disconnect(s) PROVE Unwelcomed'
  BY <1>2 DEF Disconnect, Close, storeVars
<1>3. ASSUME NEW s \in Session, \/ \E m \in Message : StartChat(s, m)
                                \/ AppendMessage(s) \/ RejectMessage(s) \/ CollectReceivers(s)
                                \/ (\E r \in Session : SendChat(s, r)) \/ FinishChat(s)
      PROVE  Unwelcomed'
  BY <1>3 DEF StartChat, AppendMessage, RejectMessage, CollectReceivers, SendChat, FinishChat,
        storeVars
<1>4. ASSUME NEW s \in Session, StartJoin(s) \/ ReadHistory(s) \/ EnterRoom(s)
      PROVE  Unwelcomed'
  BY <1>4 DEF StartJoin, ReadHistory, EnterRoom, storeVars
<1>5. ASSUME NEW s \in Session, QueueRoomJoined(s) PROVE Unwelcomed'
  BY <1>5 DEF QueueRoomJoined, storeVars
<1>6. ASSUME NEW s \in Session, LeaveRoom(s) \/ Deliver(s) PROVE Unwelcomed'
  BY <1>6 DEF LeaveRoom, Deliver, storeVars
<1>7. ASSUME Crash PROVE Unwelcomed'
  BY <1>7 DEF Crash, Close, storeVars
<1>8. ASSUME UNCHANGED vars PROVE Unwelcomed'
  BY <1>8 DEF vars, storeVars
<1>9. QED
  BY <1>1, <1>2, <1>3, <1>4, <1>5, <1>6, <1>7, <1>8 DEF Next, Handler

\* A history is read when it reaches to the end of the log, so past all that was shown before.
LEMMA CoveredStep ==
    ASSUME TypeOK, TypeOK', Held, Genuine, Covered, [Next]_vars
    PROVE  Covered'
<1>a. /\ work \in [Session -> Work] /\ pc \in [Session -> PC] /\ nextSequence \in Nat \ {0}
      /\ \A s \in Session : work[s].history \in History
      /\ window \in [Session -> History] /\ base \in [Session -> Nat]
      /\ base' \in [Session -> Nat]
  BY DEF TypeOK, Work
<1>b. nextSequence' \in Nat /\ nextSequence <= nextSequence'
  BY <1>a, StoreStep DEF AppendMessage
<1>c. \A s \in Session : Reach(work[s].history) \in 0..(nextSequence - 1)
  BY <1>a, RunShows DEF Genuine
<1>d. /\ \A s \in Session : \A i \in 1..Len(window[s]) : window[s][i] <= nextSequence - 1
      /\ \A s \in Session : base[s] < nextSequence'
  BY <1>a, <1>b DEF Genuine, Sequence, Covered
<1>e. ASSUME window' = window, base' = base,
             \A r \in Session : pc'[r] \in {"read", "entered"} =>
                pc[r] \in {"read", "entered"} /\ work'[r].history = work[r].history
      PROVE  Covered'
  BY <1>d, <1>e DEF Covered
<1>f. ASSUME NEW gone \in SUBSET Session, Close(gone) PROVE Covered'
  <2>1. \A r \in Session : /\ r \in gone => pc'[r] = "off" /\ base'[r] = 0
                           /\ r \notin gone => /\ pc'[r] = pc[r] /\ base'[r] = base[r]
                                               /\ window'[r] = window[r]
                                               /\ work'[r].history = work[r].history
    BY <1>a, <1>f DEF Close, Work
  <2>2. QED
    BY <1>a, <1>b, <1>d, <2>1 DEF Covered
<1>1. ASSUME NEW s \in Session, Connect(s) \/ LoadWelcome(s) PROVE Covered'
  BY <1>1, <1>a, <1>e DEF Connect, LoadWelcome
<1>2. ASSUME NEW s \in Session, FinishWelcome(s) PROVE Covered'
  <2>1. pc'[s] = "online" /\ base'[s] <= nextSequence - 1
    BY <1>2, <1>a, <1>c DEF FinishWelcome
  <2>2. \A r \in Session \ {s} : /\ pc'[r] = pc[r] /\ base'[r] = base[r]
                                 /\ window'[r] = window[r] /\ work'[r] = work[r]
    BY <1>2, <1>a DEF FinishWelcome
  <2>3. base'[s] < nextSequence'
    BY <1>a, <1>b, <2>1
  <2>4. QED
    BY <1>d, <2>1, <2>2, <2>3 DEF Covered
<1>3. ASSUME NEW s \in Session, Disconnect(s) PROVE Covered'
  BY <1>3, <1>f DEF Disconnect
<1>4. ASSUME NEW s \in Session, \/ \E m \in Message : StartChat(s, m)
                                \/ AppendMessage(s) \/ RejectMessage(s) \/ FinishChat(s)
      PROVE  Covered'
  BY <1>4, <1>a, <1>e DEF StartChat, AppendMessage, RejectMessage, FinishChat
<1>5. ASSUME NEW s \in Session, CollectReceivers(s) \/ \E r \in Session : SendChat(s, r)
      PROVE  Covered'
  BY <1>5, <1>a, <1>e DEF CollectReceivers, SendChat
<1>6. ASSUME NEW s \in Session, StartJoin(s) \/ EnterRoom(s) PROVE Covered'
  BY <1>6, <1>a, <1>e DEF StartJoin, EnterRoom
<1>7. ASSUME NEW s \in Session, ReadHistory(s) PROVE Covered'
  <2>1. CASE pc'[s] = "online"
    BY <1>7, <1>a, <1>e, <2>1 DEF ReadHistory, Work
  <2>2. CASE pc'[s] # "online"
    <3>1. PICK h \in Histories : work' = [work EXCEPT ![s].history = h]
      BY <1>7, <1>a, <2>2 DEF ReadHistory
    <3>2. Reach(h) = nextSequence - 1
      BY HistoryIsRun
    <3>3. work'[s].history = h /\ \A r \in Session \ {s} : work'[r] = work[r]
      BY <1>a, <3>1 DEF Work
    <3>4. /\ window' = window /\ base' = base
          /\ \A r \in Session \ {s} : pc'[r] = pc[r]
      BY <1>7, <1>a DEF ReadHistory
    <3>5. base[s] <= nextSequence - 1
      BY <1>a DEF Covered
    <3>6. QED
      BY <1>d, <3>2, <3>3, <3>4, <3>5 DEF Covered
  <2>3. QED
    BY <2>1, <2>2
<1>8. ASSUME NEW s \in Session, QueueRoomJoined(s) PROVE Covered'
  <2>1. pc'[s] = "online" /\ (base'[s] = Reach(work[s].history) \/ base'[s] = base[s])
    BY <1>8, <1>a DEF QueueRoomJoined
  <2>2. /\ window' = window
        /\ \A r \in Session \ {s} : pc'[r] = pc[r] /\ base'[r] = base[r] /\ work'[r] = work[r]
    BY <1>8, <1>a DEF QueueRoomJoined
  <2>3. base'[s] < nextSequence'
    BY <1>a, <1>b, <1>c, <1>d, <2>1
  <2>4. QED
    BY <1>d, <2>1, <2>2, <2>3 DEF Covered
<1>9. ASSUME NEW s \in Session, LeaveRoom(s) PROVE Covered'
  BY <1>9, <1>a, <1>e DEF LeaveRoom
<1>10. ASSUME NEW s \in Session, Deliver(s) PROVE Covered'
  <2>1. /\ pc' = pc /\ work' = work /\ base' = base /\ pc[s] = "online"
        /\ \A r \in Session \ {s} : window'[r] = window[r]
    BY <1>10, <1>a DEF Deliver
  <2>2. QED
    BY <1>d, <2>1 DEF Covered
<1>11. ASSUME Crash PROVE Covered'
  BY <1>11, <1>f DEF Crash
<1>12. ASSUME UNCHANGED vars PROVE Covered'
  BY <1>12, <1>e DEF vars
<1>13. QED
  BY <1>1, <1>2, <1>3, <1>4, <1>5, <1>6, <1>7, <1>8, <1>9, <1>10, <1>11, <1>12 DEF Next, Handler

\* A session whose queue and window stay as they are loses nothing more by RoomJoined.
LEMMA WipedKept ==
    ASSUME TypeOK, TypeOK', Held, Genuine, NEW s \in Session, WipedFor(s),
           base[s] <= base'[s], lost[s] \subseteq lost'[s],
           queue'[s] = queue[s], window'[s] = window[s]
    PROVE  WipedFor(s)'
<1>1. base[s] \in Nat /\ base'[s] \in Nat /\ Len(queue[s]) \in Nat
  BY DEF TypeOK
<1>2. \A i \in 1..Len(queue[s]) : Reach(queue[s][i].history) \in Nat
  <2>1. nextSequence - 1 \in Nat
    BY DEF TypeOK
  <2>2. QED
    BY <2>1, RunShows DEF Genuine
<1>3. \A k : /\ InWindow(s, k) => k \in Sequence
             /\ \A j \in 1..Len(queue[s]) : Queued(s, j, k) => k \in Sequence
  BY DEF Held, Genuine, InWindow, Queued
<1>4. \A k \in Sequence : k \in Nat
  BY DEF Sequence
<1>5. ASSUME NEW i \in 1..Len(queue[s]), queue[s][i].type = "joined", NEW k,
             InWindow(s, k) \/ \E j \in 1..(i - 1) : Queued(s, j, k)
      PROVE  k <= base'[s] \/ k \in lost'[s]
  <2>1. k \in Sequence
    BY <1>1, <1>3, <1>5
  <2>2. k <= base[s] \/ k \in lost[s]
    BY <1>5, <2>1 DEF WipedFor
  <2>3. QED
    BY <1>1, <1>4, <2>1, <2>2
<1>6. \A i \in 1..Len(queue[s]) : queue[s][i].type = "joined" =>
         Reach(queue[s][i].history) <= base'[s]
  BY <1>1, <1>2 DEF WipedFor
<1>7. QED
  BY <1>5, <1>6 DEF WipedFor, InWindow, Queued

\* Packets that come behind it do not change what a RoomJoined wipes.
LEMMA WipedBehind ==
    ASSUME TypeOK, Held, Genuine, NEW s \in Session, WipedFor(s), NEW m \in Packet,
           m.type # "joined", queue' = Enqueue(s, m),
           UNCHANGED <<nextSequence, base, window>>, lost[s] \subseteq lost'[s]
    PROVE  WipedFor(s)'
<1>1. queue \in [Session -> Seq(Packet)] /\ Len(queue[s]) \in Nat
  BY DEF TypeOK
<1>2. \A i \in 1..Len(queue'[s]) :
         (i \in 1..Len(queue[s]) /\ queue'[s][i] = queue[s][i]) \/ queue'[s][i] = m
  BY <1>1, EnqueueEffect
<1>3. \A i \in 1..Len(queue[s]) : queue'[s][i] = queue[s][i]
  <2>1. CASE HasSpace(s)
    BY <1>1, <2>1, EnqueueEffect
  <2>2. CASE ~HasSpace(s)
    BY <2>2 DEF Enqueue
  <2>3. QED
    BY <2>1, <2>2
<1>4. ASSUME NEW i \in 1..Len(queue'[s]), queue'[s][i].type = "joined"
      PROVE  /\ Reach(queue'[s][i].history) <= base'[s]
             /\ \A k \in Sequence' :
                   InWindow(s, k)' \/ (\E j \in 1..(i - 1) : Queued(s, j, k)')
                   => k <= base'[s] \/ k \in lost'[s]
  <2>1. i \in 1..Len(queue[s]) /\ queue'[s][i] = queue[s][i]
    BY <1>2, <1>4
  <2>2. \A j \in 1..(i - 1) : j \in 1..Len(queue[s]) /\ queue'[s][j] = queue[s][j]
    BY <1>1, <1>3, <2>1
  <2>3. Sequence' = Sequence
    BY DEF Sequence
  <2>4. ASSUME NEW k \in Sequence, InWindow(s, k)' \/ \E j \in 1..(i - 1) : Queued(s, j, k)'
        PROVE  InWindow(s, k) \/ \E j \in 1..(i - 1) : Queued(s, j, k)
    BY <2>2, <2>4 DEF InWindow, Queued
  <2>5. queue[s][i].type = "joined" /\ base' = base
    BY <1>4, <2>1
  <2>6. QED
    BY <2>1, <2>3, <2>4, <2>5 DEF WipedFor
<1>5. QED
  BY <1>4 DEF WipedFor

\* RoomJoined is queued with what it wipes in its history, or counted in lost.
LEMMA WipedByJoin ==
    ASSUME TypeOK, TypeOK', Held, Genuine, Covered, Wiped, NEW s \in Session, QueueRoomJoined(s)
    PROVE  WipedFor(s)'
<1> DEFINE h == work[s].history
<1>1. /\ queue \in [Session -> Seq(Packet)] /\ Len(queue[s]) \in Nat
      /\ h \in History /\ base[s] \in Nat /\ nextSequence - 1 \in Nat
  BY DEF TypeOK, Work
<1>2. /\ pc[s] = "entered" /\ window' = window /\ nextSequence' = nextSequence
      /\ queue' = Enqueue(s, RoomJoined(h))
      /\ lost[s] \subseteq lost'[s]
  BY DEF QueueRoomJoined, TypeOK, storeVars
<1>3. /\ Reach(h) \in Nat /\ base[s] <= Reach(h)
      /\ \A i \in 1..Len(window[s]) : window[s][i] <= Reach(h)
  <2>1. IsRun(h, nextSequence - 1)
    BY DEF Genuine
  <2>2. Reach(h) \in 0..(nextSequence - 1)
    BY <1>1, <2>1, RunShows
  <2>3. QED
    BY <1>1, <1>2, <2>2 DEF Covered
<1>4. WipedFor(s)
  BY DEF Wiped
<1>5. CASE ~HasSpace(s)
  <2>1. queue' = queue /\ base'[s] = base[s]
    BY <1>2, <1>5 DEF Enqueue, QueueRoomJoined, TypeOK
  <2>2. QED
    BY <1>1, <1>2, <1>4, <2>1, WipedKept
<1>6. CASE HasSpace(s)
  <2> DEFINE n == Len(queue[s]) + 1
             m == RoomJoined(h)
  <2>1. m \in Packet /\ m.history = h
    BY <1>1, PacketsMade
  <2>2. base'[s] = Reach(h) /\ \A k \in Chats(s) : k <= Reach(h) \/ k \in lost'[s]
    <3>1. base' = [base EXCEPT ![s] = Reach(h)]
      BY <1>6 DEF QueueRoomJoined
    <3>2. lost' = [lost EXCEPT ![s] = @ \cup {k \in Chats(s) : k > Reach(h)}]
      BY <1>6 DEF QueueRoomJoined
    <3>3. \A k \in Chats(s) : k \in Nat
      BY <1>1, QueueElements DEF Chats
    <3> HIDE DEF h
    <3>4. lost'[s] = lost[s] \cup {k \in Chats(s) : k > Reach(h)}
      BY <3>2 DEF TypeOK
    <3>5. QED
      BY <1>3, <3>1, <3>3, <3>4 DEF TypeOK
  <2>3. /\ Len(queue'[s]) = n /\ queue'[s][n] = m
        /\ \A i \in 1..Len(queue[s]) : queue'[s][i] = queue[s][i]
    BY <1>1, <1>2, <1>6, <2>1, EnqueueEffect
  <2>4. Sequence' = Sequence /\ \A k \in Sequence : k \in Nat
    BY <1>2 DEF Sequence
  <2> HIDE DEF n, m, h
  <2>5. ASSUME NEW i \in 1..Len(queue[s]), queue'[s][i].type = "joined"
        PROVE  /\ Reach(queue'[s][i].history) <= base'[s]
               /\ \A k \in Sequence' :
                     InWindow(s, k)' \/ (\E j \in 1..(i - 1) : Queued(s, j, k)')
                     => k <= base'[s] \/ k \in lost'[s]
    <3>1. queue'[s][i] = queue[s][i] /\ queue[s][i].type = "joined"
      BY <2>3, <2>5
    <3>2. Reach(queue[s][i].history) \in Nat
      BY <1>1, RunShows DEF Genuine
    <3>3. Reach(queue[s][i].history) <= base[s]
      BY <1>4, <3>1 DEF WipedFor
    <3>4. \A j \in 1..(i - 1) : j \in 1..Len(queue[s]) /\ queue'[s][j] = queue[s][j]
      BY <1>1, <2>3
    <3>5. ASSUME NEW k \in Sequence, InWindow(s, k)' \/ \E j \in 1..(i - 1) : Queued(s, j, k)'
          PROVE  k <= base'[s] \/ k \in lost'[s]
      <4>1. InWindow(s, k) \/ \E j \in 1..(i - 1) : Queued(s, j, k)
        BY <1>2, <3>4, <3>5 DEF InWindow, Queued
      <4>2. k <= base[s] \/ k \in lost[s]
        BY <1>4, <3>1, <4>1 DEF WipedFor
      <4>3. QED
        BY <1>1, <1>2, <1>3, <2>2, <2>4, <4>2
    <3>6. QED
      BY <1>1, <1>3, <2>2, <2>4, <3>1, <3>2, <3>3, <3>5
  <2>6. ASSUME NEW k \in Sequence, InWindow(s, k)' \/ \E j \in 1..(n - 1) : Queued(s, j, k)'
        PROVE  k <= base'[s] \/ k \in lost'[s]
    <3>1. CASE InWindow(s, k)'
      BY <1>2, <1>3, <2>2, <3>1 DEF InWindow
    <3>2. CASE \E j \in 1..(n - 1) : Queued(s, j, k)'
      <4>1. PICK j \in 1..Len(queue[s]) : Queued(s, j, k)
        BY <1>1, <2>3, <3>2 DEF Queued, n
      <4>2. k \in Chats(s)
        BY <4>1 DEF Chats, Queued
      <4>3. QED
        BY <2>2, <4>2
    <3>3. QED
      BY <2>6, <3>1, <3>2
  <2>7. Reach(queue'[s][n].history) <= base'[s]
    BY <1>3, <2>1, <2>2, <2>3
  <2>8. \A i \in 1..Len(queue'[s]) : i \in 1..Len(queue[s]) \/ i = n
    BY <1>1, <2>3 DEF n
  <2>9. QED
    BY <2>4, <2>5, <2>6, <2>7, <2>8 DEF WipedFor
<1>7. QED
  BY <1>5, <1>6

\* Delivering a packet moves into the window what the later ones already account for.
LEMMA WipedByDelivery ==
    ASSUME TypeOK, TypeOK', Held, Genuine, Wiped, NEW s \in Session, Deliver(s)
    PROVE  WipedFor(s)'
<1> DEFINE m == queue[s][1]
<1>1. /\ queue \in [Session -> Seq(Packet)] /\ Len(queue[s]) \in Nat \ {0}
      /\ base[s] \in Nat /\ nextSequence - 1 \in Nat /\ window[s] \in Seq(Nat \ {0})
      /\ \A i \in 1..Len(queue'[s]) : i + 1 \in 2..Len(queue[s]) /\ queue'[s][i] = queue[s][i + 1]
      /\ Len(queue'[s]) \in Nat
  BY DeliverEffect DEF TypeOK, History
<1>2. /\ base' = base /\ lost' = lost /\ Sequence' = Sequence
      /\ window'[s] = Apply(window[s], m)
  BY DeliverEffect DEF TypeOK, Deliver, storeVars, Sequence
<1>3. m.type \in {"chat", "joined", "left"} /\ IsRun(m.history, nextSequence - 1)
  BY <1>1, QueueElements DEF Genuine
<1>4. \A k : InWindow(s, k)' =>
         InWindow(s, k) \/ Queued(s, 1, k) \/ (m.type = "joined" /\ k <= Reach(m.history))
  <2> HIDE DEF m
  <2>1. CASE m.type = "chat"
    <3>1. window'[s] = Append(window[s], m.seq)
      BY <1>2, <2>1 DEF Apply
    <3>2. \A i \in 1..Len(window'[s]) :
             (i \in 1..Len(window[s]) /\ window'[s][i] = window[s][i]) \/ window'[s][i] = m.seq
      BY <1>1, <3>1
    <3>3. QED
      BY <2>1, <3>2 DEF InWindow, Queued, m
  <2>2. CASE m.type = "joined"
    <3>1. window'[s] = m.history
      BY <1>2, <2>2 DEF Apply
    <3>2. \A i \in 1..Len(m.history) : m.history[i] <= Reach(m.history)
      BY <1>1, <1>3, RunShows
    <3>3. QED
      BY <2>2, <3>1, <3>2 DEF InWindow
  <2>3. CASE m.type = "left"
    BY <1>2, <2>3 DEF Apply, InWindow
  <2>4. QED
    BY <1>3, <2>1, <2>2, <2>3
<1>5. ASSUME NEW i \in 1..Len(queue'[s]), queue'[s][i].type = "joined"
      PROVE  /\ Reach(queue'[s][i].history) <= base'[s]
             /\ \A k \in Sequence' :
                   InWindow(s, k)' \/ (\E j \in 1..(i - 1) : Queued(s, j, k)')
                   => k <= base'[s] \/ k \in lost'[s]
  <2>1. i + 1 \in 2..Len(queue[s]) /\ queue'[s][i] = queue[s][i + 1]
    BY <1>1
  <2>2. /\ Reach(queue[s][i + 1].history) <= base[s]
        /\ \A k \in Sequence :
              InWindow(s, k) \/ (\E j \in 1..i : Queued(s, j, k)) => k <= base[s] \/ k \in lost[s]
    <3>1. WipedFor(s) /\ i + 1 \in 1..Len(queue[s]) /\ queue[s][i + 1].type = "joined"
      BY <1>5, <2>1 DEF Wiped
    <3>2. (i + 1) - 1 = i
      OBVIOUS
    <3>3. QED
      BY <3>1, <3>2 DEF WipedFor
  <2>3. ASSUME NEW k \in Sequence, InWindow(s, k)' PROVE k <= base[s] \/ k \in lost[s]
    <3>1. CASE InWindow(s, k) \/ Queued(s, 1, k)
      BY <2>2, <3>1
    <3>2. CASE m.type = "joined" /\ k <= Reach(m.history)
      <4>1. Reach(m.history) <= base[s] /\ Reach(m.history) \in Nat
        BY <1>1, <1>3, <3>2, RunShows DEF Wiped, WipedFor
      <4>2. QED
        BY <1>1, <3>2, <4>1 DEF Sequence
    <3>3. QED
      BY <1>4, <2>3, <3>1, <3>2
  <2>4. ASSUME NEW k \in Sequence, NEW j \in 1..(i - 1), Queued(s, j, k)'
        PROVE  k <= base[s] \/ k \in lost[s]
    <3>1. j + 1 \in 1..i /\ j \in 1..Len(queue'[s]) /\ queue'[s][j] = queue[s][j + 1]
      BY <1>1
    <3>2. Queued(s, j + 1, k)
      BY <2>4, <3>1 DEF Queued
    <3>3. QED
      BY <2>2, <3>1, <3>2
  <2>5. QED
    BY <1>2, <2>1, <2>2, <2>3, <2>4
<1>6. QED
  BY <1>5 DEF WipedFor

\* Nothing is wiped that is not accounted for, in every step.
LEMMA WipedStep ==
    ASSUME TypeOK, TypeOK', Held, Genuine, Unwelcomed, Covered, Wiped, [Next]_vars
    PROVE  Wiped'
<1>a. /\ work \in [Session -> Work] /\ pc \in [Session -> PC] /\ nextSequence \in Nat \ {0}
      /\ queue \in [Session -> Seq(Packet)] /\ \A s \in Session : work[s].seq \in Nat
      /\ \A s \in Session : work[s].history \in History
      /\ window \in [Session -> History] /\ base \in [Session -> Nat]
      /\ lost \in [Session -> SUBSET Nat]
  BY DEF TypeOK, Work
<1>b. \A s \in Session : WipedFor(s) /\ base[s] <= base[s] /\ lost[s] \subseteq lost[s]
  BY <1>a DEF Wiped
<1>c. ASSUME UNCHANGED <<queue, window, base>>, \A r \in Session : lost[r] \subseteq lost'[r]
      PROVE  Wiped'
  BY <1>b, <1>c, WipedKept DEF Wiped
<1>d. ASSUME NEW r \in Session, UNCHANGED <<queue[r], window[r], base[r], lost[r]>>
      PROVE  WipedFor(r)'
  BY <1>b, <1>d, WipedKept
<1>e. ASSUME NEW gone \in SUBSET Session, Close(gone) PROVE Wiped'
  <2> SUFFICES ASSUME NEW r \in Session PROVE WipedFor(r)'
    BY DEF Wiped
  <2>1. CASE r \in gone
    <3>1. Len(queue'[r]) = 0
      BY <1>e, <2>1 DEF Close
    <3>2. QED
      BY <3>1 DEF WipedFor
  <2>2. CASE r \notin gone
    BY <1>d, <1>e, <2>2 DEF Close
  <2>3. QED
    BY <2>1, <2>2
<1>1. ASSUME NEW s \in Session, Connect(s) \/ LoadWelcome(s) PROVE Wiped'
  BY <1>1, <1>c DEF Connect, LoadWelcome
<1>2. ASSUME NEW s \in Session, FinishWelcome(s) PROVE Wiped'
  <2> SUFFICES ASSUME NEW r \in Session PROVE WipedFor(r)'
    BY DEF Wiped
  <2>1. CASE r # s
    BY <1>2, <1>a, <1>d, <2>1 DEF FinishWelcome
  <2>2. CASE r = s
    <3> DEFINE h == work[s].history
    <3>1. /\ window'[s] = h /\ base'[s] = Reach(h) /\ queue' = queue /\ lost' = lost
          /\ base[s] = 0 /\ window[s] = <<>> /\ Sequence' = Sequence
      BY <1>2, <1>a DEF FinishWelcome, Unwelcomed, storeVars, Sequence
    <3>2. Reach(h) \in Nat /\ \A i \in 1..Len(h) : h[i] <= Reach(h)
      BY <1>a, RunShows DEF Genuine
    <3> HIDE DEF h
    <3>3. ASSUME NEW i \in 1..Len(queue[s]), queue[s][i].type = "joined"
          PROVE  Reach(queue[s][i].history) <= base'[s]
      <4>1. Reach(queue[s][i].history) \in Nat /\ Reach(queue[s][i].history) <= base[s]
        BY <1>a, <1>b, <3>3, RunShows DEF Genuine, WipedFor
      <4>2. QED
        BY <3>1, <3>2, <4>1
    <3>4. ASSUME NEW i \in 1..Len(queue[s]), queue[s][i].type = "joined", NEW k \in Sequence,
                 NEW j \in 1..(i - 1), Queued(s, j, k)
          PROVE  k <= base'[s] \/ k \in lost'[s]
      <4>1. k <= base[s] \/ k \in lost[s]
        BY <1>b, <3>4 DEF WipedFor
      <4>2. QED
        BY <3>1, <3>2, <4>1 DEF Sequence
    <3>5. \A k : InWindow(s, k)' => k <= base'[s]
      BY <3>1, <3>2 DEF InWindow
    <3>6. \A i, k : Queued(s, i, k)' <=> Queued(s, i, k)
      BY <3>1 DEF Queued
    <3>7. QED
      BY <2>2, <3>1, <3>3, <3>4, <3>5, <3>6 DEF WipedFor
  <2>3. QED
    BY <2>1, <2>2
<1>3. ASSUME NEW s \in Session, Disconnect(s) PROVE Wiped'
  BY <1>3, <1>e DEF Disconnect
<1>4. ASSUME NEW s \in Session, \/ \E m \in Message : StartChat(s, m)
                                \/ AppendMessage(s) \/ RejectMessage(s) \/ FinishChat(s)
      PROVE  Wiped'
  BY <1>4, <1>c DEF StartChat, AppendMessage, RejectMessage, FinishChat
<1>5. ASSUME NEW s \in Session, CollectReceivers(s) PROVE Wiped'
  BY <1>5, <1>c DEF CollectReceivers
<1>6. ASSUME NEW s \in Session, NEW r \in Session, SendChat(s, r) PROVE Wiped'
  <2> DEFINE m == Chat(work[s].seq)
  <2>1. m \in Packet /\ m.type # "joined"
    BY <1>a, PacketsMade
  <2>2. /\ queue' = Enqueue(r, m) /\ UNCHANGED <<nextSequence, base, window>>
        /\ \A x \in Session : lost[x] \subseteq lost'[x]
    BY <1>6, <1>a DEF SendChat, storeVars
  <2> HIDE DEF m
  <2>3. \A x \in Session \ {r} : queue'[x] = queue[x]
    BY <1>a, <2>1, <2>2, EnqueueEffect
  <2>4. WipedFor(r)'
    BY <1>b, <2>1, <2>2, WipedBehind
  <2>5. \A x \in Session \ {r} : WipedFor(x)'
    BY <1>b, <2>2, <2>3, WipedKept
  <2>6. QED
    BY <2>4, <2>5 DEF Wiped
<1>7. ASSUME NEW s \in Session, StartJoin(s) \/ ReadHistory(s) \/ EnterRoom(s) PROVE Wiped'
  BY <1>7, <1>c DEF StartJoin, ReadHistory, EnterRoom
<1>8. ASSUME NEW s \in Session, QueueRoomJoined(s) PROVE Wiped'
  <2>1. \A r \in Session \ {s} : UNCHANGED <<queue[r], window[r], base[r], lost[r]>>
    BY <1>8, <1>a DEF QueueRoomJoined, Enqueue
  <2>2. \A r \in Session \ {s} : WipedFor(r)'
    BY <1>d, <2>1
  <2>3. WipedFor(s)'
    BY <1>8, WipedByJoin
  <2>4. QED
    BY <2>2, <2>3 DEF Wiped
<1>9. ASSUME NEW s \in Session, LeaveRoom(s) PROVE Wiped'
  <2>1. RoomLeft \in Packet /\ RoomLeft.type # "joined"
    BY PacketsMade
  <2>2. queue' = Enqueue(s, RoomLeft) /\ UNCHANGED <<nextSequence, base, window, lost>>
    BY <1>9 DEF LeaveRoom, storeVars
  <2>3. \A r \in Session \ {s} : queue'[r] = queue[r]
    BY <1>a, <2>1, <2>2, EnqueueEffect
  <2>4. WipedFor(s)'
    BY <1>b, <2>1, <2>2, WipedBehind
  <2>5. \A r \in Session \ {s} : WipedFor(r)'
    BY <1>d, <2>2, <2>3
  <2>6. QED
    BY <2>4, <2>5 DEF Wiped
<1>10. ASSUME NEW s \in Session, Deliver(s) PROVE Wiped'
  <2>1. \A r \in Session \ {s} : UNCHANGED <<queue[r], window[r], base[r], lost[r]>>
    BY <1>10, <1>a DEF Deliver
  <2>2. \A r \in Session \ {s} : WipedFor(r)'
    BY <1>d, <2>1
  <2>3. WipedFor(s)'
    BY <1>10, WipedByDelivery
  <2>4. QED
    BY <2>2, <2>3 DEF Wiped
<1>11. ASSUME Crash PROVE Wiped'
  BY <1>11, <1>e DEF Crash
<1>12. ASSUME UNCHANGED vars PROVE Wiped'
  BY <1>12, <1>c DEF vars
<1>13. QED
  BY <1>1, <1>2, <1>3, <1>4, <1>5, <1>6, <1>7, <1>8, <1>9, <1>10, <1>11, <1>12 DEF Next, Handler

\* What falls between the halves of join_room is counted as lost, or still finds the session.
LEMMA HalfwayStep ==
    ASSUME TypeOK, TypeOK', Held, Logged, Genuine, Halfway, [Next]_vars
    PROVE  Halfway'
<1>a. /\ work \in [Session -> Work] /\ pc \in [Session -> PC] /\ nextSequence \in Nat \ {0}
      /\ \A s \in Session : work[s].history \in History /\ work[s].seq \in Nat
      /\ lost \in [Session -> SUBSET Nat] /\ joined \in [Session -> BOOLEAN]
  BY DEF TypeOK, Work
<1>b. UNCHANGED nextSequence => Sequence' = Sequence
  BY DEF Sequence
<1>c. ASSUME UNCHANGED nextSequence,
             \A r \in Session : lost[r] \subseteq lost'[r] \/ pc'[r] # "read",
             \A a \in Session : pc[a] = "committed" =>
                pc'[a] = "committed" /\ work'[a].seq = work[a].seq,
             \A r \in Session : pc'[r] = "read" /\ ~joined'[r] =>
                pc[r] = "read" /\ ~joined[r] /\ work'[r].history = work[r].history
      PROVE  Halfway'
  BY <1>b, <1>c DEF Halfway
<1>1. ASSUME NEW s \in Session, Connect(s) \/ LoadWelcome(s) \/ FinishWelcome(s) PROVE Halfway'
  BY <1>1, <1>a, <1>c DEF Connect, LoadWelcome, FinishWelcome, storeVars
<1>2. ASSUME NEW s \in Session, Disconnect(s) PROVE Halfway'
  <2>1. \A r \in Session \ {s} : /\ pc'[r] = pc[r] /\ joined'[r] = joined[r] /\ lost'[r] = lost[r]
                                 /\ work'[r].history = work[r].history
                                 /\ work'[r].seq = work[r].seq
    BY <1>2, <1>a DEF Disconnect, Close, Work
  <2>2. pc'[s] = "off" /\ pc[s] # "committed" /\ nextSequence' = nextSequence
    BY <1>2 DEF Disconnect, Close, storeVars
  <2>3. QED
    BY <1>c, <2>1, <2>2
<1>3. ASSUME NEW s \in Session, \/ \E m \in Message : StartChat(s, m)
                                \/ RejectMessage(s) \/ FinishChat(s)
      PROVE  Halfway'
  BY <1>3, <1>a, <1>c DEF StartChat, RejectMessage, FinishChat, storeVars
<1>4. ASSUME NEW s \in Session, AppendMessage(s) PROVE Halfway'
  <2>1. /\ pc[s] = "sending" /\ pc'[s] = "committed" /\ work'[s].seq = nextSequence
        /\ \A r \in Session \ {s} : pc'[r] = pc[r] /\ work'[r] = work[r]
        /\ joined' = joined /\ lost' = lost
    BY <1>4, <1>a DEF AppendMessage, Work
  <2>2. \A k \in Sequence' : k \in Sequence \/ k = nextSequence
    BY <1>4, <1>a DEF AppendMessage, Sequence
  <2>3. QED
    BY <2>1, <2>2 DEF Halfway
<1>5. ASSUME NEW s \in Session, CollectReceivers(s) PROVE Halfway'
  <2>1. /\ pc'[s] = "fanout" /\ joined' = joined /\ nextSequence' = nextSequence
        /\ \A r \in Session \ {s} : pc'[r] = pc[r] /\ work'[r] = work[r]
    BY <1>5, <1>a DEF CollectReceivers, storeVars
  <2>2. \A r \in Session : /\ lost[r] \subseteq lost'[r]
                           /\ Overlooked(r, work[s].seq) => work[s].seq \in lost'[r]
    BY <1>5, <1>a DEF CollectReceivers
  <2> SUFFICES ASSUME NEW r \in Session, pc'[r] = "read", ~joined'[r], NEW k \in Sequence
               PROVE  \/ k <= Reach(work'[r].history) \/ k \in lost'[r]
                      \/ \E a \in Session : pc'[a] = "committed" /\ work'[a].seq = k
    BY <1>b, <2>1 DEF Halfway
  <2>3. pc[r] = "read" /\ ~joined[r] /\ work'[r] = work[r]
    BY <2>1
  <2>4. \/ k <= Reach(work[r].history) \/ k \in lost[r]
        \/ \E a \in Session : pc[a] = "committed" /\ work[a].seq = k
    BY <2>3 DEF Halfway
  <2>5. CASE k = work[s].seq /\ ~(k <= Reach(work[r].history))
    <3>1. Reach(work[r].history) \in Nat /\ k \in Nat
      BY <1>a, RunShows DEF Genuine, Sequence
    <3>2. Overlooked(r, k)
      BY <2>3, <2>5, <3>1 DEF Overlooked
    <3>3. QED
      BY <2>2, <2>5, <3>2
  <2>6. CASE k # work[s].seq \/ k <= Reach(work[r].history)
    BY <2>1, <2>2, <2>3, <2>4, <2>6
  <2>7. QED
    BY <2>5, <2>6
<1>6. ASSUME NEW s \in Session, NEW r \in Session, SendChat(s, r) PROVE Halfway'
  <2>1. /\ pc' = pc /\ joined' = joined /\ nextSequence' = nextSequence
        /\ \A a \in Session : /\ work'[a].seq = work[a].seq /\ work'[a].history = work[a].history
                              /\ lost[a] \subseteq lost'[a]
    BY <1>6, <1>a DEF SendChat, storeVars, Work
  <2>2. QED
    BY <1>c, <2>1
<1>7. ASSUME NEW s \in Session, StartJoin(s) \/ EnterRoom(s) PROVE Halfway'
  BY <1>7, <1>a, <1>c DEF StartJoin, EnterRoom, storeVars
<1>8. ASSUME NEW s \in Session, ReadHistory(s) PROVE Halfway'
  <2>1. /\ pc[s] = "joining" /\ joined' = joined /\ lost' = lost /\ nextSequence' = nextSequence
        /\ \A r \in Session \ {s} : pc'[r] = pc[r] /\ work'[r] = work[r]
        /\ pc'[s] # "committed"
    BY <1>8, <1>a DEF ReadHistory, storeVars
  <2>2. pc'[s] = "read" => \A k \in Sequence : k <= Reach(work'[s].history)
    <3>1. CASE pc'[s] = "read"
      <4>1. PICK h \in Histories : work' = [work EXCEPT ![s].history = h]
        BY <1>8, <1>a, <3>1 DEF ReadHistory
      <4>2. work'[s].history = h /\ Reach(h) = nextSequence - 1
        BY <1>a, <4>1, HistoryIsRun DEF Work
      <4>3. QED
        BY <1>a, <4>2 DEF Sequence
    <3>2. QED
      BY <3>1
  <2>3. QED
    BY <1>b, <2>1, <2>2 DEF Halfway
<1>9. ASSUME NEW s \in Session, QueueRoomJoined(s) PROVE Halfway'
  <2>1. /\ joined' = joined /\ nextSequence' = nextSequence /\ pc[s] = "entered"
        /\ pc'[s] = "online"
        /\ \A r \in Session \ {s} : pc'[r] = pc[r] /\ work'[r] = work[r] /\ lost'[r] = lost[r]
    BY <1>9, <1>a DEF QueueRoomJoined, storeVars
  <2>2. QED
    BY <1>c, <2>1
<1>10. ASSUME NEW s \in Session, LeaveRoom(s) \/ Deliver(s) PROVE Halfway'
  BY <1>10, <1>a, <1>c DEF LeaveRoom, Deliver, storeVars
<1>11. ASSUME Crash PROVE Halfway'
  BY <1>11 DEF Crash, Close, Halfway
<1>12. ASSUME UNCHANGED vars PROVE Halfway'
  BY <1>12, <1>c DEF vars, storeVars
<1>13. QED
  BY <1>1, <1>2, <1>3, <1>4, <1>5, <1>6, <1>7, <1>8, <1>9, <1>10, <1>11, <1>12 DEF Next, Handler

\* Where message k is, for a session that is in the room.
Accounted(s, k) ==
    InHistory(s, k) \/ InWindow(s, k) \/ k \in Chats(s) \/ OnItsWay(s, k) \/ k \in lost[s]

\* From registration on, no message of a room that a session is in escapes the account.
LEMMA MissedStep ==
    ASSUME TypeOK, TypeOK', Held, Held', Logged, Genuine, Unwelcomed, Covered, Wiped, Halfway,
           NothingMissed, [Next]_vars
    PROVE  NothingMissed'
<1>a. /\ work \in [Session -> Work] /\ pc \in [Session -> PC] /\ nextSequence \in Nat \ {0}
      /\ queue \in [Session -> Seq(Packet)] /\ window \in [Session -> History]
      /\ \A s \in Session : work[s].history \in History /\ work[s].seq \in Nat
      /\ lost \in [Session -> SUBSET Nat] /\ joined \in [Session -> BOOLEAN]
      /\ base \in [Session -> Nat]
  BY DEF TypeOK, Work
<1>b. /\ UNCHANGED nextSequence => Sequence' = Sequence
      /\ \A k \in Sequence : k \in Nat /\ k <= nextSequence - 1
  BY <1>a DEF Sequence
<1>c. \A s \in Session : joined[s] => \A k \in Sequence : Accounted(s, k)
  BY DEF NothingMissed, Accounted
<1>d. ASSUME UNCHANGED nextSequence,
             \A r \in Session : joined'[r] => joined[r],
             \A r \in Session : joined'[r] =>
                \A k \in Sequence : Accounted(r, k) => Accounted(r, k)'
      PROVE  NothingMissed'
  BY <1>b, <1>c, <1>d DEF NothingMissed, Accounted
<1>e. ASSUME \A a \in Session :
                pc[a] \in {"committed", "fanout"} => pc'[a] = pc[a] /\ work'[a] = work[a],
             NEW r \in Session, NEW k, OnItsWay(r, k)
      PROVE  OnItsWay(r, k)'
  BY <1>e DEF OnItsWay
<1>f. ASSUME NEW r \in Session, UNCHANGED <<queue[r], window[r], base[r]>>,
             lost[r] \subseteq lost'[r],
             pc[r] = "registered" => pc'[r] = "registered",
             pc[r] \in {"loaded", "entered"} =>
                pc'[r] \in {"loaded", "entered"} /\ work'[r].history = work[r].history,
             NEW k, Accounted(r, k), OnItsWay(r, k) => OnItsWay(r, k)'
      PROVE  Accounted(r, k)'
  BY <1>f DEF Accounted, InHistory, InWindow, Chats
<1>1. ASSUME NEW s \in Session, Connect(s) PROVE NothingMissed'
  <2>1. /\ pc[s] = "off" /\ pc'[s] = "registered"
        /\ UNCHANGED <<nextSequence, work, queue, window, base, lost>>
        /\ \A r \in Session \ {s} : pc'[r] = pc[r] /\ joined'[r] = joined[r]
    BY <1>1, <1>a DEF Connect, storeVars
  <2>2. \A k : Accounted(s, k)'
    BY <2>1 DEF Accounted, InHistory
  <2>3. \A r \in Session \ {s}, k \in Sequence : Accounted(r, k) => Accounted(r, k)'
    BY <1>e, <1>f, <2>1
  <2>4. QED
    BY <1>b, <1>c, <2>1, <2>2, <2>3 DEF NothingMissed, Accounted
<1>2. ASSUME NEW s \in Session, LoadWelcome(s) PROVE NothingMissed'
  <2>1. /\ pc[s] = "registered" /\ pc'[s] = "loaded"
        /\ UNCHANGED <<nextSequence, joined, queue, window, base, lost>>
        /\ \A r \in Session \ {s} : pc'[r] = pc[r] /\ work'[r] = work[r]
    BY <1>2, <1>a DEF LoadWelcome, storeVars
  <2>2. joined[s] => \A k \in Sequence : Accounted(s, k)'
    <3>1. CASE room.general
      <4>1. PICK h \in Histories : work' = [work EXCEPT ![s].history = h]
        BY <1>2, <3>1 DEF LoadWelcome
      <4>2. work'[s].history = h /\ Reach(h) = nextSequence - 1
        BY <1>a, <4>1, HistoryIsRun DEF Work
      <4>3. QED
        BY <1>b, <2>1, <4>2 DEF Accounted, InHistory
    <3>2. CASE ~room.general
      BY <2>1, <3>2 DEF Unwelcomed
    <3>3. QED
      BY <3>1, <3>2
  <2>3. \A r \in Session \ {s}, k \in Sequence : Accounted(r, k) => Accounted(r, k)'
    BY <1>e, <1>f, <2>1
  <2>4. QED
    BY <1>d, <2>1, <2>2, <2>3
<1>3. ASSUME NEW s \in Session, FinishWelcome(s) PROVE NothingMissed'
  <2>1. /\ pc[s] = "loaded" /\ UNCHANGED <<nextSequence, joined, queue, lost>>
        /\ base'[s] = Reach(work[s].history) /\ base[s] = 0 /\ window[s] = <<>>
        /\ \A r \in Session \ {s} : /\ pc'[r] = pc[r] /\ work'[r] = work[r]
                                    /\ window'[r] = window[r] /\ base'[r] = base[r]
    BY <1>3, <1>a DEF FinishWelcome, storeVars, Unwelcomed
  <2>2. ASSUME NEW k \in Sequence, Accounted(s, k) PROVE Accounted(s, k)'
    <3>1. InHistory(s, k) => InHistory(s, k)'
      BY <1>b, <2>1 DEF InHistory, Sequence
    <3>2. ~InWindow(s, k)
      BY <2>1 DEF InWindow
    <3>3. OnItsWay(s, k) => OnItsWay(s, k)'
      <4>1. pc[s] \notin {"committed", "fanout"}
        BY <2>1
      <4>2. QED
        BY <1>e, <2>1, <4>1
    <3>4. QED
      BY <2>1, <2>2, <3>1, <3>2, <3>3 DEF Accounted, Chats
  <2>3. \A r \in Session \ {s}, k \in Sequence : Accounted(r, k) => Accounted(r, k)'
    BY <1>e, <1>f, <2>1
  <2>4. QED
    BY <1>d, <2>1, <2>2, <2>3
<1>4. ASSUME NEW s \in Session, Disconnect(s) PROVE NothingMissed'
  <2>1. /\ pc[s] \notin {"committed", "fanout"} /\ ~joined'[s] /\ UNCHANGED nextSequence
        /\ \A r \in Session \ {s} :
              /\ joined'[r] = joined[r] /\ lost'[r] = lost[r] /\ pc'[r] = pc[r]
              /\ UNCHANGED <<queue[r], window[r], base[r]>>
              /\ work'[r].seq = work[r].seq /\ work'[r].history = work[r].history
              /\ work'[r].to = work[r].to \ {s}
    <3>1. /\ pc[s] \notin {"committed", "fanout"} /\ ~joined'[s] /\ UNCHANGED nextSequence
          /\ \A r \in Session \ {s} :
                /\ joined'[r] = joined[r] /\ lost'[r] = lost[r] /\ pc'[r] = pc[r]
                /\ UNCHANGED <<queue[r], window[r], base[r]>>
      BY <1>4, <1>a DEF Disconnect, Close, storeVars
    <3>2. \A r \in Session \ {s} : work'[r] = [work[r] EXCEPT !.to = @ \ {s}]
      BY <1>4 DEF Disconnect, Close
    <3>3. \A w \in Work : LET v == [w EXCEPT !.to = @ \ {s}]
                         IN  v.seq = w.seq /\ v.history = w.history /\ v.to = w.to \ {s}
      BY DEF Work
    <3>4. QED
      BY <1>a, <3>1, <3>2, <3>3
  <2>2. \A r \in Session \ {s} : \A k : OnItsWay(r, k) => OnItsWay(r, k)'
    BY <2>1 DEF OnItsWay
  <2>3. \A r \in Session \ {s}, k \in Sequence : Accounted(r, k) => Accounted(r, k)'
    BY <1>f, <2>1, <2>2
  <2>4. QED
    BY <1>d, <2>1, <2>3
<1>5. ASSUME NEW s \in Session, (\E m \in Message : StartChat(s, m)) \/ RejectMessage(s)
      PROVE  NothingMissed'
  <2>1. /\ pc[s] \in {"online", "sending"}
        /\ UNCHANGED <<nextSequence, joined, queue, window, base, lost>>
        /\ \A r \in Session \ {s} : pc'[r] = pc[r] /\ work'[r] = work[r]
    BY <1>5, <1>a DEF StartChat, RejectMessage, storeVars
  <2>2. \A r \in Session, k \in Sequence : Accounted(r, k) => Accounted(r, k)'
    BY <1>e, <1>f, <2>1
  <2>3. QED
    BY <1>d, <2>1, <2>2
<1>6. ASSUME NEW s \in Session, AppendMessage(s) PROVE NothingMissed'
  <2>1. /\ pc[s] = "sending" /\ UNCHANGED <<joined, queue, window, base, lost>>
        /\ pc'[s] = "committed" /\ work'[s].seq = nextSequence
        /\ \A r \in Session \ {s} : pc'[r] = pc[r] /\ work'[r] = work[r]
        /\ \A k \in Sequence' : k \in Sequence \/ k = nextSequence
    BY <1>6, <1>a DEF AppendMessage, Work, Sequence
  <2>2. \A r \in Session, k \in Sequence : Accounted(r, k) => Accounted(r, k)'
    BY <1>e, <1>f, <2>1
  <2>3. \A r \in Session, k \in Sequence' : k = nextSequence => Accounted(r, k)'
    BY <2>1 DEF Accounted, OnItsWay
  <2>4. QED
    BY <1>c, <2>1, <2>2, <2>3 DEF NothingMissed, Accounted
<1>7. ASSUME NEW s \in Session, CollectReceivers(s) PROVE NothingMissed'
  <2>1. /\ pc[s] = "committed" /\ pc'[s] = "fanout" /\ work'[s].to = Receivers
        /\ work'[s].seq = work[s].seq /\ UNCHANGED <<nextSequence, joined, queue, window, base>>
        /\ \A r \in Session \ {s} : pc'[r] = pc[r] /\ work'[r] = work[r]
        /\ \A r \in Session : lost[r] \subseteq lost'[r]
    BY <1>7, <1>a DEF CollectReceivers, storeVars, Work
  <2>2. ASSUME NEW r \in Session, joined'[r], NEW k, OnItsWay(r, k) PROVE OnItsWay(r, k)'
    <3>1. r \in Receivers
      BY <2>1, <2>2 DEF Receivers
    <3>2. QED
      BY <2>1, <2>2, <3>1 DEF OnItsWay
  <2>3. ASSUME NEW r \in Session, joined'[r], NEW k \in Sequence, Accounted(r, k)
        PROVE  Accounted(r, k)'
    BY <1>f, <2>1, <2>2, <2>3
  <2>4. QED
    BY <1>d, <2>1, <2>3
<1>8. ASSUME NEW s \in Session, NEW x \in Session, SendChat(s, x) PROVE NothingMissed'
  <2> DEFINE m == Chat(work[s].seq)
  <2>1. /\ pc[s] = "fanout" /\ pc' = pc /\ UNCHANGED <<nextSequence, joined, window, base>>
        /\ queue' = Enqueue(x, m)
        /\ \A a \in Session : /\ work'[a].seq = work[a].seq /\ work'[a].history = work[a].history
                              /\ a # s => work'[a] = work[a]
        /\ work'[s].to = work[s].to \ {x}
        /\ \A r \in Session : lost[r] \subseteq lost'[r]
        /\ HasSpace(x) \/ work[s].seq \in lost'[x]
    BY <1>8, <1>a DEF SendChat, storeVars, Work
  <2>2. m \in Packet /\ m.type = "chat" /\ m.seq = work[s].seq
    BY <1>a, PacketsMade
  <2> HIDE DEF m
  <2>3. \A r \in Session \ {x} : queue'[r] = queue[r]
    BY <1>a, <2>1, <2>2, EnqueueEffect
  <2>4. ASSUME NEW r \in Session \ {x}, NEW k \in Sequence, Accounted(r, k) PROVE Accounted(r, k)'
    <3>1. OnItsWay(r, k) => OnItsWay(r, k)'
      BY <2>1 DEF OnItsWay
    <3>2. QED
      BY <1>f, <2>1, <2>3, <2>4, <3>1
  <2>5. ASSUME NEW k \in Sequence, Accounted(x, k) PROVE Accounted(x, k)'
    <3>1. InHistory(x, k) \/ InWindow(x, k) \/ k \in lost[x] => Accounted(x, k)'
      BY <2>1 DEF Accounted, InHistory, InWindow
    <3>2. \A i \in 1..Len(queue[x]) : i \in 1..Len(queue'[x]) /\ queue'[x][i] = queue[x][i]
      <4>1. CASE HasSpace(x)
        BY <1>a, <2>1, <2>2, <4>1, EnqueueEffect
      <4>2. CASE ~HasSpace(x)
        BY <2>1, <4>2 DEF Enqueue
      <4>3. QED
        BY <4>1, <4>2
    <3>3. k \in Chats(x) => (k \in Chats(x))'
      BY <3>2 DEF Chats
    <3>4. CASE OnItsWay(x, k) /\ k # work[s].seq
      <4>1. OnItsWay(x, k)'
        BY <2>1, <3>4 DEF OnItsWay
      <4>2. QED
        BY <4>1 DEF Accounted
    <3>5. CASE k = work[s].seq /\ HasSpace(x)
      <4>1. Len(queue[x]) + 1 \in 1..Len(queue'[x]) /\ queue'[x][Len(queue[x]) + 1] = m
        BY <1>a, <2>1, <2>2, <3>5, EnqueueEffect
      <4>2. (k \in Chats(x))'
        BY <2>2, <3>5, <4>1 DEF Chats
      <4>3. QED
        BY <4>2 DEF Accounted
    <3>6. CASE k = work[s].seq /\ ~HasSpace(x)
      BY <2>1, <3>6 DEF Accounted
    <3>7. QED
      BY <2>5, <3>1, <3>3, <3>4, <3>5, <3>6 DEF Accounted
  <2>6. QED
    BY <1>d, <2>1, <2>4, <2>5
<1>9. ASSUME NEW s \in Session, FinishChat(s) PROVE NothingMissed'
  <2>1. /\ pc[s] = "fanout" /\ work[s].to = {}
        /\ UNCHANGED <<nextSequence, joined, queue, window, base, lost>>
        /\ \A r \in Session \ {s} : pc'[r] = pc[r] /\ work'[r] = work[r]
    BY <1>9, <1>a DEF FinishChat, storeVars
  <2>2. \A r \in Session : \A k : OnItsWay(r, k) => OnItsWay(r, k)'
    BY <2>1 DEF OnItsWay
  <2>3. \A r \in Session, k \in Sequence : Accounted(r, k) => Accounted(r, k)'
    BY <1>f, <2>1, <2>2
  <2>4. QED
    BY <1>d, <2>1, <2>3
<1>10. ASSUME NEW s \in Session, StartJoin(s) \/ ReadHistory(s) PROVE NothingMissed'
  <2>1. /\ pc[s] \in {"online", "joining"}
        /\ UNCHANGED <<nextSequence, joined, queue, window, base, lost>>
        /\ \A r \in Session \ {s} : pc'[r] = pc[r] /\ work'[r] = work[r]
    BY <1>10, <1>a DEF StartJoin, ReadHistory, storeVars
  <2>2. \A r \in Session, k \in Sequence : Accounted(r, k) => Accounted(r, k)'
    BY <1>e, <1>f, <2>1
  <2>3. QED
    BY <1>d, <2>1, <2>2
<1>11. ASSUME NEW s \in Session, EnterRoom(s) PROVE NothingMissed'
  <2>1. /\ pc[s] = "read" /\ pc'[s] = "entered"
        /\ UNCHANGED <<nextSequence, work, queue, window, base, lost>>
        /\ \A r \in Session \ {s} : pc'[r] = pc[r] /\ joined'[r] = joined[r]
    BY <1>11, <1>a DEF EnterRoom, storeVars
  <2>2. \A r \in Session : \A k : OnItsWay(r, k) => OnItsWay(r, k)'
    BY <2>1 DEF OnItsWay
  <2>3. \A r \in Session, k \in Sequence : Accounted(r, k) => Accounted(r, k)'
    BY <1>f, <2>1, <2>2
  <2>4. ASSUME ~joined[s], NEW k \in Sequence PROVE Accounted(s, k)'
    <3>1. \/ k <= Reach(work[s].history) \/ k \in lost[s]
          \/ \E a \in Session : pc[a] = "committed" /\ work[a].seq = k
      BY <2>1, <2>4 DEF Halfway
    <3>2. CASE k <= Reach(work[s].history) \/ k \in lost[s]
      BY <2>1, <3>2 DEF Accounted, InHistory
    <3>3. CASE \E a \in Session : pc[a] = "committed" /\ work[a].seq = k
      BY <2>1, <2>2, <3>3 DEF Accounted, OnItsWay
    <3>4. QED
      BY <3>1, <3>2, <3>3
  <2>5. QED
    BY <1>b, <1>c, <2>1, <2>3, <2>4 DEF NothingMissed, Accounted
<1>12. ASSUME NEW s \in Session, QueueRoomJoined(s) PROVE NothingMissed'
  <2> DEFINE h == work[s].history
             m == RoomJoined(h)
  <2>1. /\ pc[s] = "entered" /\ UNCHANGED <<nextSequence, joined, window>> /\ queue' = Enqueue(s, m)
        /\ \A r \in Session \ {s} : /\ pc'[r] = pc[r] /\ work'[r] = work[r]
                                    /\ base'[r] = base[r] /\ lost'[r] = lost[r]
        /\ lost[s] \subseteq lost'[s]
    BY <1>12, <1>a DEF QueueRoomJoined, storeVars
  <2>2. m \in Packet
    BY <1>a, PacketsMade
  <2>3. /\ HasSpace(s) => base'[s] = Reach(h)
        /\ ~HasSpace(s) => base'[s] = base[s] /\ 1..Reach(h) \subseteq lost'[s]
    BY <1>12, <1>a DEF QueueRoomJoined
  <2>4. Reach(h) \in Nat /\ base[s] <= Reach(h)
    BY <1>a, <2>1, RunShows DEF Genuine, Covered
  <2> HIDE DEF h, m
  <2>5. \A r \in Session : \A k : OnItsWay(r, k) => OnItsWay(r, k)'
    <3>1. \A a \in Session :
             pc[a] \in {"committed", "fanout"} => pc'[a] = pc[a] /\ work'[a] = work[a]
      BY <2>1
    <3>2. QED
      BY <1>e, <3>1
  <2>6. \A r \in Session \ {s} : queue'[r] = queue[r]
    BY <1>a, <2>1, <2>2, EnqueueEffect
  <2>7. \A r \in Session \ {s}, k \in Sequence : Accounted(r, k) => Accounted(r, k)'
    BY <1>f, <2>1, <2>5, <2>6
  <2>8. ASSUME NEW k \in Sequence, Accounted(s, k) PROVE Accounted(s, k)'
    <3>1. \A i \in 1..Len(queue[s]) : i \in 1..Len(queue'[s]) /\ queue'[s][i] = queue[s][i]
      <4>1. CASE HasSpace(s)
        BY <1>a, <2>1, <2>2, <4>1, EnqueueEffect
      <4>2. CASE ~HasSpace(s)
        BY <2>1, <4>2 DEF Enqueue
      <4>3. QED
        BY <4>1, <4>2
    <3>2. k \in Chats(s) => (k \in Chats(s))'
      BY <3>1 DEF Chats
    <3>3. CASE InHistory(s, k)
      <4>1. k <= Reach(h) /\ k \in Nat \ {0}
        BY <1>a, <1>b, <2>1, <2>4, <3>3 DEF InHistory, h, Sequence
      <4>2. k <= base'[s] \/ k \in lost'[s]
        BY <2>3, <2>4, <4>1
      <4>3. QED
        BY <4>2 DEF Accounted, InHistory
    <3>4. QED
      BY <2>1, <2>5, <2>8, <3>2, <3>3 DEF Accounted, InWindow
  <2>9. QED
    BY <1>d, <2>1, <2>7, <2>8
<1>13. ASSUME NEW s \in Session, LeaveRoom(s) PROVE NothingMissed'
  <2>1. /\ pc' = pc /\ work' = work /\ UNCHANGED <<nextSequence, window, base, lost>>
        /\ ~joined'[s] /\ \A r \in Session \ {s} : joined'[r] = joined[r] /\ queue'[r] = queue[r]
    BY <1>13, <1>a DEF LeaveRoom, storeVars, Enqueue
  <2>2. \A r \in Session : \A k : OnItsWay(r, k) => OnItsWay(r, k)'
    BY <2>1 DEF OnItsWay
  <2>3. \A r \in Session \ {s}, k \in Sequence : Accounted(r, k) => Accounted(r, k)'
    BY <1>f, <2>1, <2>2
  <2>4. QED
    BY <1>d, <2>1, <2>3
<1>14. ASSUME NEW s \in Session, Deliver(s) PROVE NothingMissed'
  <2> DEFINE m == queue[s][1]
  <2>1. /\ pc' = pc /\ work' = work
        /\ UNCHANGED <<nextSequence, joined, base, lost>> /\ pc[s] = "online"
        /\ \A r \in Session \ {s} : queue'[r] = queue[r] /\ window'[r] = window[r]
    BY <1>14, <1>a DEF Deliver, storeVars
  <2>2. /\ Len(queue[s]) \in Nat \ {0} /\ Len(queue'[s]) = Len(queue[s]) - 1
        /\ \A i \in 1..Len(queue'[s]) : queue'[s][i] = queue[s][i + 1]
        /\ window'[s] = Apply(window[s], m) /\ window[s] \in Seq(Nat \ {0})
    BY <1>14, <1>a, DeliverEffect DEF Deliver, History
  <2>3. m.type \in {"chat", "joined", "left"} /\ m.seq \in Nat
    BY <1>a, <2>2, QueueElements
  <2> HIDE DEF m
  <2>4. \A r \in Session : \A k : OnItsWay(r, k) => OnItsWay(r, k)'
    BY <2>1 DEF OnItsWay
  <2>5. \A r \in Session \ {s}, k \in Sequence : Accounted(r, k) => Accounted(r, k)'
    BY <1>f, <2>1, <2>4
  <2>6. ASSUME NEW k \in Sequence, Accounted(s, k) PROVE Accounted(s, k)'
    <3>1. InHistory(s, k) \/ OnItsWay(s, k) \/ k \in lost[s] => Accounted(s, k)'
      BY <2>1, <2>4 DEF Accounted, InHistory
    <3>2. CASE InWindow(s, k)
      <4>1. CASE m.type = "chat"
        <5>1. window'[s] = Append(window[s], m.seq)
          BY <2>2, <4>1 DEF Apply
        <5>2. \A i \in 1..Len(window[s]) : i \in 1..Len(window'[s]) /\ window'[s][i] = window[s][i]
          BY <2>2, <2>3, <5>1
        <5>3. QED
          BY <3>2, <5>2 DEF Accounted, InWindow
      <4>2. CASE m.type = "joined"
        <5>1. k <= base[s] \/ k \in lost[s]
          BY <2>2, <3>2, <4>2 DEF Wiped, WipedFor, m
        <5>2. QED
          BY <2>1, <5>1 DEF Accounted, InHistory
      <4>3. CASE m.type = "left"
        BY <2>2, <3>2, <4>3 DEF Apply, Accounted, InWindow
      <4>4. QED
        BY <2>3, <4>1, <4>2, <4>3
    <3>3. CASE k \in Chats(s)
      <4>1. PICK i \in 1..Len(queue[s]) : queue[s][i].type = "chat" /\ queue[s][i].seq = k
        BY <3>3 DEF Chats
      <4>2. CASE i = 1
        <5>1. m.type = "chat" /\ m.seq = k
          BY <4>1, <4>2 DEF m
        <5>2. window'[s] = Append(window[s], k)
          BY <2>2, <5>1 DEF Apply
        <5>3. Len(window[s]) + 1 \in 1..Len(window'[s]) /\ window'[s][Len(window[s]) + 1] = k
          BY <2>2, <2>3, <5>1, <5>2
        <5>4. QED
          BY <5>3 DEF Accounted, InWindow
      <4>3. CASE i # 1
        <5>1. i - 1 \in 1..Len(queue'[s]) /\ queue'[s][i - 1] = queue[s][i]
          BY <2>2, <4>3
        <5>2. (k \in Chats(s))'
          BY <4>1, <5>1 DEF Chats
        <5>3. QED
          BY <5>2 DEF Accounted
      <4>4. QED
        BY <4>2, <4>3
    <3>4. QED
      BY <2>6, <3>1, <3>2, <3>3 DEF Accounted
  <2>7. QED
    BY <1>d, <2>1, <2>5, <2>6
<1>15. ASSUME Crash PROVE NothingMissed'
  BY <1>15 DEF Crash, Close, NothingMissed
<1>16. ASSUME UNCHANGED vars PROVE NothingMissed'
  <2>1. \A r \in Session, k \in Sequence : Accounted(r, k) => Accounted(r, k)'
    BY <1>e, <1>f, <1>16 DEF vars
  <2>2. QED
    BY <1>d, <1>16, <2>1 DEF vars, storeVars
<1>17. QED
  BY <1>1, <1>2, <1>3, <1>4, <1>5, <1>6, <1>7, <1>8, <1>9, <1>10, <1>11, <1>12, <1>13, <1>14,
     <1>15, <1>16 DEF Next, Handler

-----------------------------------------------------------------------------
(* No message is shown three times *)

\* Two handlers never send the same message.
Apart ==
    \A a, b \in Session :
        pc[a] \in {"committed", "fanout"} /\ pc[b] \in {"committed", "fanout"} /\ a # b
        => work[a].seq # work[b].seq

(***************************************************************************)
(* Message k is queued for s once, and no more once it has been; while it  *)
(* is still to come, s shows it once at most, and never three times.       *)
(***************************************************************************)
CountedFor(s, k) ==
    /\ \A i, j \in 1..Len(queue[s]) : Queued(s, i, k) /\ Queued(s, j, k) => i = j
    /\ OnItsWay(s, k) => \A i \in 1..Len(queue[s]) : ~Queued(s, i, k)
    /\ OnItsWay(s, k) \/ (\E i \in 1..Len(queue[s]) : Queued(s, i, k)) =>
          \A i, j \in 1..Len(window[s]) : window[s][i] = k /\ window[s][j] = k => i = j
    /\ \A i, j, l \in 1..Len(window[s]) :
          window[s][i] = k /\ window[s][j] = k /\ window[s][l] = k => i = j \/ j = l \/ i = l
Counted == \A s \in Session : \A k \in Sequence : CountedFor(s, k)

\* append_message gives each message a number of its own, and one handler has it.
LEMMA ApartStep ==
    ASSUME TypeOK, Held, Apart, [Next]_vars
    PROVE  Apart'
<1>a. work \in [Session -> Work] /\ pc \in [Session -> PC] /\ nextSequence \in Nat \ {0}
  BY DEF TypeOK
<1>b. ASSUME \A a \in Session : pc'[a] \in {"committed", "fanout"} =>
                pc[a] \in {"committed", "fanout"} /\ work'[a].seq = work[a].seq
      PROVE  Apart'
  BY <1>b DEF Apart
<1>1. ASSUME NEW s \in Session, Connect(s) \/ LoadWelcome(s) \/ FinishWelcome(s) PROVE Apart'
  BY <1>1, <1>a, <1>b DEF Connect, LoadWelcome, FinishWelcome
<1>2. ASSUME NEW gone \in SUBSET Session, Close(gone) PROVE Apart'
  <2>1. \A r \in Session \ gone : pc'[r] = pc[r] /\ work'[r] = [work[r] EXCEPT !.to = @ \ gone]
    BY <1>2 DEF Close
  <2>2. \A w \in Work : [w EXCEPT !.to = @ \ gone].seq = w.seq
    BY DEF Work
  <2>3. \A r \in gone : pc'[r] = "off"
    BY <1>2 DEF Close
  <2>4. QED
    BY <1>a, <1>b, <2>1, <2>2, <2>3
<1>3. ASSUME NEW s \in Session, \/ \E m \in Message : StartChat(s, m)
                                \/ RejectMessage(s) \/ FinishChat(s)
      PROVE  Apart'
  BY <1>3, <1>a, <1>b DEF StartChat, RejectMessage, FinishChat
<1>4. ASSUME NEW s \in Session, AppendMessage(s) PROVE Apart'
  <2>1. /\ work'[s].seq = nextSequence
        /\ \A r \in Session \ {s} : pc'[r] = pc[r] /\ work'[r] = work[r]
    BY <1>4, <1>a DEF AppendMessage, Work
  <2>2. \A r \in Session : pc[r] \in {"committed", "fanout"} => work[r].seq # nextSequence
    BY <1>a DEF Held, Sequence
  <2>3. QED
    BY <2>1, <2>2 DEF Apart
<1>5. ASSUME NEW s \in Session, CollectReceivers(s) PROVE Apart'
  <2>1. /\ pc[s] = "committed" /\ work'[s].seq = work[s].seq
        /\ \A r \in Session \ {s} : pc'[r] = pc[r] /\ work'[r] = work[r]
    BY <1>5, <1>a DEF CollectReceivers, Work
  <2>2. QED
    BY <1>b, <2>1
<1>6. ASSUME NEW s \in Session, NEW r \in Session, SendChat(s, r) PROVE Apart'
  <2>1. pc' = pc /\ \A a \in Session : work'[a].seq = work[a].seq
    BY <1>6, <1>a DEF SendChat, Work
  <2>2. QED
    BY <1>b, <2>1
<1>7. ASSUME NEW s \in Session, \/ StartJoin(s) \/ ReadHistory(s) \/ EnterRoom(s)
                                \/ QueueRoomJoined(s) \/ LeaveRoom(s) \/ Deliver(s)
      PROVE  Apart'
  BY <1>7, <1>a, <1>b DEF StartJoin, ReadHistory, EnterRoom, QueueRoomJoined, LeaveRoom, Deliver
<1>8. CASE UNCHANGED vars
  BY <1>8, <1>b DEF vars
<1>9. QED
  BY <1>1, <1>2, <1>3, <1>4, <1>5, <1>6, <1>7, <1>8 DEF Next, Handler, Disconnect, Crash

\* Each message is queued once for each receiver, and shown once from there.
LEMMA CountedStep ==
    ASSUME TypeOK, TypeOK', Held, Genuine, Unwelcomed, Apart, Counted, [Next]_vars
    PROVE  Counted'
<1>a. /\ work \in [Session -> Work] /\ pc \in [Session -> PC] /\ nextSequence \in Nat \ {0}
      /\ queue \in [Session -> Seq(Packet)] /\ window \in [Session -> History]
      /\ \A s \in Session : work[s].history \in History /\ work[s].seq \in Nat
      /\ joined \in [Session -> BOOLEAN]
  BY DEF TypeOK, Work
<1>b. UNCHANGED nextSequence => Sequence' = Sequence
  BY DEF Sequence
<1>c. ASSUME NEW r \in Session, NEW k, CountedFor(r, k), UNCHANGED window[r],
             \A i \in 1..Len(queue'[r]) : Queued(r, i, k)' =>
                i \in 1..Len(queue[r]) /\ Queued(r, i, k),
             OnItsWay(r, k)' => OnItsWay(r, k),
             \A i \in 1..Len(queue[r]) : Queued(r, i, k) =>
                i \in 1..Len(queue'[r]) /\ Queued(r, i, k)'
      PROVE  CountedFor(r, k)'
  BY <1>c DEF CountedFor
<1>d. ASSUME NEW r \in Session, NEW k, CountedFor(r, k), UNCHANGED <<queue[r], window[r]>>,
             OnItsWay(r, k)' => OnItsWay(r, k)
      PROVE  CountedFor(r, k)'
  BY <1>d DEF CountedFor, Queued
<1>e. ASSUME \A a \in Session :
                pc'[a] \in {"committed", "fanout"} => pc'[a] = pc[a] /\ work'[a] = work[a],
             NEW r, NEW k, OnItsWay(r, k)'
      PROVE  OnItsWay(r, k)
  BY <1>e DEF OnItsWay
<1>f. ASSUME UNCHANGED <<nextSequence, queue, window>>,
             \A r \in Session : \A k : OnItsWay(r, k)' => OnItsWay(r, k)
      PROVE  Counted'
  BY <1>b, <1>d, <1>f DEF Counted
<1>g. \A r \in Session : \A k \in Sequence : CountedFor(r, k)
  BY DEF Counted
<1>1. ASSUME NEW s \in Session, Connect(s) \/ LoadWelcome(s) PROVE Counted'
  BY <1>1, <1>a, <1>e, <1>f DEF Connect, LoadWelcome, storeVars
<1>2. ASSUME NEW s \in Session, FinishWelcome(s) PROVE Counted'
  <2> DEFINE h == work[s].history
  <2>1. /\ UNCHANGED <<nextSequence, queue>> /\ window'[s] = h
        /\ \A r \in Session \ {s} : window'[r] = window[r]
        /\ \A a \in Session :
              pc'[a] \in {"committed", "fanout"} => pc'[a] = pc[a] /\ work'[a] = work[a]
    BY <1>2, <1>a DEF FinishWelcome, storeVars
  <2>2. \A i, j \in 1..Len(h) : h[i] = h[j] => i = j
    BY <1>a, RunShows DEF Genuine
  <2> HIDE DEF h
  <2>3. \A r \in Session : \A k : OnItsWay(r, k)' => OnItsWay(r, k)
    BY <1>e, <2>1
  <2>4. \A r \in Session \ {s}, k \in Sequence : CountedFor(r, k)'
    BY <1>d, <1>g, <2>1, <2>3
  <2>5. ASSUME NEW k \in Sequence PROVE CountedFor(s, k)'
    <3>1. CountedFor(s, k)
      BY <1>g
    <3>2. \A i : Queued(s, i, k)' <=> Queued(s, i, k)
      BY <2>1 DEF Queued
    <3>3. \A i, j \in 1..Len(window'[s]) : window'[s][i] = k /\ window'[s][j] = k => i = j
      BY <2>1, <2>2
    <3>4. QED
      BY <2>1, <2>3, <3>1, <3>2, <3>3 DEF CountedFor
  <2>6. QED
    BY <1>b, <2>1, <2>4, <2>5 DEF Counted
<1>3. ASSUME NEW gone \in SUBSET Session, Close(gone) PROVE Counted'
  <2>1. \A r \in Session \ gone :
           /\ pc'[r] = pc[r] /\ queue'[r] = queue[r] /\ window'[r] = window[r]
           /\ work'[r] = [work[r] EXCEPT !.to = @ \ gone]
    BY <1>3 DEF Close
  <2>2. \A w \in Work : LET v == [w EXCEPT !.to = @ \ gone]
                        IN  v.seq = w.seq /\ v.to = w.to \ gone
    BY DEF Work
  <2>3. \A r \in gone : pc'[r] = "off" /\ Len(queue'[r]) = 0 /\ Len(window'[r]) = 0
    BY <1>3 DEF Close
  <2>4. /\ nextSequence' = nextSequence
        /\ \A r \in Session \ gone : work'[r].seq = work[r].seq /\ work'[r].to = work[r].to \ gone
    BY <1>3, <1>a, <2>1, <2>2 DEF Close, storeVars
  <2>5. \A r \in Session : \A k : OnItsWay(r, k)' => OnItsWay(r, k)
    BY <2>1, <2>3, <2>4 DEF OnItsWay
  <2>6. \A r \in Session \ gone, k \in Sequence : CountedFor(r, k)'
    BY <1>d, <1>g, <2>1, <2>5
  <2>7. \A r \in gone, k \in Sequence : CountedFor(r, k)'
    BY <2>3 DEF CountedFor
  <2>8. QED
    BY <1>b, <2>4, <2>6, <2>7 DEF Counted
<1>4. ASSUME NEW s \in Session, \/ \E m \in Message : StartChat(s, m)
                                \/ RejectMessage(s) \/ FinishChat(s)
      PROVE  Counted'
  BY <1>4, <1>a, <1>e, <1>f DEF StartChat, RejectMessage, FinishChat, storeVars
<1>5. ASSUME NEW s \in Session, AppendMessage(s) PROVE Counted'
  <2>1. /\ UNCHANGED <<queue, window>> /\ work'[s].seq = nextSequence
        /\ \A r \in Session \ {s} : pc'[r] = pc[r] /\ work'[r] = work[r]
    BY <1>5, <1>a DEF AppendMessage, Work
  <2> PICK n : n = nextSequence
    OBVIOUS
  <2>2. \A k \in Sequence' : k \in Sequence \/ k = n
    BY <1>5, <1>a DEF AppendMessage, Sequence
  <2>3. ASSUME NEW r \in Session, NEW k \in Sequence PROVE CountedFor(r, k)'
    <3>1. k # nextSequence
      BY <1>a DEF Sequence
    <3>2. OnItsWay(r, k)' => OnItsWay(r, k)
      BY <2>1, <3>1 DEF OnItsWay
    <3>3. QED
      BY <1>d, <1>g, <2>1, <3>2
  <2>4. ASSUME NEW r \in Session PROVE CountedFor(r, n)'
    <3>1. \A i \in 1..Len(window[r]) : window[r][i] # n
      BY <1>a DEF Genuine, Sequence
    <3>2. \A i \in 1..Len(queue[r]) : ~(queue[r][i].type = "chat" /\ queue[r][i].seq = n)
      BY <1>a DEF Held, Sequence
    <3>3. QED
      BY <2>1, <3>1, <3>2 DEF CountedFor, Queued
  <2>5. QED
    BY <2>2, <2>3, <2>4 DEF Counted
<1>6. ASSUME NEW s \in Session, CollectReceivers(s) PROVE Counted'
  <2>1. /\ pc[s] = "committed" /\ pc'[s] = "fanout" /\ work'[s].seq = work[s].seq
        /\ \A r \in Session \ {s} : pc'[r] = pc[r] /\ work'[r] = work[r]
        /\ UNCHANGED <<nextSequence, queue, window>>
    BY <1>6, <1>a DEF CollectReceivers, Work, storeVars
  <2>2. \A r \in Session : \A k : OnItsWay(r, k)' => OnItsWay(r, k)
    BY <2>1 DEF OnItsWay
  <2>3. QED
    BY <1>f, <2>1, <2>2
<1>7. ASSUME NEW s \in Session, NEW x \in Session, SendChat(s, x) PROVE Counted'
  <2> DEFINE m == Chat(work[s].seq)
  <2>1. /\ pc[s] = "fanout" /\ pc' = pc /\ UNCHANGED <<nextSequence, window>>
        /\ queue' = Enqueue(x, m) /\ x \in work[s].to
        /\ \A a \in Session : work'[a].seq = work[a].seq /\ (a # s => work'[a] = work[a])
        /\ work'[s].to = work[s].to \ {x}
    BY <1>7, <1>a DEF SendChat, storeVars, Work
  <2>2. m \in Packet /\ m.type = "chat" /\ m.seq = work[s].seq
    BY <1>a, PacketsMade
  <2> HIDE DEF m
  <2>3. \A r \in Session : \A k : OnItsWay(r, k)' => OnItsWay(r, k)
    BY <2>1 DEF OnItsWay
  <2>4. \A r \in Session \ {x} : queue'[r] = queue[r]
    BY <1>a, <2>1, <2>2, EnqueueEffect
  <2>5. \A r \in Session \ {x}, k \in Sequence : CountedFor(r, k)'
    BY <1>d, <1>g, <2>1, <2>3, <2>4
  <2>6. ASSUME NEW k \in Sequence PROVE CountedFor(x, k)'
    <3>1. CountedFor(x, k)
      BY <1>g
    <3>2. CASE ~HasSpace(x)
      <4>1. queue' = queue
        BY <2>1, <3>2 DEF Enqueue
      <4>2. QED
        BY <1>d, <2>1, <2>3, <3>1, <4>1
    <3>3. ASSUME HasSpace(x)
          PROVE  /\ Len(queue[x]) \in Nat /\ Len(queue'[x]) = Len(queue[x]) + 1
                 /\ queue'[x][Len(queue[x]) + 1] = m
                 /\ \A i \in 1..Len(queue[x]) : queue'[x][i] = queue[x][i]
      BY <1>a, <2>1, <2>2, <3>3, EnqueueEffect
    <3>4. CASE HasSpace(x) /\ k # work[s].seq
      <4>1. \A i \in 1..Len(queue'[x]) : Queued(x, i, k)' => i \in 1..Len(queue[x])
        BY <2>2, <3>3, <3>4 DEF Queued
      <4>2. \A i \in 1..Len(queue[x]) :
               i \in 1..Len(queue'[x]) /\ (Queued(x, i, k)' <=> Queued(x, i, k))
        BY <3>3, <3>4 DEF Queued
      <4>3. QED
        BY <1>c, <2>1, <2>3, <3>1, <4>1, <4>2
    <3>5. CASE HasSpace(x) /\ k = work[s].seq
      <4>1. OnItsWay(x, k)
        BY <2>1, <3>5 DEF OnItsWay
      <4>2. ~OnItsWay(x, k)'
        BY <2>1, <3>5 DEF OnItsWay, Apart
      <4>3. \A i \in 1..Len(queue[x]) : ~Queued(x, i, k)'
        BY <3>1, <3>3, <3>5, <4>1 DEF CountedFor, Queued
      <4>4. \A i, j \in 1..Len(queue'[x]) : Queued(x, i, k)' /\ Queued(x, j, k)' => i = j
        BY <3>3, <3>5, <4>3
      <4>5. QED
        BY <2>1, <3>1, <4>1, <4>2, <4>4 DEF CountedFor
    <3>6. QED
      BY <3>2, <3>4, <3>5
  <2>7. QED
    BY <1>b, <2>1, <2>5, <2>6 DEF Counted
<1>8. ASSUME NEW s \in Session, StartJoin(s) \/ ReadHistory(s) \/ EnterRoom(s) PROVE Counted'
  BY <1>8, <1>a, <1>e, <1>f DEF StartJoin, ReadHistory, EnterRoom, storeVars
<1>9. ASSUME NEW s \in Session, QueueRoomJoined(s) \/ LeaveRoom(s) PROVE Counted'
  <2>1. \A a \in Session :
           pc'[a] \in {"committed", "fanout"} => pc'[a] = pc[a] /\ work'[a] = work[a]
    BY <1>9, <1>a DEF QueueRoomJoined, LeaveRoom
  <2>2. PICK m \in Packet : queue' = Enqueue(s, m) /\ m.type # "chat"
    BY <1>9, <1>a, PacketsMade DEF QueueRoomJoined, LeaveRoom
  <2>3. UNCHANGED <<nextSequence, window>>
    BY <1>9 DEF QueueRoomJoined, LeaveRoom, storeVars
  <2>4. \A r \in Session : \A k : OnItsWay(r, k)' => OnItsWay(r, k)
    BY <1>e, <2>1
  <2>5. \A r \in Session : \A i \in 1..Len(queue'[r]) :
           (i \in 1..Len(queue[r]) /\ queue'[r][i] = queue[r][i]) \/ queue'[r][i] = m
    BY <1>a, <2>2, EnqueueEffect
  <2>6. \A r \in Session : \A i \in 1..Len(queue[r]) :
           i \in 1..Len(queue'[r]) /\ queue'[r][i] = queue[r][i]
    <3>1. CASE HasSpace(s)
      <4>1. /\ Len(queue'[s]) = Len(queue[s]) + 1
            /\ \A i \in 1..Len(queue[s]) : queue'[s][i] = queue[s][i]
            /\ \A r \in Session \ {s} : queue'[r] = queue[r]
        BY <1>a, <2>2, <3>1, EnqueueEffect
      <4>2. Len(queue[s]) \in Nat
        BY <1>a
      <4>3. QED
        BY <4>1, <4>2
    <3>2. CASE ~HasSpace(s)
      BY <2>2, <3>2 DEF Enqueue
    <3>3. QED
      BY <3>1, <3>2
  <2>7. ASSUME NEW r \in Session, NEW k \in Sequence PROVE CountedFor(r, k)'
    <3>1. \A i \in 1..Len(queue'[r]) : Queued(r, i, k)' => i \in 1..Len(queue[r]) /\ Queued(r, i, k)
      BY <2>2, <2>5 DEF Queued
    <3>2. \A i \in 1..Len(queue[r]) : Queued(r, i, k) => i \in 1..Len(queue'[r]) /\ Queued(r, i, k)'
      BY <2>6 DEF Queued
    <3>3. QED
      BY <1>c, <1>g, <2>3, <2>4, <3>1, <3>2
  <2>8. QED
    BY <1>b, <2>3, <2>7 DEF Counted
<1>10. ASSUME NEW s \in Session, Deliver(s) PROVE Counted'
  <2> DEFINE m == queue[s][1]
  <2>1. /\ pc' = pc /\ work' = work /\ UNCHANGED nextSequence
        /\ \A r \in Session \ {s} : queue'[r] = queue[r] /\ window'[r] = window[r]
    BY <1>10, <1>a DEF Deliver, storeVars
  <2>2. /\ Len(queue[s]) \in Nat \ {0} /\ Len(queue'[s]) = Len(queue[s]) - 1
        /\ \A i \in 1..Len(queue'[s]) : queue'[s][i] = queue[s][i + 1]
        /\ window'[s] = Apply(window[s], m) /\ window[s] \in Seq(Nat \ {0})
    BY <1>10, <1>a, DeliverEffect DEF Deliver, History
  <2>3. m.type \in {"chat", "joined", "left"} /\ m.seq \in Nat
    BY <1>a, <2>2, QueueElements
  <2>4. \A i, j \in 1..Len(m.history) : m.history[i] = m.history[j] => i = j
    <3>1. IsRun(m.history, nextSequence - 1)
      BY <2>2 DEF Genuine
    <3>2. QED
      BY <1>a, <3>1, RunShows
  <2>5. \A k : Queued(s, 1, k) <=> m.type = "chat" /\ m.seq = k
    BY DEF Queued
  <2> HIDE DEF m
  <2>6. \A r \in Session : \A k : OnItsWay(r, k)' => OnItsWay(r, k)
    BY <2>1 DEF OnItsWay
  <2>7. \A r \in Session \ {s}, k \in Sequence : CountedFor(r, k)'
    BY <1>d, <1>g, <2>1, <2>6
  <2>8. ASSUME NEW k \in Sequence PROVE CountedFor(s, k)'
    <3>1. CountedFor(s, k)
      BY <1>g
    <3>2. \A i \in 1..Len(queue'[s]) : /\ i + 1 \in 1..Len(queue[s])
                                       /\ Queued(s, i, k)' <=> Queued(s, i + 1, k)
      BY <2>2 DEF Queued
    <3>3. /\ \A i, j \in 1..Len(queue'[s]) : Queued(s, i, k)' /\ Queued(s, j, k)' => i = j
          /\ OnItsWay(s, k)' => \A i \in 1..Len(queue'[s]) : ~Queued(s, i, k)'
      <4>1. ASSUME NEW i \in 1..Len(queue'[s]), NEW j \in 1..Len(queue'[s]),
                   Queued(s, i, k)', Queued(s, j, k)'
            PROVE  i = j
        <5>1. i + 1 = j + 1
          BY <3>1, <3>2, <4>1 DEF CountedFor
        <5>2. QED
          BY <5>1
      <4>2. QED
        BY <2>6, <3>1, <3>2, <4>1 DEF CountedFor
    <3>4. CASE m.type = "joined"
      <4>1. \A i, j \in 1..Len(window'[s]) : window'[s][i] = k /\ window'[s][j] = k => i = j
        BY <2>2, <2>4, <3>4 DEF Apply
      <4>2. QED
        BY <3>3, <4>1 DEF CountedFor
    <3>5. CASE m.type = "left" \/ (m.type = "chat" /\ m.seq # k)
      <4>1. \A i \in 1..Len(window'[s]) : window'[s][i] = k
                => i \in 1..Len(window[s]) /\ window[s][i] = k
        <5>1. CASE m.type = "left"
          BY <2>2, <5>1 DEF Apply
        <5>2. CASE m.type = "chat" /\ m.seq # k
          <6>1. window'[s] = Append(window[s], m.seq)
            BY <2>2, <5>2 DEF Apply
          <6>2. QED
            BY <2>2, <2>3, <5>2, <6>1
        <5>3. QED
          BY <3>5, <5>1, <5>2
      <4>2. QED
        BY <2>6, <3>1, <3>2, <3>3, <4>1 DEF CountedFor
    <3>6. CASE m.type = "chat" /\ m.seq = k
      <4>1. Queued(s, 1, k) /\ 1 \in 1..Len(queue[s])
        BY <2>2, <2>5, <3>6
      <4>2. /\ ~OnItsWay(s, k)'
            /\ \A i, j \in 1..Len(window[s]) : window[s][i] = k /\ window[s][j] = k => i = j
        BY <2>6, <3>1, <4>1 DEF CountedFor
      <4>3. \A i \in 1..Len(queue'[s]) : ~Queued(s, i, k)'
        <5>1. \A i \in 1..Len(queue'[s]) : i + 1 # 1
          OBVIOUS
        <5>2. QED
          BY <3>1, <3>2, <4>1, <5>1 DEF CountedFor
      <4>4. \A i \in 1..Len(window'[s]) : \/ i \in 1..Len(window[s]) /\ window'[s][i] = window[s][i]
                                          \/ i = Len(window[s]) + 1
        <5>1. window'[s] = Append(window[s], m.seq)
          BY <2>2, <3>6 DEF Apply
        <5>2. QED
          BY <2>2, <2>3, <5>1
      <4>5. \A i, j, l \in 1..Len(window'[s]) :
               window'[s][i] = k /\ window'[s][j] = k /\ window'[s][l] = k =>
                  i = j \/ j = l \/ i = l
        BY <4>2, <4>4
      <4>6. QED
        BY <3>3, <4>2, <4>3, <4>5 DEF CountedFor
    <3>7. QED
      BY <2>3, <3>4, <3>5, <3>6
  <2>9. QED
    BY <1>b, <2>1, <2>7, <2>8 DEF Counted
<1>11. CASE UNCHANGED vars
  BY <1>11, <1>e, <1>f DEF vars, storeVars
<1>12. QED
  BY <1>1, <1>2, <1>3, <1>4, <1>5, <1>6, <1>7, <1>8, <1>9, <1>10, <1>11
  DEF Next, Handler, Disconnect, Crash

\* A set whose elements are all equal has at most one, one without three different at most two.
LEMMA FewElements ==
    ASSUME NEW S
    PROVE  /\ (\A x, y \in S : x = y) => Cardinality(S) \in 0..1
           /\ (\A x, y, z \in S : x = y \/ y = z \/ x = z) => Cardinality(S) \in 0..2
<1>1. ASSUME NEW T, \A x, y \in T : x = y PROVE IsFiniteSet(T) /\ Cardinality(T) \in 0..1
  <2>1. CASE T = {}
    BY <2>1, FS_EmptySet
  <2>2. ASSUME NEW x \in T PROVE IsFiniteSet(T) /\ Cardinality(T) \in 0..1
    <3>1. T = {x}
      BY <1>1, <2>2
    <3>2. QED
      BY <3>1, FS_Singleton
  <2>3. QED
    BY <2>1, <2>2
<1>2. ASSUME \A x, y, z \in S : x = y \/ y = z \/ x = z PROVE Cardinality(S) \in 0..2
  <2>1. CASE S = {}
    BY <2>1, FS_EmptySet
  <2>2. ASSUME NEW x \in S PROVE Cardinality(S) \in 0..2
    <3>1. IsFiniteSet(S \ {x}) /\ Cardinality(S \ {x}) \in 0..1
      BY <1>1, <1>2, <2>2
    <3>2. Cardinality((S \ {x}) \cup {x}) = Cardinality(S \ {x}) + 1
      BY <3>1, FS_AddElement
    <3>3. (S \ {x}) \cup {x} = S
      BY <2>2
    <3>4. QED
      BY <3>1, <3>2, <3>3
  <2>3. QED
    BY <2>1, <2>2
<1>3. QED
  BY <1>1, <1>2

\* What is shown once or about to be is shown twice at most.
LEMMA CountedTwice ==
    ASSUME TypeOK, Counted
    PROVE  AtMostTwice
<1> SUFFICES ASSUME NEW s \in Session, NEW k \in Sequence PROVE Copies(s, k) <= 2
  BY DEF AtMostTwice
<1> DEFINE W == {i \in 1..Len(window[s]) : window[s][i] = k}
           Q == {i \in 1..Len(queue[s]) : queue[s][i] = Chat(k)}
<1>1. Copies(s, k) = Cardinality(W) + Cardinality(Q)
  BY DEF Copies
<1>2. CountedFor(s, k) /\ k \in Nat
  BY DEF Counted, Sequence
<1>3. \A i \in Q : i \in 1..Len(queue[s]) /\ Queued(s, i, k)
  BY <1>2, PacketsMade DEF Queued
<1>4. \A i, j \in Q : i = j
  BY <1>2, <1>3 DEF CountedFor
<1>5. \A i, j, l \in W : i = j \/ j = l \/ i = l
  BY <1>2 DEF CountedFor
<1>6. Q # {} => \A i, j \in W : i = j
  BY <1>2, <1>3 DEF CountedFor
<1> HIDE DEF W, Q
<1>7. Cardinality(Q) \in 0..1
  BY <1>4, FewElements
<1>8. Cardinality(W) \in 0..2
  BY <1>5, FewElements
<1>9. CASE Q = {}
  BY <1>1, <1>8, <1>9, FS_EmptySet
<1>10. CASE Q # {}
  <2>1. Cardinality(W) \in 0..1
    BY <1>6, <1>10, FewElements
  <2>2. QED
    BY <1>1, <1>7, <2>1
<1>11. QED
  BY <1>9, <1>10

(***************************************************************************)
(* append_message, the broadcast and the two halves of join_room: whatever *)
(* way they interleave, who is in a room is shown each message at least    *)
(* once, with the exceptions that lost names, and at most twice.           *)
(***************************************************************************)
THEOREM ShownOnceOrTwiceCorrect == Spec => []ShownOnceOrTwice
<1> DEFINE Sent == Held /\ Logged /\ Apart /\ Counted
           Shown == Genuine /\ Unwelcomed /\ Covered /\ Wiped /\ Halfway
           IInv == TypeOK /\ Sent /\ Shown /\ NothingMissed
<1>1. Init => IInv
  <2> SUFFICES ASSUME Init PROVE IInv
    OBVIOUS
  <2>1. TypeOK /\ Held /\ Logged /\ Genuine
    BY ConstantsAssumption, WorkUpdates
    DEF Init, TypeOK, Held, PC, History, Logged, Genuine, Sequence, IsRun, Idle
  <2>2. Apart /\ Unwelcomed /\ Halfway /\ NothingMissed
    BY DEF Init, Apart, Unwelcomed, Halfway, NothingMissed
  <2>3. Counted /\ Wiped /\ Covered
    BY DEF Init, Counted, Sequence, Wiped, WipedFor, Covered
  <2>4. QED
    BY <2>1, <2>2, <2>3
<1>2. IInv /\ [Next]_vars => IInv'
  <2> SUFFICES ASSUME IInv, [Next]_vars PROVE IInv'
    OBVIOUS
  <2>1. TypeOK' /\ Held' /\ Logged'
    BY TypeStep, HeldStep, LoggedStep
  <2>2. Genuine' /\ Unwelcomed' /\ Apart'
    BY GenuineStep, UnwelcomedStep, ApartStep
  <2>3. Covered' /\ Wiped' /\ Halfway'
    BY <2>1, CoveredStep, WipedStep, HalfwayStep
  <2>4. Counted' /\ NothingMissed'
    BY <2>1, CountedStep, MissedStep
  <2>5. QED
    BY <2>1, <2>2, <2>3, <2>4
<1>3. IInv => ShownOnceOrTwice
  BY CountedTwice DEF ShownOnceOrTwice
<1>4. QED
  BY <1>1, <1>2, <1>3, PTL DEF Spec
=============================================================================
