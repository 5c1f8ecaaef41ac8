----------------------------- MODULE RoomAccess -----------------------------
(***************************************************************************)
(* One private room of a group: its access list in the store               *)
(* (room_members), the sessions that are in it (joined_rooms), and what the*)
(* clients of the group show of it.  Creating it, listing it in Welcome,   *)
(* joining, leaving, and changing its access list all run at the same time *)
(* in the tasks of different connections (server.rs).                      *)
(*                                                                         *)
(* An action ends where the handler awaits a lock or the store, as in      *)
(* RoomChat.  Who is in the room gets its messages and may send: the       *)
(* messages themselves are RoomChat's.                                     *)
(*                                                                         *)
(* A client applies what is queued for it in order, and nothing in the     *)
(* gateway depends on how far it is.  So there is no queue here: view is   *)
(* what the client shows once it has read all that is queued for it, and   *)
(* since the queue also carries everything else, any message may find it   *)
(* full (fits).                                                            *)
(***************************************************************************)
EXTENDS Naturals, FiniteSets

CONSTANTS
    Session,    \* connection tasks; a slot is reused after it closes
    Member,     \* member_id values, all of them active
    NoMember,
    Owner,      \* the member that creates the room
    Admin,      \* the group's administrator
    MaxChanges  \* bound: changes of the access list

ASSUME ConstantsAssumption ==
    /\ IsFiniteSet(Session)
    /\ NoMember \notin Member
    /\ {Owner, Admin} \subseteq Member
    /\ MaxChanges \in Nat

VARIABLES
    room,      \* "none", "stored" (in SQLite only) or "listed" (in group.rooms too)
    included,  \* table room_members
    changes,   \* number of changes of included so far
    announced, \* history: the latest change that reached the end of its handler
    trusted,   \* history: members that ever had a row in room_members
    pc,        \* where each connection task is
    who,       \* its member_id
    work,      \* what its handler holds between two actions
    joined,    \* whether the room is in the session's joined_rooms
    view,      \* the room in the client's list of rooms; "welcome": as Welcome will say
    late,      \* history: sessions that joined after their access was taken away
    astray     \* history: sessions whose client may list the room wrongly

storeVars == <<room, included, changes, announced, trusted>>
sessionVars == <<pc, who, work, joined, view, late, astray>>
vars == <<storeVars, sessionVars>>

(***************************************************************************)
(* off         no connection                                               *)
(* registered  in group.clients, rooms not yet read                        *)
(* loaded      rooms read, Welcome not yet written                         *)
(* online      in the select! loop, no handler running                     *)
(* stored      handle_create_room has committed the room                   *)
(* listed      and inserted it into group.rooms                            *)
(* announcing  broadcast_private_room_created has collected its receivers  *)
(* checked     member_can_access_room said yes, joined_rooms not changed   *)
(* entered     joined_rooms changed, RoomJoined not yet queued             *)
(* changed     set_room_member has committed, nobody told yet              *)
(* notifying   its receivers are collected, not all sent to                *)
(***************************************************************************)
PC == {"off", "registered", "loaded", "online", "stored", "listed", "announcing",
       "checked", "entered", "changed", "notifying"}

\* ServerMessage: RoomCreated, RoomJoined, RoomLeft
ItemKind == {"created", "joined", "left"}

Idle == [sees |-> FALSE, item |-> "left", target |-> NoMember, number |-> 0, to |-> {}]

\* what a handler may hold: what rooms_for_member found, the message to send and to whom
Work == [sees : BOOLEAN, item : ItemKind, target : Member \cup {NoMember},
         number : 0..MaxChanges, to : SUBSET Session]

TypeOK ==
    /\ room \in {"none", "stored", "listed"}
    /\ included \subseteq Member /\ trusted \subseteq Member
    /\ changes \in 0..MaxChanges /\ announced \in 0..MaxChanges
    /\ pc \in [Session -> PC]
    /\ who \in [Session -> Member \cup {NoMember}]
    /\ work \in [Session -> Work]
    /\ joined \in [Session -> BOOLEAN]
    /\ view \in [Session -> {"welcome", "absent", "seen", "joined"}]
    /\ late \subseteq Session /\ astray \subseteq Session

Init ==
    /\ room = "none"
    /\ included = {} /\ trusted = {}
    /\ changes = 0 /\ announced = 0
    /\ pc = [s \in Session |-> "off"]
    /\ who = [s \in Session |-> NoMember]
    /\ work = [s \in Session |-> Idle]
    /\ joined = [s \in Session |-> FALSE]
    /\ view = [s \in Session |-> "welcome"]
    /\ late = {} /\ astray = {}

\* the EXISTS clauses of rooms_for_member and member_can_access_room
HasAccess(m) == room # "none" /\ m \in included \cup {Admin}

\* variant: a session is inserted after its Welcome
ClientsWelcomed == {s \in Session : pc[s] \notin {"off", "registered", "loaded"}}

\* group.clients
Clients == {s \in Session : pc[s] # "off"}
SessionsOf(members) == {s \in Clients : who[s] \in members}

\* ChatApp::handle_server_event for a private room
Shown(v, item) ==
    CASE item = "created" -> IF v = "joined" THEN "joined" ELSE "seen"
      [] item = "joined" -> "joined"
      [] item = "left" -> "absent"

\* send_to_client: try_send drops the message when the queue is full
Enqueue(r, item, fits) == IF fits THEN [view EXCEPT ![r] = Shown(@, item)] ELSE view

-----------------------------------------------------------------------------
(* enter_group *)

\* group.clients.insert
Connect(s, m) ==
    /\ pc[s] = "off"
    /\ pc' = [pc EXCEPT ![s] = "registered"]
    /\ who' = [who EXCEPT ![s] = m]
    /\ UNCHANGED <<storeVars, work, joined, view, late, astray>>

\* rooms_for_member
ReadRooms(s) ==
    /\ pc[s] = "registered"
    /\ pc' = [pc EXCEPT ![s] = "loaded"]
    /\ work' = [work EXCEPT ![s].sees = HasAccess(who[s])]
    /\ UNCHANGED <<storeVars, who, joined, view, late, astray>>

\* Welcome is written before anything queued; ChatApp::new lists its rooms
Welcome(s) ==
    /\ pc[s] = "loaded"
    /\ pc' = [pc EXCEPT ![s] = "online"]
    /\ view' = [view EXCEPT ![s] = IF @ # "welcome" THEN @
                                   ELSE IF work[s].sees THEN "seen" ELSE "absent"]
    /\ work' = [work EXCEPT ![s] = Idle]
    /\ UNCHANGED <<storeVars, who, joined, late, astray>>

\* the entries are removed; senders that were already collected lead nowhere
Close(gone) ==
    LET reset(f, value) == [s \in Session |-> IF s \in gone THEN value ELSE f[s]]
    IN  /\ pc' = reset(pc, "off")
        /\ who' = reset(who, NoMember)
        /\ work' = [s \in Session |->
                       IF s \in gone THEN Idle ELSE [work[s] EXCEPT !.to = @ \ gone]]
        /\ joined' = reset(joined, FALSE)
        /\ view' = reset(view, "welcome")
        /\ late' = late \ gone /\ astray' = astray \ gone

\* a store or write error in enter_group, a read error, a kick
Disconnect(s) ==
    /\ pc[s] \in {"registered", "loaded", "online"}
    /\ Close({s})
    /\ UNCHANGED storeVars

\* the gateway dies; a restart loads every stored room into group.rooms
Crash ==
    /\ Close(Session)
    /\ room' = IF room = "none" THEN "none" ELSE "listed"
    /\ UNCHANGED <<included, changes, announced, trusted>>

-----------------------------------------------------------------------------
(* handle_create_room *)

\* create_room_with_visibility: the room and its owner's row in one transaction
CreateRoom(s) ==
    /\ pc[s] = "online"
    /\ who[s] = Owner
    /\ room = "none"
    /\ room' = "stored"
    /\ included' = {Owner} /\ trusted' = {Owner}
    /\ pc' = [pc EXCEPT ![s] = "stored"]
    /\ UNCHANGED <<changes, announced, who, work, joined, view, late, astray>>

ListRoom(s) ==
    /\ pc[s] = "stored"
    /\ room' = "listed"
    /\ pc' = [pc EXCEPT ![s] = "listed"]
    /\ UNCHANGED <<included, changes, announced, trusted>>
    /\ UNCHANGED <<who, work, joined, view, late, astray>>

\* broadcast_private_room_created, under group.clients.lock()
AnnounceRoom(s) ==
    /\ pc[s] = "listed"
    /\ pc' = [pc EXCEPT ![s] = "announcing"]
    /\ work' = [work EXCEPT ![s].item = "created", ![s].to = SessionsOf({Owner, Admin})]
    /\ UNCHANGED <<storeVars, who, joined, view, late, astray>>

\* one turn of the loop over the receivers, with group.clients unlocked
SendNext(s, r, fits) ==
    /\ pc[s] \in {"announcing", "notifying"}
    /\ r \in work[s].to
    /\ work' = [work EXCEPT ![s].to = @ \ {r}]
    /\ view' = Enqueue(r, work[s].item, fits)
    /\ astray' = IF fits THEN astray ELSE astray \cup {r}
    /\ UNCHANGED <<storeVars, pc, who, joined, late>>

\* the creator goes on to join_room, without another check
FinishAnnounce(s) ==
    /\ pc[s] = "announcing"
    /\ work[s].to = {}
    /\ pc' = [pc EXCEPT ![s] = "checked"]
    /\ work' = [work EXCEPT ![s] = Idle]
    /\ UNCHANGED <<storeVars, who, joined, view, late, astray>>

-----------------------------------------------------------------------------
(* handle_join_room, join_room, handle_leave_room *)

\* the room was in group.rooms, where it stays, and member_can_access_room says yes
CheckAccess(s) ==
    /\ pc[s] = "online"
    /\ room = "listed"
    /\ HasAccess(who[s])
    /\ pc' = [pc EXCEPT ![s] = "checked"]
    /\ UNCHANGED <<storeVars, who, work, joined, view, late, astray>>

\* history_unavailable
JoinFails(s) ==
    /\ pc[s] = "checked"
    /\ pc' = [pc EXCEPT ![s] = "online"]
    /\ UNCHANGED <<storeVars, who, work, joined, view, late, astray>>

\* the history is read, then joined_rooms.insert; access is not looked at again
EnterRoom(s) ==
    /\ pc[s] = "checked"
    /\ joined' = [joined EXCEPT ![s] = TRUE]
    /\ pc' = [pc EXCEPT ![s] = "entered"]
    /\ late' = IF HasAccess(who[s]) THEN late ELSE late \cup {s}
    /\ UNCHANGED <<storeVars, who, work, view, astray>>

QueueRoomJoined(s, fits) ==
    /\ pc[s] = "entered"
    /\ pc' = [pc EXCEPT ![s] = "online"]
    /\ view' = Enqueue(s, "joined", fits)
    /\ astray' = IF HasAccess(who[s]) /\ fits THEN astray ELSE astray \cup {s}
    /\ UNCHANGED <<storeVars, who, work, joined, late>>

\* for any room_id, but where both are false nothing changes
LeaveRoom(s, fits) ==
    /\ pc[s] = "online"
    /\ joined[s] \/ view[s] # "absent"
    /\ joined' = [joined EXCEPT ![s] = FALSE]
    /\ late' = late \ {s}
    /\ view' = Enqueue(s, "left", fits)
    /\ astray' = astray \cup {s}
    /\ UNCHANGED <<storeVars, pc, who, work>>

-----------------------------------------------------------------------------
(* handle_set_room_member *)

(***************************************************************************)
(* set_room_member: one transaction, by the owner or the administrator.    *)
(* Neither of these two can be the target.  A change that changes nothing  *)
(* is answered with an error.  The room_id reaches clients when the room is*)
(* listed, or with a Welcome.                                              *)
(***************************************************************************)
SetRoomMember(s, m, include) ==
    /\ pc[s] = "online"
    /\ who[s] \in {Owner, Admin}
    /\ room = "listed" \/ view[s] # "absent"
    /\ m \notin {Owner, Admin}
    /\ (m \in included) # include
    /\ changes < MaxChanges
    /\ included' = IF include THEN included \cup {m} ELSE included \ {m}
    /\ trusted' = trusted \cup included'
    /\ changes' = changes + 1
    /\ pc' = [pc EXCEPT ![s] = "changed"]
    /\ work' = [work EXCEPT ![s].item = IF include THEN "created" ELSE "left",
                            ![s].target = m, ![s].number = changes + 1]
    /\ UNCHANGED <<room, announced, who, joined, view, late, astray>>

\* group.rooms.lock() is held to the end of the if-let, sends included
RoomsLocked == \E s \in Session : pc[s] = "notifying"

\* variant: the removed member's sessions stay in the room
CollectOnly(s) ==
    /\ pc[s] = "changed"
    /\ ~RoomsLocked
    /\ room = "listed"
    /\ pc' = [pc EXCEPT ![s] = "notifying"]
    /\ work' = [work EXCEPT ![s].to = SessionsOf({work[s].target})]
    /\ UNCHANGED <<storeVars, who, joined, view, late, astray>>

(***************************************************************************)
(* broadcast_to_member or remove_room_from_member, under                   *)
(* group.clients.lock(): a removal also takes the sessions out of the room.*)
(* Two changes may come here in the other order than they were committed.  *)
(***************************************************************************)
NotifyCollect(s) ==
    LET sessions == SessionsOf({work[s].target})
        removed == IF work[s].item = "left" THEN sessions ELSE {}
    IN  /\ pc[s] = "changed"
        /\ ~RoomsLocked
        /\ room = "listed"
        /\ pc' = [pc EXCEPT ![s] = "notifying"]
        /\ work' = [work EXCEPT ![s].to = sessions]
        /\ joined' = [r \in Session |-> joined[r] /\ r \notin removed]
        /\ late' = late \ removed
        /\ astray' = IF work[s].number < announced THEN astray \cup sessions ELSE astray
        /\ announced' = IF work[s].number < announced THEN announced ELSE work[s].number
        /\ UNCHANGED <<room, included, changes, trusted, who, view>>

\* the room is not in group.rooms yet: nobody is told
NotifyNobody(s) ==
    /\ pc[s] = "changed"
    /\ room # "listed"
    /\ pc' = [pc EXCEPT ![s] = "online"]
    /\ astray' = astray \cup SessionsOf({work[s].target})
    /\ announced' = IF work[s].number < announced THEN announced ELSE work[s].number
    /\ work' = [work EXCEPT ![s] = Idle]
    /\ UNCHANGED <<room, included, changes, trusted, who, joined, view, late>>

\* then the room's member list is sent to the actor, which changes nothing here
FinishNotify(s) ==
    /\ pc[s] = "notifying"
    /\ work[s].to = {}
    /\ pc' = [pc EXCEPT ![s] = "online"]
    /\ work' = [work EXCEPT ![s] = Idle]
    /\ UNCHANGED <<storeVars, who, joined, view, late, astray>>

-----------------------------------------------------------------------------

Next ==
    \/ \E s \in Session :
          \/ (\E m \in Member : Connect(s, m))
          \/ ReadRooms(s) \/ Welcome(s) \/ Disconnect(s)
          \/ CreateRoom(s) \/ ListRoom(s) \/ AnnounceRoom(s)
          \/ (\E r \in Session, fits \in BOOLEAN : SendNext(s, r, fits))
          \/ FinishAnnounce(s)
          \/ CheckAccess(s) \/ JoinFails(s) \/ EnterRoom(s)
          \/ (\E fits \in BOOLEAN : QueueRoomJoined(s, fits) \/ LeaveRoom(s, fits))
          \/ (\E m \in Member, include \in BOOLEAN : SetRoomMember(s, m, include))
          \/ NotifyCollect(s) \/ NotifyNobody(s) \/ FinishNotify(s)
    \/ Crash

Spec == Init /\ [][Next]_vars

-----------------------------------------------------------------------------
(* Properties *)

\* a removal of m has been committed, and its sessions are not collected yet
RemovalUnderWay(m) ==
    \E a \in Session : pc[a] = "changed" /\ work[a].item = "left" /\ work[a].target = m

(***************************************************************************)
(* Who is in the room has access to it or is about to be taken out, in any *)
(* order of additions, removals and joins of several sessions.  The        *)
(* exception is a session between its access check and joined_rooms.insert *)
(* when access was taken away.                                             *)
(***************************************************************************)
JoinedHasAccess ==
    \A s \in Session : joined[s] =>
        HasAccess(who[s]) \/ RemovalUnderWay(who[s]) \/ s \in late

(***************************************************************************)
(* SECURITY.md: a private room hides its existence.  No client of a member *)
(* that never had access hears of it, in Welcome or later, while the room  *)
(* is created and its list changed.                                        *)
(***************************************************************************)
NeverHeardOf ==
    \A s \in Clients : who[s] \notin trusted \cup {Admin} =>
        view[s] \in {"welcome", "absent"} /\ ~work[s].sees

\* something that will still change what the client of s shows
Awaiting(s) ==
    \/ pc[s] # "online"
    \/ \E a \in Session :
          \/ pc[a] \in {"stored", "listed"}
          \/ pc[a] = "changed" /\ work[a].target = who[s]
          \/ s \in work[a].to

(***************************************************************************)
(* Once nothing is under way, a client lists the room if and only if its   *)
(* member has access, whatever it missed while it connected, joined or was *)
(* removed.  The exceptions are the sessions in astray: a join that raced  *)
(* with a removal, two changes notified in the other order, a change made  *)
(* before the room was listed, a full queue, and a member's own leaving,   *)
(* after which the terminal drops the room although access remains.        *)
(***************************************************************************)
ListAgrees ==
    \A s \in Session : ~Awaiting(s) /\ s \notin astray =>
        (view[s] # "absent" <=> HasAccess(who[s]))

(***************************************************************************)
(* A private room is confined to its members: nobody else is in it, and    *)
(* nobody who never was one hears of it (server.rs:1321, server.rs:1271).  *)
(***************************************************************************)
Confinement == TypeOK /\ JoinedHasAccess /\ NeverHeardOf
=============================================================================
