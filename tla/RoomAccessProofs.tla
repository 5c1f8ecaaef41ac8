-------------------------- MODULE RoomAccessProofs --------------------------
(* Proofs of the safety properties of RoomAccess, for all constants. *)
EXTENDS RoomAccess, TLAPS

\* Whatever a client shows of the room, a message changes it into something to show.
LEMMA ShownType ==
    ASSUME NEW v, NEW item \in ItemKind
    PROVE  /\ Shown(v, item) \in {"absent", "seen", "joined"}
           /\ item = "left" => Shown(v, item) = "absent"
           /\ item # "left" => Shown(v, item) \in {"seen", "joined"}
  BY DEF Shown, ItemKind

\* What the handlers write into their records.
LEMMA WorkUpdates ==
    /\ Idle \in Work
    /\ \A w \in Work :
          /\ \A b \in BOOLEAN : [w EXCEPT !.sees = b] \in Work
          /\ \A q \in SUBSET Session : [w EXCEPT !.to = q] \in Work
          /\ \A i \in ItemKind, q \in SUBSET Session : [w EXCEPT !.item = i, !.to = q] \in Work
          /\ \A i \in ItemKind, m \in Member, n \in 0..MaxChanges :
                [w EXCEPT !.item = i, !.target = m, !.number = n] \in Work
<1>1. Idle \in Work
  BY ConstantsAssumption DEF Idle, Work, ItemKind
<1>2. ASSUME NEW w \in Work, NEW b \in BOOLEAN PROVE [w EXCEPT !.sees = b] \in Work
  BY DEF Work
<1>3. ASSUME NEW w \in Work, NEW q \in SUBSET Session PROVE [w EXCEPT !.to = q] \in Work
  BY DEF Work
<1>4. ASSUME NEW w \in Work, NEW i \in ItemKind, NEW q \in SUBSET Session
      PROVE  [w EXCEPT !.item = i, !.to = q] \in Work
  BY DEF Work
<1>5. ASSUME NEW w \in Work, NEW i \in ItemKind, NEW m \in Member, NEW n \in 0..MaxChanges
      PROVE  [w EXCEPT !.item = i, !.target = m, !.number = n] \in Work
  BY DEF Work
<1>6. QED
  BY <1>1, <1>2, <1>3, <1>4, <1>5

\* Closing connections leaves every variable of the sessions within its type.
LEMMA CloseType ==
    ASSUME TypeOK, NEW gone \in SUBSET Session, Close(gone)
    PROVE  /\ pc' \in [Session -> PC]
           /\ who' \in [Session -> Member \cup {NoMember}]
           /\ work' \in [Session -> Work]
           /\ joined' \in [Session -> BOOLEAN]
           /\ view' \in [Session -> {"welcome", "absent", "seen", "joined"}]
           /\ late' \subseteq Session /\ astray' \subseteq Session
<1>1. \A s \in Session : work[s] \in Work
  BY DEF TypeOK
<1>2. Idle \in Work
  BY ConstantsAssumption DEF Idle, Work, ItemKind
<1>3. \A s \in Session : [work[s] EXCEPT !.to = @ \ gone] \in Work
  BY <1>1 DEF Work
<1>4. work' \in [Session -> Work]
  BY <1>2, <1>3 DEF Close
<1>5. QED
  BY <1>4 DEF TypeOK, Close, PC

\* No handler writes a value outside its variable's type.
LEMMA TypeStep == TypeOK /\ [Next]_vars => TypeOK'
<1> SUFFICES ASSUME TypeOK, [Next]_vars PROVE TypeOK'
  OBVIOUS
<1> USE ConstantsAssumption DEF TypeOK
<1>a. work \in [Session -> Work] /\ \A s \in Session : work[s] \in Work
  OBVIOUS
<1>b. /\ \A p \in {"off", "registered", "loaded", "online", "stored", "listed", "announcing",
                   "checked", "entered", "changed", "notifying"} : p \in PC
      /\ \A i \in {"created", "joined", "left"} : i \in ItemKind
  BY DEF PC, ItemKind
<1>c. Idle \in Work
  BY DEF Idle, Work, ItemKind
<1>d. \A r \in Session, i \in ItemKind, fits \in BOOLEAN :
         Enqueue(r, i, fits) \in [Session -> {"welcome", "absent", "seen", "joined"}]
  BY ShownType DEF Enqueue
<1>1. ASSUME NEW s \in Session, NEW m \in Member, Connect(s, m) PROVE TypeOK'
  BY <1>1, <1>b DEF Connect, storeVars
<1>2. ASSUME NEW s \in Session, ReadRooms(s) PROVE TypeOK'
  <2>1. [work[s] EXCEPT !.sees = HasAccess(who[s])] \in Work
    BY <1>a, WorkUpdates DEF HasAccess
  <2>2. work' \in [Session -> Work]
    BY <1>2, <1>a, <2>1 DEF ReadRooms
  <2>3. QED
    BY <1>2, <2>2, <1>b DEF ReadRooms, storeVars
<1>3. ASSUME NEW s \in Session, Welcome(s) PROVE TypeOK'
  <2>1. work' \in [Session -> Work]
    BY <1>3, <1>a, <1>c DEF Welcome
  <2>2. QED
    BY <1>3, <2>1, <1>b DEF Welcome, storeVars
<1>4. ASSUME NEW s \in Session, Disconnect(s) PROVE TypeOK'
  BY <1>4, CloseType DEF Disconnect, storeVars
<1>5. ASSUME NEW s \in Session, CreateRoom(s) \/ ListRoom(s) PROVE TypeOK'
  BY <1>5, <1>b DEF CreateRoom, ListRoom
<1>6. ASSUME NEW s \in Session, AnnounceRoom(s) PROVE TypeOK'
  <2>1. SessionsOf({Owner, Admin}) \in SUBSET Session
    BY DEF SessionsOf, Clients
  <2>2. [work[s] EXCEPT !.item = "created", !.to = SessionsOf({Owner, Admin})] \in Work
    BY <1>a, <1>b, <2>1, WorkUpdates
  <2>3. work' \in [Session -> Work]
    BY <1>6, <1>a, <2>2 DEF AnnounceRoom
  <2>4. QED
    BY <1>6, <2>3, <1>b DEF AnnounceRoom, storeVars
<1>7. ASSUME NEW s \in Session, NEW r \in Session, NEW fits \in BOOLEAN, SendNext(s, r, fits)
      PROVE TypeOK'
  <2>1. [work[s] EXCEPT !.to = work[s].to \ {r}] \in Work
    <3>1. work[s].to \ {r} \in SUBSET Session
      BY <1>a DEF Work
    <3>2. QED
      BY <1>a, <3>1, WorkUpdates
  <2>2. work' \in [Session -> Work]
    BY <1>7, <1>a, <2>1 DEF SendNext
  <2>3. view' \in [Session -> {"welcome", "absent", "seen", "joined"}]
    BY <1>7, <1>a, <1>d DEF SendNext, Work
  <2>4. QED
    BY <1>7, <2>2, <2>3 DEF SendNext, storeVars
<1>8. ASSUME NEW s \in Session, FinishAnnounce(s) \/ FinishNotify(s) PROVE TypeOK'
  <2>1. work' \in [Session -> Work]
    BY <1>8, <1>a, <1>c DEF FinishAnnounce, FinishNotify
  <2>2. QED
    BY <1>8, <2>1, <1>b DEF FinishAnnounce, FinishNotify, storeVars
<1>9. ASSUME NEW s \in Session, CheckAccess(s) \/ JoinFails(s) \/ EnterRoom(s) PROVE TypeOK'
  BY <1>9, <1>b DEF CheckAccess, JoinFails, EnterRoom, storeVars
<1>10. ASSUME NEW s \in Session, NEW fits \in BOOLEAN,
              QueueRoomJoined(s, fits) \/ LeaveRoom(s, fits)
       PROVE TypeOK'
  <2>1. view' \in [Session -> {"welcome", "absent", "seen", "joined"}]
    BY <1>10, <1>b, <1>d DEF QueueRoomJoined, LeaveRoom
  <2>2. QED
    BY <1>10, <2>1, <1>b DEF QueueRoomJoined, LeaveRoom, storeVars
<1>11. ASSUME NEW s \in Session, NEW m \in Member, NEW include \in BOOLEAN,
              SetRoomMember(s, m, include)
       PROVE TypeOK'
  <2>1. changes + 1 \in 0..MaxChanges
    BY <1>11 DEF SetRoomMember
  <2>2. [work[s] EXCEPT !.item = IF include THEN "created" ELSE "left",
                        !.target = m, !.number = changes + 1] \in Work
    BY <1>a, <1>b, <2>1, WorkUpdates
  <2>3. work' \in [Session -> Work]
    BY <1>11, <1>a, <2>2 DEF SetRoomMember
  <2>4. QED
    BY <1>11, <2>1, <2>3, <1>b DEF SetRoomMember
<1>12. ASSUME NEW s \in Session, NotifyCollect(s) PROVE TypeOK'
  <2>1. SessionsOf({work[s].target}) \in SUBSET Session
    BY DEF SessionsOf, Clients
  <2>2. [work[s] EXCEPT !.to = SessionsOf({work[s].target})] \in Work
    BY <1>a, <2>1, WorkUpdates
  <2>3. work' \in [Session -> Work]
    BY <1>12, <1>a, <2>2 DEF NotifyCollect
  <2>4. announced' \in 0..MaxChanges
    BY <1>12, <1>a DEF NotifyCollect, Work
  <2>5. QED
    BY <1>12, <2>1, <2>3, <2>4, <1>b DEF NotifyCollect
<1>13. ASSUME NEW s \in Session, NotifyNobody(s) PROVE TypeOK'
  <2>1. work' \in [Session -> Work]
    BY <1>13, <1>a, <1>c DEF NotifyNobody
  <2>2. announced' \in 0..MaxChanges
    BY <1>13, <1>a DEF NotifyNobody, Work
  <2>3. SessionsOf({work[s].target}) \in SUBSET Session
    BY DEF SessionsOf, Clients
  <2>4. QED
    BY <1>13, <2>1, <2>2, <2>3, <1>b DEF NotifyNobody
<1>14. CASE Crash
  BY <1>14, CloseType DEF Crash
<1>15. CASE UNCHANGED vars
  BY <1>15 DEF vars, storeVars, sessionVars
<1>16. QED
  BY <1>1, <1>2, <1>3, <1>4, <1>5, <1>6, <1>7, <1>8, <1>9, <1>10, <1>11, <1>12, <1>13, <1>14,
     <1>15 DEF Next

\* Every column, handler record and client view stays within its domain.
THEOREM TypeCorrect == Spec => []TypeOK
<1>1. Init => TypeOK
  <2>1. Idle \in Work
    BY WorkUpdates
  <2>2. QED
    BY <2>1, ConstantsAssumption DEF Init, TypeOK, PC
<1>2. QED
  BY <1>1, TypeStep, PTL DEF Spec

-----------------------------------------------------------------------------
(* Confinement *)

Known(m) == m \in trusted \cup {Admin}

\* Before there is a room nobody has heard of it; its rows are those of members it trusted.
RoomKnown ==
    /\ included \subseteq trusted
    /\ room = "none" =>
          /\ trusted = {}
          /\ \A s \in Session : view[s] \notin {"seen", "joined"} /\ ~work[s].sees
    /\ room # "none" => Owner \in included

\* Where a handler is, what it relies on is so.
HandlersKnow ==
    \A s \in Session :
        /\ pc[s] = "off" => ~joined[s] /\ view[s] = "welcome" /\ ~work[s].sees
        /\ pc[s] \notin {"off", "registered", "loaded"} => view[s] # "welcome"
        /\ joined[s] \/ pc[s] \in {"listed", "announcing", "checked", "entered", "notifying"}
              => room = "listed"
        /\ pc[s] = "stored" => room # "none"
        /\ pc[s] \in {"stored", "listed", "announcing"} => who[s] = Owner
        /\ pc[s] \in {"checked", "entered"} => Known(who[s])
        /\ pc[s] = "changed" => room # "none" /\ Known(work[s].target) /\ work[s].item # "joined"
        /\ pc[s] \in {"announcing", "notifying"} =>
              /\ work[s].item # "joined"
              /\ \A r \in work[s].to : pc[r] # "off" /\ Known(who[r])

Confined == RoomKnown /\ HandlersKnow /\ JoinedHasAccess /\ NeverHeardOf

\* No step lets in, or tells of the room, a member the access list does not name.
LEMMA ConfinedStep == TypeOK /\ Confined /\ [Next]_vars => Confined'
<1> SUFFICES ASSUME TypeOK, Confined, [Next]_vars PROVE Confined'
  OBVIOUS
<1> USE ConstantsAssumption DEF Confined, RoomKnown, HandlersKnow, JoinedHasAccess, NeverHeardOf,
        Known, HasAccess, RemovalUnderWay, Clients
<1>a. /\ work \in [Session -> Work] /\ \A s \in Session : work[s] \in Work
      /\ pc \in [Session -> PC] /\ joined \in [Session -> BOOLEAN]
      /\ who \in [Session -> Member \cup {NoMember}]
      /\ view \in [Session -> {"welcome", "absent", "seen", "joined"}]
  BY DEF TypeOK
<1>1. ASSUME NEW s \in Session, NEW m \in Member, Connect(s, m) PROVE Confined'
  BY <1>1, <1>a DEF Connect, storeVars
<1>2. ASSUME NEW s \in Session, ReadRooms(s) PROVE Confined'
  BY <1>2, <1>a DEF ReadRooms, storeVars, Work
<1>3. ASSUME NEW s \in Session, Welcome(s) PROVE Confined'
  BY <1>3, <1>a DEF Welcome, storeVars, Idle, Work
<1>4. ASSUME NEW s \in Session, Disconnect(s) PROVE Confined'
  BY <1>4, <1>a DEF Disconnect, storeVars, Close, Work, Idle
<1>5. ASSUME NEW s \in Session, CreateRoom(s) PROVE Confined'
  BY <1>5, <1>a DEF CreateRoom
<1>6. ASSUME NEW s \in Session, ListRoom(s) PROVE Confined'
  BY <1>6, <1>a DEF ListRoom
<1>7. ASSUME NEW s \in Session, AnnounceRoom(s) PROVE Confined'
  <2>1. RoomKnown'
    BY <1>7, <1>a DEF AnnounceRoom, storeVars, SessionsOf, Work
  <2>2. HandlersKnow'
    BY <1>7, <1>a DEF AnnounceRoom, storeVars, SessionsOf, Work
  <2>3. JoinedHasAccess'
    BY <1>7, <1>a DEF AnnounceRoom, storeVars, SessionsOf, Work
  <2>4. NeverHeardOf'
    BY <1>7, <1>a DEF AnnounceRoom, storeVars, SessionsOf, Work
  <2>5. QED
    BY <2>1, <2>2, <2>3, <2>4
<1>8. ASSUME NEW s \in Session, NEW r \in Session, NEW fits \in BOOLEAN, SendNext(s, r, fits)
      PROVE  Confined'
  BY <1>8, <1>a, ShownType DEF SendNext, storeVars, Enqueue, Work, ItemKind
<1>9. ASSUME NEW s \in Session, FinishAnnounce(s) PROVE Confined'
  <2>1. RoomKnown'
    BY <1>9, <1>a DEF FinishAnnounce, storeVars, Idle
  <2>2. HandlersKnow'
    BY <1>9, <1>a DEF FinishAnnounce, storeVars, Idle
  <2>3. JoinedHasAccess'
    BY <1>9, <1>a DEF FinishAnnounce, storeVars, Idle
  <2>4. NeverHeardOf'
    BY <1>9, <1>a DEF FinishAnnounce, storeVars, Idle
  <2>5. QED
    BY <2>1, <2>2, <2>3, <2>4
<1>10. ASSUME NEW s \in Session, FinishNotify(s) PROVE Confined'
  <2>1. RoomKnown'
    BY <1>10, <1>a DEF FinishNotify, storeVars, Idle
  <2>2. HandlersKnow'
    BY <1>10, <1>a DEF FinishNotify, storeVars, Idle
  <2>3. JoinedHasAccess'
    BY <1>10, <1>a DEF FinishNotify, storeVars, Idle
  <2>4. NeverHeardOf'
    BY <1>10, <1>a DEF FinishNotify, storeVars, Idle
  <2>5. QED
    BY <2>1, <2>2, <2>3, <2>4
<1>11. ASSUME NEW s \in Session, CheckAccess(s) PROVE Confined'
  BY <1>11, <1>a DEF CheckAccess, storeVars
<1>12. ASSUME NEW s \in Session, JoinFails(s) PROVE Confined'
  BY <1>12, <1>a DEF JoinFails, storeVars
<1>13. ASSUME NEW s \in Session, EnterRoom(s) PROVE Confined'
  BY <1>13, <1>a DEF EnterRoom, storeVars
<1>14. ASSUME NEW s \in Session, NEW fits \in BOOLEAN, QueueRoomJoined(s, fits) PROVE Confined'
  BY <1>14, <1>a, ShownType DEF QueueRoomJoined, storeVars, Enqueue, ItemKind
<1>15. ASSUME NEW s \in Session, NEW fits \in BOOLEAN, LeaveRoom(s, fits) PROVE Confined'
  BY <1>15, <1>a, ShownType DEF LeaveRoom, storeVars, Enqueue, ItemKind
<1>16. ASSUME NEW s \in Session, NEW m \in Member, NEW include \in BOOLEAN,
             SetRoomMember(s, m, include)
      PROVE  Confined'
  <2>1. RoomKnown'
    BY <1>16, <1>a DEF SetRoomMember, Work
  <2>2. HandlersKnow'
    BY <1>16, <1>a DEF SetRoomMember, Work
  <2>3. JoinedHasAccess'
    <3>1. ASSUME NEW q, RemovalUnderWay(q) PROVE RemovalUnderWay(q)'
      BY <1>16, <1>a, <3>1 DEF SetRoomMember
    <3>2. ~include => RemovalUnderWay(m)'
      BY <1>16, <1>a DEF SetRoomMember, Work
    <3>3. \A q : (q # m \/ include) /\ HasAccess(q) => HasAccess(q)'
      BY <1>16 DEF SetRoomMember
    <3> HIDE DEF RemovalUnderWay, HasAccess
    <3>4. QED
      BY <1>16, <1>a, <3>1, <3>2, <3>3 DEF SetRoomMember
  <2>4. NeverHeardOf'
    BY <1>16, <1>a DEF SetRoomMember, Work
  <2>5. QED
    BY <2>1, <2>2, <2>3, <2>4
<1>17. ASSUME NEW s \in Session, NotifyCollect(s) PROVE Confined'
  <2>1. RoomKnown'
    BY <1>17, <1>a DEF NotifyCollect, SessionsOf, Work
  <2>2. HandlersKnow'
    BY <1>17, <1>a DEF NotifyCollect, SessionsOf, Work
  <2>3. JoinedHasAccess'
    <3> SUFFICES ASSUME NEW r \in Session, joined'[r]
                 PROVE  HasAccess(who[r])' \/ RemovalUnderWay(who[r])' \/ r \in late'
      OBVIOUS
    <3>1. /\ joined[r] /\ who' = who /\ room' = room /\ included' = included
          /\ pc[s] = "changed" /\ \A a \in Session : a # s => pc'[a] = pc[a] /\ work'[a] = work[a]
      BY <1>17, <1>a DEF NotifyCollect
    <3>2. CASE work[s].item = "left" /\ work[s].target = who[r]
      <4>1. r \notin SessionsOf({who[r]})
        BY <1>17, <1>a, <3>2 DEF NotifyCollect
      <4>2. QED
        BY <3>1, <4>1 DEF SessionsOf
    <3>3. CASE ~(work[s].item = "left" /\ work[s].target = who[r])
      <4>1. r \in late => r \in late'
        BY <1>17, <1>a, <3>3 DEF NotifyCollect, SessionsOf
      <4>2. RemovalUnderWay(who[r]) => RemovalUnderWay(who[r])'
        BY <3>1, <3>3
      <4>3. QED
        BY <3>1, <4>1, <4>2
    <3>4. QED
      BY <3>2, <3>3
  <2>4. NeverHeardOf'
    BY <1>17, <1>a DEF NotifyCollect, SessionsOf, Work
  <2>5. QED
    BY <2>1, <2>2, <2>3, <2>4
<1>18. ASSUME NEW s \in Session, NotifyNobody(s) PROVE Confined'
  BY <1>18, <1>a DEF NotifyNobody, SessionsOf, Work, Idle
<1>19. ASSUME Crash PROVE Confined'
  BY <1>19, <1>a DEF Crash, Close, Idle, Work
<1>20. ASSUME UNCHANGED vars PROVE Confined'
  BY <1>20, <1>a DEF vars, storeVars, sessionVars
<1>21. QED
  BY <1>1, <1>2, <1>3, <1>4, <1>5, <1>6, <1>7, <1>8, <1>9, <1>10, <1>11, <1>12, <1>13,
     <1>14, <1>15, <1>16, <1>17, <1>18, <1>19, <1>20
  DEF Next

(***************************************************************************)
(* Additions, removals, joins and the creation of the room interleave in   *)
(* any way: who is in the private room has access to it, is about to be    *)
(* taken out, or joined late, and no client of a member that never had     *)
(* access hears of the room.                                               *)
(***************************************************************************)
THEOREM ConfinementCorrect == Spec => []Confinement
<1>1. Init => Confined
  BY ConstantsAssumption
  DEF Init, Confined, RoomKnown, HandlersKnow, JoinedHasAccess, NeverHeardOf, Clients,
     Idle
<1>2. TypeOK /\ Confined => Confinement
  BY DEF Confined, Confinement
<1>3. QED
  BY <1>1, <1>2, ConfinedStep, TypeCorrect, PTL DEF Spec

-----------------------------------------------------------------------------
(* What the clients list *)

Staff == {Owner, Admin}

\* Changes of the list are numbered as they are committed, and no two have one number.
Numbered ==
    /\ announced <= changes
    /\ \A a \in Session : pc[a] = "changed" =>
          /\ work[a].number <= changes
          /\ work[a].number # announced
          /\ \A b \in Session \ {a} : pc[b] = "changed" => work[b].number # work[a].number

\* Messages about a change go to sessions of its member; only one handler sends them at a time.
Addressed ==
    \A a \in Session :
        /\ pc[a] = "changed" => work[a].target \notin Staff /\ work[a].item # "joined"
        /\ pc[a] = "notifying" =>
              /\ work[a].target \notin Staff /\ work[a].item # "joined"
              /\ \A r \in work[a].to : who[r] = work[a].target
              /\ \A b \in Session \ {a} : pc[b] # "notifying"
        /\ pc[a] = "announcing" =>
              /\ work[a].item = "created"
              /\ \A r \in work[a].to : who[r] \in Staff

\* The change of a that was committed last of those about its member says what the store says.
Unannounced(a) == pc[a] = "changed" /\ work[a].number > announced
Overtakes(b, a) ==
    pc[b] = "changed" /\ work[b].target = work[a].target /\ work[b].number > work[a].number
LatestIsTrue ==
    \A a \in Session : Unannounced(a) /\ (\A b \in Session : ~Overtakes(b, a)) =>
        (work[a].item = "created" <=> HasAccess(work[a].target))

\* What the client of s lists, or will list after its Welcome, is true.
Shows(s) ==
    /\ view[s] # "welcome" => (view[s] # "absent" <=> HasAccess(who[s]))
    /\ view[s] = "welcome" /\ pc[s] = "loaded" => (work[s].sees <=> HasAccess(who[s]))

Announcing(a, s) == pc[a] \in {"stored", "listed"} \/ (pc[a] = "announcing" /\ s \in work[a].to)
Changing(a, s) == pc[a] = "changed" /\ work[a].target = who[s]
Notifying(a, s) == pc[a] = "notifying" /\ s \in work[a].to

\* A list that is not true yet will be corrected by a message that is still to come.
StaffCorrected(s) == Shows(s) \/ \E a \in Session : Announcing(a, s)
GuestCorrected(s) ==
    \/ \E a \in Session : Changing(a, s)
    \/ \E a \in Session : Notifying(a, s) /\ (work[a].item = "created" <=> HasAccess(who[s]))
    \/ Shows(s) /\ \A a \in Session : ~Notifying(a, s)
CorrectedFor(s) ==
    /\ who[s] \in Member
    /\ who[s] \in Staff => StaffCorrected(s)
    /\ who[s] \notin Staff => GuestCorrected(s)
Corrected == \A s \in Clients \ astray : CorrectedFor(s)

Listing == Numbered /\ Addressed /\ LatestIsTrue /\ Corrected

\* Changes are numbered apart, and their messages go to the sessions of the changed member.
LEMMA AddressedStep ==
    TypeOK /\ Confined /\ Numbered /\ Addressed /\ [Next]_vars => Numbered' /\ Addressed'
<1> SUFFICES ASSUME TypeOK, Confined, Numbered, Addressed, [Next]_vars
             PROVE  Numbered' /\ Addressed'
  OBVIOUS
<1> USE ConstantsAssumption DEF Numbered, Addressed, Staff, Clients
<1>a. /\ work \in [Session -> Work] /\ pc \in [Session -> PC]
      /\ who \in [Session -> Member \cup {NoMember}]
      /\ changes \in Nat /\ announced \in Nat
      /\ \A s \in Session : work[s] \in Work /\ work[s].number \in Nat
  BY DEF TypeOK, Work
<1>b. \A s, r \in Session :
         pc[s] \in {"announcing", "notifying"} /\ r \in work[s].to => pc[r] # "off"
  BY DEF Confined, HandlersKnow
<1>1. ASSUME NEW s \in Session, NEW m \in Member, Connect(s, m) PROVE Numbered' /\ Addressed'
  BY <1>1, <1>a, <1>b DEF Connect, storeVars, Work
<1>2. ASSUME NEW s \in Session, ReadRooms(s) PROVE Numbered' /\ Addressed'
  BY <1>2, <1>a, <1>b DEF ReadRooms, storeVars, Work
<1>3. ASSUME NEW s \in Session, Welcome(s) PROVE Numbered' /\ Addressed'
  BY <1>3, <1>a, <1>b DEF Welcome, storeVars, Idle, Work
<1>4. ASSUME NEW s \in Session, Disconnect(s) PROVE Numbered' /\ Addressed'
  BY <1>4, <1>a, <1>b DEF Disconnect, storeVars, Close, Idle, Work
<1>5. ASSUME NEW s \in Session, CreateRoom(s) PROVE Numbered' /\ Addressed'
  BY <1>5, <1>a, <1>b DEF CreateRoom
<1>6. ASSUME NEW s \in Session, ListRoom(s) PROVE Numbered' /\ Addressed'
  BY <1>6, <1>a, <1>b DEF ListRoom
<1>7. ASSUME NEW s \in Session, AnnounceRoom(s) PROVE Numbered' /\ Addressed'
  BY <1>7, <1>a, <1>b DEF AnnounceRoom, storeVars, SessionsOf, Work
<1>8. ASSUME NEW s \in Session, NEW r \in Session, NEW fits \in BOOLEAN, SendNext(s, r, fits)
      PROVE  Numbered' /\ Addressed'
  BY <1>8, <1>a, <1>b DEF SendNext, storeVars, Work
<1>9. ASSUME NEW s \in Session, FinishAnnounce(s) PROVE Numbered' /\ Addressed'
  BY <1>9, <1>a, <1>b DEF FinishAnnounce, storeVars, Idle, Work
<1>10. ASSUME NEW s \in Session, FinishNotify(s) PROVE Numbered' /\ Addressed'
  BY <1>10, <1>a, <1>b DEF FinishNotify, storeVars, Idle, Work
<1>11. ASSUME NEW s \in Session, CheckAccess(s) \/ JoinFails(s) \/ EnterRoom(s)
      PROVE  Numbered' /\ Addressed'
  BY <1>11, <1>a, <1>b DEF CheckAccess, JoinFails, EnterRoom, storeVars
<1>12. ASSUME NEW s \in Session, NEW fits \in BOOLEAN, QueueRoomJoined(s, fits)
      PROVE  Numbered' /\ Addressed'
  BY <1>12, <1>a, <1>b DEF QueueRoomJoined, storeVars
<1>13. ASSUME NEW s \in Session, NEW fits \in BOOLEAN, LeaveRoom(s, fits)
       PROVE  Numbered' /\ Addressed'
  BY <1>13, <1>a, <1>b DEF LeaveRoom, storeVars
<1>14. ASSUME NEW s \in Session, NEW m \in Member, NEW include \in BOOLEAN,
             SetRoomMember(s, m, include)
      PROVE  Numbered' /\ Addressed'
  BY <1>14, <1>a, <1>b DEF SetRoomMember, Work
<1>15. ASSUME NEW s \in Session, NotifyCollect(s) PROVE Numbered' /\ Addressed'
  BY <1>15, <1>a, <1>b DEF NotifyCollect, SessionsOf, RoomsLocked, Work
<1>16. ASSUME NEW s \in Session, NotifyNobody(s) PROVE Numbered' /\ Addressed'
  BY <1>16, <1>a, <1>b DEF NotifyNobody, SessionsOf, Work, Idle
<1>17. ASSUME Crash PROVE Numbered' /\ Addressed'
  BY <1>17, <1>a, <1>b DEF Crash, Close, Idle, Work
<1>18. ASSUME UNCHANGED vars PROVE Numbered' /\ Addressed'
  BY <1>18, <1>a, <1>b DEF vars, storeVars, sessionVars
<1>19. QED
  BY <1>1, <1>2, <1>3, <1>4, <1>5, <1>6, <1>7, <1>8, <1>9, <1>10, <1>11, <1>12, <1>13,
     <1>14, <1>15, <1>16, <1>17, <1>18
  DEF Next

\* The latest change of a member that is not announced yet says what the store says.
LEMMA LatestStep ==
    TypeOK /\ Confined /\ Numbered /\ Addressed /\ LatestIsTrue /\ [Next]_vars => LatestIsTrue'
<1> SUFFICES ASSUME TypeOK, Confined, Numbered, Addressed, LatestIsTrue, [Next]_vars
             PROVE  LatestIsTrue'
  OBVIOUS
<1> USE ConstantsAssumption DEF LatestIsTrue, Unannounced, Overtakes, HasAccess
<1>a. /\ work \in [Session -> Work] /\ pc \in [Session -> PC]
      /\ changes \in Nat /\ announced \in Nat
      /\ \A s \in Session : work[s] \in Work /\ work[s].number \in Nat
  BY DEF TypeOK, Work
<1>b. \A s \in Session : pc[s] = "changed" =>
         /\ room # "none" /\ work[s].number <= changes /\ work[s].target \notin {Owner, Admin}
         /\ \A b \in Session \ {s} : pc[b] = "changed" => work[b].number # work[s].number
  BY DEF Confined, HandlersKnow, Numbered, Addressed, Staff
<1>1. ASSUME NEW s \in Session, NEW m \in Member, Connect(s, m) PROVE LatestIsTrue'
  BY <1>1, <1>a, <1>b DEF Connect, storeVars, Work
<1>2. ASSUME NEW s \in Session, ReadRooms(s) PROVE LatestIsTrue'
  BY <1>2, <1>a, <1>b DEF ReadRooms, storeVars, Work
<1>3. ASSUME NEW s \in Session, Welcome(s) PROVE LatestIsTrue'
  BY <1>3, <1>a, <1>b DEF Welcome, storeVars, Idle, Work
<1>4. ASSUME NEW s \in Session, Disconnect(s) PROVE LatestIsTrue'
  <2>1. \A a \in Session : pc'[a] = "changed" =>
           /\ pc[a] = "changed" /\ work'[a].number = work[a].number
           /\ work'[a].target = work[a].target /\ work'[a].item = work[a].item
    BY <1>4, <1>a DEF Disconnect, Close, Work
  <2>2. \A a \in Session : pc[a] = "changed" => pc'[a] = "changed"
    BY <1>4, <1>a DEF Disconnect, Close
  <2>3. UNCHANGED storeVars
    BY <1>4 DEF Disconnect
  <2>4. QED
    BY <2>1, <2>2, <2>3 DEF storeVars
<1>5. ASSUME NEW s \in Session, CreateRoom(s) PROVE LatestIsTrue'
  BY <1>5, <1>a, <1>b DEF CreateRoom
<1>6. ASSUME NEW s \in Session, ListRoom(s) PROVE LatestIsTrue'
  BY <1>6, <1>a, <1>b DEF ListRoom
<1>7. ASSUME NEW s \in Session, AnnounceRoom(s) PROVE LatestIsTrue'
  BY <1>7, <1>a, <1>b DEF AnnounceRoom, storeVars, SessionsOf, Work
<1>8. ASSUME NEW s \in Session, NEW r \in Session, NEW fits \in BOOLEAN, SendNext(s, r, fits)
      PROVE  LatestIsTrue'
  BY <1>8, <1>a, <1>b DEF SendNext, storeVars, Work
<1>9. ASSUME NEW s \in Session, FinishAnnounce(s) PROVE LatestIsTrue'
  BY <1>9, <1>a, <1>b DEF FinishAnnounce, storeVars, Idle, Work
<1>10. ASSUME NEW s \in Session, FinishNotify(s) PROVE LatestIsTrue'
  BY <1>10, <1>a, <1>b DEF FinishNotify, storeVars, Idle, Work
<1>11. ASSUME NEW s \in Session, CheckAccess(s) \/ JoinFails(s) \/ EnterRoom(s)
      PROVE  LatestIsTrue'
  BY <1>11, <1>a, <1>b DEF CheckAccess, JoinFails, EnterRoom, storeVars
<1>12. ASSUME NEW s \in Session, NEW fits \in BOOLEAN, QueueRoomJoined(s, fits)
      PROVE  LatestIsTrue'
  BY <1>12, <1>a, <1>b DEF QueueRoomJoined, storeVars
<1>13. ASSUME NEW s \in Session, NEW fits \in BOOLEAN, LeaveRoom(s, fits) PROVE LatestIsTrue'
  BY <1>13, <1>a, <1>b DEF LeaveRoom, storeVars
<1>14. ASSUME NEW s \in Session, NEW m \in Member, NEW include \in BOOLEAN,
             SetRoomMember(s, m, include)
      PROVE  LatestIsTrue'
  <2>1. /\ pc'[s] = "changed" /\ work'[s].target = m /\ work'[s].number = changes + 1
        /\ work'[s].item = "created" <=> include
        /\ \A a \in Session : a # s => work'[a] = work[a] /\ pc'[a] = pc[a]
        /\ announced' = announced
    BY <1>14, <1>a DEF SetRoomMember, Work
  <2>2. /\ m \in included' <=> include
        /\ room # "none" => room' # "none" /\ m # Admin
        /\ \A q : q # m => (HasAccess(q)' <=> HasAccess(q))
    BY <1>14 DEF SetRoomMember
  <2> SUFFICES ASSUME NEW a \in Session, Unannounced(a)', \A b \in Session : ~Overtakes(b, a)'
               PROVE  (work[a].item = "created" <=> HasAccess(work[a].target))'
    OBVIOUS
  <2>3. CASE a = s
    <3>1. room' # "none" /\ m # Admin
      <4>1. view[s] # "welcome" /\ view[s] \in {"welcome", "absent", "seen", "joined"}
        BY <1>14 DEF SetRoomMember, Confined, HandlersKnow, TypeOK
      <4>2. room # "none"
        BY <1>14, <4>1 DEF SetRoomMember, Confined, RoomKnown
      <4>3. QED
        BY <1>14, <4>2 DEF SetRoomMember
    <3>2. QED
      BY <2>1, <2>2, <2>3, <3>1
  <2>4. CASE a # s
    <3>1. pc[a] = "changed" /\ work'[a] = work[a] /\ work[a].number < changes + 1
      BY <1>a, <1>b, <2>1, <2>4
    <3>2. work[a].target # m
      BY <2>1, <2>4, <3>1
    <3>3. \A b \in Session : ~Overtakes(b, a)
      <4> SUFFICES ASSUME NEW b \in Session, Overtakes(b, a) PROVE FALSE
        OBVIOUS
      <4>1. b # s
        BY <1>14 DEF SetRoomMember
      <4>2. QED
        BY <2>1, <3>1, <4>1
    <3>4. QED
      BY <2>1, <2>2, <3>1, <3>2, <3>3
  <2>5. QED
    BY <2>3, <2>4
<1>15. ASSUME NEW s \in Session, NotifyCollect(s) PROVE LatestIsTrue'
  <2>1. /\ pc[s] = "changed" /\ pc'[s] = "notifying" /\ room' = room /\ included' = included
        /\ announced' \in Nat /\ announced <= announced' /\ work[s].number <= announced'
        /\ \A a \in Session : a # s => work'[a] = work[a] /\ pc'[a] = pc[a]
    BY <1>15, <1>a DEF NotifyCollect
  <2> SUFFICES ASSUME NEW a \in Session, Unannounced(a)', \A b \in Session : ~Overtakes(b, a)'
               PROVE  (work[a].item = "created" <=> HasAccess(work[a].target))'
    OBVIOUS
  <2>2. a # s /\ work'[a] = work[a] /\ Unannounced(a) /\ work[s].number < work[a].number
    BY <1>a, <2>1
  <2>3. \A b \in Session : ~Overtakes(b, a)
    BY <1>a, <2>1, <2>2
  <2>4. QED
    BY <2>1, <2>2, <2>3
<1>16. ASSUME NEW s \in Session, NotifyNobody(s) PROVE LatestIsTrue'
  BY <1>16, <1>a, <1>b DEF NotifyNobody, SessionsOf, Work, Idle
<1>17. ASSUME Crash PROVE LatestIsTrue'
  BY <1>17, <1>a, <1>b DEF Crash, Close, Idle, Work
<1>18. ASSUME UNCHANGED vars PROVE LatestIsTrue'
  BY <1>18, <1>a, <1>b DEF vars, storeVars, sessionVars
<1>19. QED
  BY <1>1, <1>2, <1>3, <1>4, <1>5, <1>6, <1>7, <1>8, <1>9, <1>10, <1>11, <1>12, <1>13,
     <1>14, <1>15, <1>16, <1>17, <1>18
  DEF Next

\* A session whose list stays as true as it was, with what is on its way to it, stays corrected.
LEMMA StaysCorrected ==
    ASSUME NEW r \in Session, CorrectedFor(r), who'[r] = who[r],
           Shows(r) => Shows(r)',
           HasAccess(who[r])' <=> HasAccess(who[r]),
           \A a \in Session :
              /\ Announcing(a, r) => Announcing(a, r)'
              /\ Changing(a, r) => Changing(a, r)'
              /\ Notifying(a, r)' <=> Notifying(a, r)
              /\ Notifying(a, r) => work'[a].item = work[a].item
    PROVE  CorrectedFor(r)'
<1>1. StaffCorrected(r) => StaffCorrected(r)'
  BY DEF StaffCorrected
<1>2. GuestCorrected(r) => GuestCorrected(r)'
  BY DEF GuestCorrected, HasAccess
<1>3. QED
  BY <1>1, <1>2 DEF CorrectedFor, Staff

\* So does a session whose list a step does not touch.
LEMMA Undisturbed ==
    ASSUME NEW r \in Session, CorrectedFor(r), who'[r] = who[r], view'[r] = view[r],
           pc'[r] = "loaded" => pc[r] = "loaded" /\ work'[r].sees = work[r].sees,
           HasAccess(who[r])' <=> HasAccess(who[r]),
           \A a \in Session :
              /\ Announcing(a, r) => Announcing(a, r)'
              /\ Changing(a, r) => Changing(a, r)'
              /\ Notifying(a, r)' <=> Notifying(a, r)
              /\ Notifying(a, r) => work'[a].item = work[a].item
    PROVE  CorrectedFor(r)'
<1>1. Shows(r) => Shows(r)'
  BY DEF Shows, HasAccess
<1>2. QED
  BY <1>1, StaysCorrected

\* Every step that makes a list untrue leaves a message on its way that corrects it.
LEMMA CorrectedStep ==
    TypeOK /\ Confined /\ Listing /\ [Next]_vars => Corrected'
<1> SUFFICES ASSUME TypeOK, Confined, Listing, [Next]_vars,
                    NEW r \in Session, r \in Clients', r \notin astray'
             PROVE  CorrectedFor(r)'
  BY DEF Corrected, Clients
<1> USE ConstantsAssumption DEF Announcing, Changing, Notifying
<1>a. /\ work \in [Session -> Work] /\ \A s \in Session : work[s] \in Work
      /\ pc \in [Session -> PC] /\ astray \subseteq Session
      /\ who \in [Session -> Member \cup {NoMember}]
      /\ view \in [Session -> {"welcome", "absent", "seen", "joined"}]
      /\ announced \in Nat /\ \A s \in Session : work[s].number \in Nat
  BY DEF TypeOK, Work
<1>b. pc'[r] # "off" /\ (r \notin astray /\ pc[r] # "off" => CorrectedFor(r))
  BY DEF Listing, Corrected, Clients
<1>1. ASSUME NEW s \in Session, NEW m \in Member, Connect(s, m)
      PROVE  CorrectedFor(r)'
  <2>1. CASE r # s
    BY <1>1, <1>a, <1>b, <2>1, Undisturbed DEF Connect, storeVars, HasAccess
  <2>2. CASE r = s
    BY <1>1, <1>a, <1>b, <2>2
    DEF Connect, storeVars, HasAccess, CorrectedFor, Shows, StaffCorrected, GuestCorrected,
        HasAccess, Staff, Confined, HandlersKnow
  <2>3. QED
    BY <2>1, <2>2
<1>2. ASSUME NEW s \in Session, ReadRooms(s) PROVE CorrectedFor(r)'
  <2>1. CASE r # s
    BY <1>2, <1>a, <1>b, <2>1, Undisturbed DEF ReadRooms, storeVars, HasAccess
  <2>2. CASE r = s
    <3>1. Shows(r) => Shows(r)'
      BY <1>2, <1>a, <2>2 DEF ReadRooms, storeVars, HasAccess, Shows, Work
    <3>2. QED
      BY <1>2, <1>a, <1>b, <2>2, <3>1, StaysCorrected DEF ReadRooms, storeVars, HasAccess
  <2>3. QED
    BY <2>1, <2>2
<1>3. ASSUME NEW s \in Session, Welcome(s) PROVE CorrectedFor(r)'
  <2>1. CASE r # s
    BY <1>3, <1>a, <1>b, <2>1, Undisturbed DEF Welcome, storeVars, HasAccess, Idle
  <2>2. CASE r = s
    BY <1>3, <1>a, <1>b, <2>2
    DEF Welcome, storeVars, HasAccess, Idle, CorrectedFor, Shows, StaffCorrected,
        GuestCorrected, HasAccess, Staff
  <2>3. QED
    BY <2>1, <2>2
<1>4. ASSUME NEW s \in Session, Disconnect(s) PROVE CorrectedFor(r)'
  BY <1>4, <1>a, <1>b, Undisturbed DEF Disconnect, storeVars, Close, HasAccess, Idle
<1>5. ASSUME NEW s \in Session, CreateRoom(s) PROVE CorrectedFor(r)'
  <2>1. /\ room = "none" /\ room' = "stored" /\ included' = {Owner} /\ who' = who /\ view' = view
        /\ work' = work /\ pc[s] = "online" /\ pc'[s] = "stored" /\ CorrectedFor(r)
        /\ \A a \in Session : a # s => pc'[a] = pc[a]
    BY <1>5, <1>a, <1>b DEF CreateRoom
  <2>2. CASE who[r] \in Staff
    BY <2>1, <2>2 DEF CorrectedFor, StaffCorrected
  <2>3. CASE who[r] \notin Staff
    <3>1. HasAccess(who[r])' <=> HasAccess(who[r])
      BY <2>1, <2>3 DEF HasAccess, Staff
    <3>2. QED
      BY <2>1, <3>1, Undisturbed
  <2>4. QED
    BY <2>2, <2>3
<1>6. ASSUME NEW s \in Session, ListRoom(s) PROVE CorrectedFor(r)'
  <2>1. room # "none" /\ room' # "none"
    BY <1>6 DEF ListRoom, Confined, HandlersKnow
  <2>2. QED
    BY <1>6, <1>a, <1>b, <2>1, Undisturbed DEF ListRoom, HasAccess
<1>7. ASSUME NEW s \in Session, AnnounceRoom(s) PROVE CorrectedFor(r)'
  <2>1. CASE who[r] \in Staff
    BY <1>7, <1>a, <1>b, <2>1
    DEF AnnounceRoom, storeVars, SessionsOf, Clients, CorrectedFor, StaffCorrected, Staff
  <2>2. CASE who[r] \notin Staff
    <3>1. \A a \in Session : a # s => work'[a] = work[a] /\ pc'[a] = pc[a]
      BY <1>7, <1>a DEF AnnounceRoom
    <3>2. /\ pc[s] = "listed" /\ pc'[s] = "announcing" /\ view' = view /\ who' = who
          /\ room' = room /\ included' = included
      BY <1>7, <1>a DEF AnnounceRoom, storeVars
    <3>3. CorrectedFor(r)
      BY <1>7, <1>a, <1>b DEF AnnounceRoom
    <3>4. GuestCorrected(r)'
      BY <2>2, <3>1, <3>2, <3>3 DEF CorrectedFor, GuestCorrected, Shows, HasAccess
    <3>5. QED
      BY <2>2, <3>2, <3>3, <3>4 DEF CorrectedFor, Staff
  <2>3. QED
    BY <2>1, <2>2
<1>8. ASSUME NEW s \in Session, NEW t \in Session, NEW fits \in BOOLEAN, SendNext(s, t, fits)
      PROVE  CorrectedFor(r)'
  <2>1. CASE r # t
    BY <1>8, <1>a, <1>b, <2>1, Undisturbed DEF SendNext, storeVars, HasAccess, Enqueue, Work
  <2>2. CASE r = t
    <3>1. fits /\ CorrectedFor(r) /\ r \in work[s].to /\ pc[s] \in {"announcing", "notifying"}
      BY <1>8, <1>a, <1>b, <2>2 DEF SendNext, storeVars
    <3>2. /\ view'[r] = Shown(view[r], work[s].item) /\ work[s].item \in {"created", "left"}
          /\ room' = room /\ included' = included /\ who' = who /\ pc' = pc
          /\ \A a \in Session : work'[a].item = work[a].item /\ work'[a].target = work[a].target
          /\ \A a \in Session \ {s} : work'[a] = work[a]
          /\ r \notin work'[s].to
      BY <1>8, <1>a, <2>2, <3>1
      DEF SendNext, storeVars, Enqueue, Work, ItemKind, Listing, Addressed
    <3>3. view'[r] # "welcome" /\ (view'[r] # "absent" <=> work[s].item = "created")
      BY <3>2, ShownType DEF ItemKind
    <3>4. CASE pc[s] = "announcing"
      <4>1. who[r] \in Staff /\ work[s].item = "created" /\ room = "listed"
        BY <3>1, <3>4 DEF Listing, Addressed, Confined, HandlersKnow
      <4>2. HasAccess(who[r])
        BY <4>1 DEF HasAccess, Staff, Confined, RoomKnown
      <4>3. QED
        BY <3>1, <3>2, <3>3, <4>1, <4>2
        DEF CorrectedFor, StaffCorrected, Shows, HasAccess, Staff
    <3>5. CASE pc[s] = "notifying"
      <4>1. /\ who[r] \notin Staff
            /\ \A b \in Session \ {s} : pc[b] # "notifying"
        BY <3>1, <3>5 DEF Listing, Addressed
      <4>2. \/ \E a \in Session : Changing(a, r)
            \/ work[s].item = "created" <=> HasAccess(who[r])
        BY <3>1, <3>5, <4>1 DEF CorrectedFor, GuestCorrected
      <4>3. GuestCorrected(r)'
        BY <3>2, <3>3, <4>1, <4>2 DEF GuestCorrected, Shows, HasAccess
      <4>4. QED
        BY <3>1, <3>2, <4>1, <4>3 DEF CorrectedFor, Staff
    <3>6. QED
      BY <3>1, <3>4, <3>5
  <2>3. QED
    BY <2>1, <2>2
<1>9. ASSUME NEW s \in Session, FinishAnnounce(s) PROVE CorrectedFor(r)'
  BY <1>9, <1>a, <1>b, Undisturbed DEF FinishAnnounce, storeVars, HasAccess, Idle
<1>10. ASSUME NEW s \in Session, FinishNotify(s) PROVE CorrectedFor(r)'
  BY <1>10, <1>a, <1>b, Undisturbed DEF FinishNotify, storeVars, HasAccess, Idle
<1>11. ASSUME NEW s \in Session, CheckAccess(s) \/ JoinFails(s) \/ EnterRoom(s)
      PROVE  CorrectedFor(r)'
  BY <1>11, <1>a, <1>b, Undisturbed DEF CheckAccess, JoinFails, EnterRoom, storeVars, HasAccess
<1>12. ASSUME NEW s \in Session, NEW fits \in BOOLEAN, QueueRoomJoined(s, fits)
      PROVE  CorrectedFor(r)'
  <2>1. CASE r # s
    BY <1>12, <1>a, <1>b, <2>1, Undisturbed DEF QueueRoomJoined, storeVars, HasAccess, Enqueue
  <2>2. CASE r = s
    BY <1>12, <1>a, <1>b, <2>2, ShownType
    DEF QueueRoomJoined, storeVars, Enqueue, ItemKind, CorrectedFor, Shows, StaffCorrected,
        GuestCorrected, HasAccess, Staff
  <2>3. QED
    BY <2>1, <2>2
<1>13. ASSUME NEW s \in Session, NEW fits \in BOOLEAN, LeaveRoom(s, fits)
      PROVE  CorrectedFor(r)'
  BY <1>13, <1>a, <1>b, Undisturbed DEF LeaveRoom, storeVars, HasAccess, Enqueue
<1>14. ASSUME NEW s \in Session, NEW m \in Member, NEW include \in BOOLEAN,
             SetRoomMember(s, m, include)
      PROVE  CorrectedFor(r)'
  <2>1. CorrectedFor(r) /\ m \notin Staff /\ who' = who /\ view' = view /\ room' = room
    BY <1>14, <1>a, <1>b DEF SetRoomMember, Staff
  <2>2. \A q : q # m => (HasAccess(q)' <=> HasAccess(q))
    BY <1>14 DEF SetRoomMember, HasAccess
  <2>3. /\ pc[s] = "online" /\ pc'[s] = "changed" /\ work'[s].target = m
        /\ \A a \in Session : a # s => work'[a] = work[a] /\ pc'[a] = pc[a]
    BY <1>14, <1>a DEF SetRoomMember, Work
  <2>4. CASE who[r] = m
    BY <2>1, <2>3, <2>4 DEF CorrectedFor, GuestCorrected, Staff
  <2>5. CASE who[r] # m
    BY <2>1, <2>2, <2>3, <2>5, Undisturbed
  <2>6. QED
    BY <2>4, <2>5
<1>15. ASSUME NEW s \in Session, NotifyCollect(s) PROVE CorrectedFor(r)'
  <2> DEFINE sessions == SessionsOf({work[s].target})
  <2>1. /\ CorrectedFor(r) /\ pc[r] # "off" /\ pc[s] = "changed" /\ pc'[s] = "notifying"
        /\ who' = who /\ view' = view /\ room' = room /\ included' = included
        /\ \A a \in Session : a # s => work'[a] = work[a] /\ pc'[a] = pc[a]
        /\ \A a \in Session : pc[a] # "notifying"
        /\ work'[s].to = sessions /\ work'[s].item = work[s].item
        /\ work'[s].target = work[s].target
    <3>1. work' = [work EXCEPT ![s].to = sessions] /\ sessions \subseteq Session
      BY <1>15 DEF NotifyCollect, SessionsOf, Clients
    <3>2. pc[r] # "off" /\ r \notin astray
      BY <1>15, <1>a, <1>b DEF NotifyCollect, SessionsOf, Clients
    <3>3. CorrectedFor(r)
      BY <1>b, <3>2
    <3> HIDE DEF sessions
    <3>4. QED
      BY <1>15, <1>a, <1>b, <3>1, <3>2, <3>3 DEF NotifyCollect, RoomsLocked, Work
  <2>2. CASE who[r] = work[s].target
    <3>1. r \in sessions
      BY <2>1, <2>2 DEF SessionsOf, Clients
    <3>2. Unannounced(s) /\ who[r] \notin Staff
      <4>1. ~(work[s].number < announced)
        BY <1>15, <3>1 DEF NotifyCollect
      <4>2. work[s].number # announced /\ work[s].target \notin Staff
        BY <2>1 DEF Listing, Numbered, Addressed
      <4>3. QED
        BY <1>a, <2>1, <2>2, <4>1, <4>2 DEF Unannounced
    <3>3. \/ \E a \in Session \ {s} : Changing(a, r)
          \/ work[s].item = "created" <=> HasAccess(work[s].target)
      BY <1>a, <2>2, <3>2 DEF Listing, LatestIsTrue, Overtakes
    <3>4. GuestCorrected(r)'
      BY <2>1, <2>2, <3>1, <3>3 DEF GuestCorrected, HasAccess
    <3>5. QED
      BY <2>1, <3>2, <3>4 DEF CorrectedFor, Staff
  <2>3. CASE who[r] # work[s].target
    <3>1. r \notin sessions
      BY <2>3 DEF SessionsOf
    <3> HIDE DEF sessions
    <3>2. HasAccess(who[r])' <=> HasAccess(who[r])
      BY <2>1 DEF HasAccess
    <3>3. QED
      BY <2>1, <2>3, <3>1, <3>2, Undisturbed
  <2>4. QED
    BY <2>2, <2>3
<1>16. ASSUME NEW s \in Session, NotifyNobody(s) PROVE CorrectedFor(r)'
  <2>1. who[r] # work[s].target
    BY <1>16, <1>a, <1>b DEF NotifyNobody, SessionsOf, Clients
  <2>2. CorrectedFor(r)
    BY <1>16, <1>a, <1>b DEF NotifyNobody
  <2>3. QED
    BY <1>16, <1>a, <2>1, <2>2, Undisturbed DEF NotifyNobody, HasAccess, Idle
<1>17. ASSUME Crash PROVE CorrectedFor(r)'
  BY <1>17, <1>a, <1>b DEF Crash, Close
<1>18. ASSUME UNCHANGED vars PROVE CorrectedFor(r)'
  BY <1>18, <1>a, <1>b, Undisturbed DEF vars, storeVars, sessionVars, HasAccess
<1>19. QED
  BY <1>1, <1>2, <1>3, <1>4, <1>5, <1>6, <1>7, <1>8, <1>9, <1>10, <1>11, <1>12, <1>13,
     <1>14, <1>15, <1>16, <1>17, <1>18
  DEF Next

(***************************************************************************)
(* Once no message about the room is under way to a client, the client     *)
(* lists it if and only if its member may join it, in every interleaving   *)
(* of the handlers, but for the sessions that astray names.                *)
(***************************************************************************)
THEOREM ListAgreesCorrect == Spec => []ListAgrees
<1>1. Init => Listing
  BY ConstantsAssumption
  DEF Init, Listing, Numbered, Addressed, LatestIsTrue, Unannounced, Corrected, Clients
<1>2. TypeOK /\ Confined /\ Listing /\ [Next]_vars => Listing'
  BY AddressedStep, LatestStep, CorrectedStep DEF Listing
<1>3. Confined /\ Listing => ListAgrees
  <2> SUFFICES ASSUME Confined, Listing, NEW s \in Session, ~Awaiting(s), s \notin astray
               PROVE  view[s] # "absent" <=> HasAccess(who[s])
    BY DEF ListAgrees
  <2>1. pc[s] = "online" /\ view[s] # "welcome"
    BY DEF Awaiting, Confined, HandlersKnow
  <2>2. CorrectedFor(s)
    BY <2>1 DEF Listing, Corrected, Clients
  <2>3. \A a \in Session : ~Announcing(a, s) /\ ~Changing(a, s) /\ ~Notifying(a, s)
    BY DEF Awaiting, Announcing, Changing, Notifying
  <2>4. Shows(s)
    BY <2>2, <2>3 DEF CorrectedFor, StaffCorrected, GuestCorrected
  <2>5. QED
    BY <2>1, <2>4 DEF Shows
<1>4. Init => Confined
  BY ConstantsAssumption
  DEF Init, Confined, RoomKnown, HandlersKnow, JoinedHasAccess, NeverHeardOf, Clients,
     Idle
<1>5. QED
  BY <1>1, <1>2, <1>3, <1>4, ConfinedStep, TypeCorrect, PTL DEF Spec
=============================================================================
