---------------------------- MODULE TerminalProofs ----------------------------
(***************************************************************************)
(* Two screens of the terminal.                                            *)
(*                                                                         *)
(* First the lobby: that its cursor stays in the list, and that what       *)
(* leaves it is for what was shown, for every set of gateways and groups.  *)
(*                                                                         *)
(* Then a room: that its window is one piece of the room, in order, and    *)
(* that it ends at the start of the room where nothing older is offered,   *)
(* for every length of the room, of the window, of a page and of the       *)
(* queues.                                                                 *)
(***************************************************************************)
EXTENDS Lobby, HistoryPaging, FiniteSetTheorems, SequenceTheorems, TLAPS

-----------------------------------------------------------------------------
(* The lobby: the inductive invariant *)

\* What an open dialog keeps is a place of the list as it was shown, until a search
\* says otherwise.
Kept ==
    Dialog =>
        /\ target \in Group
        /\ ~replaced => At(groups, mode.index) = target
        /\ ~shrunk => mode.index < Len(groups)

\* Only a token that is saved is asked about.
AskedAbout == mode.kind = "ConfirmForget" /\ ~replaced => target \in saved

LobbyInv ==
    /\ CursorInList /\ ActsOnShown
    /\ screen = "lobby" => action = NoAction
    /\ Kept /\ AskedAbout

-----------------------------------------------------------------------------
(* The lobby: places and lists *)

LEMMA Listed ==
    ASSUME NEW S \in SUBSET Group, NEW list \in Listings(S)
    PROVE  list \in Seq(Group) /\ Len(list) \in Nat
<1>1. Cardinality(S) \in Nat
  BY LobbyAssumption, FS_Subset, FS_CardinalityType
<1>2. list \in [1..Cardinality(S) -> S]
  BY DEF Listings
<1>3. QED
  BY <1>1, <1>2

\* The place under the cursor is one of the list where there is one.
LEMMA UnderCursor ==
    ASSUME CursorInList, groups # <<>>
    PROVE  /\ selected < Len(groups)
           /\ groups[selected + 1] \in Group
           /\ At(groups, selected) = groups[selected + 1]
<1>1. groups \in Seq(Group) /\ Len(groups) \in Nat \ {0} /\ selected \in Nat /\ selected <= Len(groups) - 1
  BY DEF CursorInList, LobbyTypeOK, Last0
<1>2. selected < Len(groups) /\ selected + 1 \in 1..Len(groups)
  BY <1>1
<1>3. QED
  BY <1>1, <1>2 DEF At

LEMMA Places ==
    ASSUME NEW list \in Seq(Group), NEW place \in Nat
    PROVE  /\ At(list, place) \in Group \cup {NoGroup}
           /\ At(list, place) # NoGroup <=> place < Len(list)
           /\ Len(list) \in Nat /\ NoGroup \notin Group
<1>1. NoGroup \notin Group /\ Len(list) \in Nat
  BY LobbyAssumption DEF NoGroup
<1>2. CASE place < Len(list)
  <2>1. place + 1 \in 1..Len(list)
    BY <1>1, <1>2
  <2>2. list[place + 1] \in Group
    BY <2>1
  <2>3. QED
    BY <1>1, <1>2, <2>2 DEF At
<1>3. CASE ~(place < Len(list))
  BY <1>1, <1>3 DEF At
<1>4. QED
  BY <1>2, <1>3

\* Which modes there are, and which of them keep a place
LEMMA ModeFacts ==
    /\ Browse \in Modes /\ Browse.kind = "Browse"
    /\ \A place \in Nat, valid \in BOOLEAN :
          /\ [kind |-> "InviteToken", index |-> place, valid |-> valid] \in Modes
          /\ [kind |-> "ConfirmForget", index |-> place] \in Modes
    /\ \A kind \in Kinds, valid \in BOOLEAN : [kind |-> kind, valid |-> valid] \in Modes
    /\ \A g \in Gateway : [kind |-> "ChooseAccess", gateway |-> g] \in Modes
    /\ \A m \in Modes : m.kind \in {"InviteToken", "ConfirmForget"} => m.index \in Nat
    /\ \A m \in Modes : m.kind = "ChooseAccess" => m.gateway \in Gateway
  BY DEF Modes, Browse, Kinds

\* Typing changes only whether Enter accepts what is there.
LEMMA Typed ==
    ASSUME NEW m \in Modes, m.kind \in Kinds \cup {"InviteToken"}, NEW valid \in BOOLEAN
    PROVE  LET n == [m EXCEPT !.valid = valid]
           IN  n \in Modes /\ n.kind = m.kind /\ (m.kind = "InviteToken" => n.index = m.index)
<1>1. CASE m.kind \in Kinds
  <2>1. m \in [kind : Kinds, valid : BOOLEAN]
    BY <1>1 DEF Modes, Kinds
  <2>2. QED
    BY <1>1, <2>1 DEF Modes, Kinds
<1>2. CASE m.kind = "InviteToken"
  <2>1. m \in [kind : {"InviteToken"}, index : Nat, valid : BOOLEAN]
    BY <1>2 DEF Modes, Kinds
  <2>2. QED
    BY <1>2, <2>1 DEF Modes, Kinds
<1>3. QED
  BY <1>1, <1>2

-----------------------------------------------------------------------------
(* Every step *)

\* Whatever goes on beside the lobby
Beyond == UNCHANGED <<saved, screen, action, gateways, groups, selected, mode, refreshing, history>>

LEMMA BeyondKeeps ==
    ASSUME LobbyInv, Beyond, made' \subseteq Group, quiet' \in BOOLEAN, search' \in Searches
    PROVE  LobbyInv'
  BY DEF LobbyInv, Beyond, CursorInList, LobbyTypeOK, Last0, ActsOnShown, Kept, AskedAbout, Dialog, history

\* A dialog is opened, or closed.
LEMMA Opens ==
    ASSUME LobbyInv, screen = "lobby", NEW m \in Modes, Open(m),
           m.kind \in {"InviteToken", "ConfirmForget"} =>
               groups # <<>> /\ m.index = selected /\ "index" \in DOMAIN m,
           m.kind = "ConfirmForget" => groups[selected + 1] \in saved
    PROVE  LobbyInv'
<1>1. LobbyTypeOK /\ CursorInList /\ action = NoAction
  BY DEF LobbyInv, CursorInList
<1>2. /\ mode' = m /\ replaced' = FALSE /\ shrunk' = FALSE
      /\ UNCHANGED <<made, quiet, saved, screen, action, gateways, groups, refreshing, search, selected>>
  BY DEF Open, Stay
<1>3. CASE m.kind \in {"InviteToken", "ConfirmForget"}
  <2>1. target' = groups[selected + 1] /\ target' \in Group /\ selected < Len(groups)
        /\ At(groups, selected) = groups[selected + 1]
    BY <1>1, <1>3, UnderCursor DEF Open
  <2>2. LobbyTypeOK'
    BY <1>1, <1>2, <2>1 DEF LobbyTypeOK
  <2>3. Kept' /\ AskedAbout'
    BY <1>2, <1>3, <2>1 DEF Kept, AskedAbout, Dialog
  <2>4. QED
    BY <1>1, <1>2, <2>2, <2>3 DEF LobbyInv, CursorInList, Last0, ActsOnShown, NoAction
<1>4. CASE m.kind \notin {"InviteToken", "ConfirmForget"}
  <2>1. target' \in Group \cup {NoGroup}
    <3>1. CASE "index" \in DOMAIN m
      <4>1. FALSE
        BY <1>4, <3>1 DEF Modes, Kinds
      <4>2. QED
        BY <4>1
    <3>2. CASE "index" \notin DOMAIN m
      BY <3>2 DEF Open
    <3>3. QED
      BY <3>1, <3>2
  <2>2. LobbyTypeOK'
    BY <1>1, <1>2, <2>1 DEF LobbyTypeOK
  <2>3. QED
    BY <1>1, <1>2, <1>4, <2>2 DEF LobbyInv, CursorInList, Last0, ActsOnShown, NoAction, Kept, AskedAbout, Dialog
<1>5. QED
  BY <1>3, <1>4

\* The cursor moves, or a text is typed.
LEMMA Moves ==
    ASSUME LobbyInv, screen = "lobby", Stay, UNCHANGED history,
           selected' \in Nat, selected' <= Last0, mode' \in Modes,
           mode'.kind = mode.kind, Dialog => mode'.index = mode.index
    PROVE  LobbyInv'
  BY DEF LobbyInv, Stay, history, CursorInList, LobbyTypeOK, Last0, ActsOnShown, Kept, AskedAbout, Dialog

\* The lobby returns an action.
LEMMA Returns ==
    ASSUME LobbyInv, screen = "lobby", NEW act \in Actions, Return(act),
           act.name \in {"Join", "ForgetCredential"} => act.group = act.as \/ (Dialog /\ replaced),
           act.name = "ForgetCredential" => act.group \in saved \/ replaced
    PROVE  LobbyInv'
<1>1. /\ screen' = "away" /\ action' = act
      /\ UNCHANGED <<made, quiet, saved, gateways, groups, selected, mode, refreshing, search, target, replaced, shrunk>>
  BY DEF Return, app, history
<1>2. LobbyTypeOK'
  BY <1>1 DEF LobbyInv, CursorInList, LobbyTypeOK
<1>3. QED
  BY <1>1, <1>2 DEF LobbyInv, CursorInList, Last0, ActsOnShown, Kept, AskedAbout, Dialog

\* Enter, or y, in a dialog that keeps a place
LEMMA Answers ==
    ASSUME LobbyInv, screen = "lobby", NEW name \in {"Join", "ForgetCredential"},
           mode.kind = (IF name = "Join" THEN "InviteToken" ELSE "ConfirmForget"),
           AnswerFor(name)
    PROVE  LobbyInv'
<1>1. /\ LobbyTypeOK /\ Dialog /\ mode.index \in Nat /\ target \in Group
      /\ ~replaced => At(groups, mode.index) = target
      /\ ~shrunk => mode.index < Len(groups)
      /\ name = "ForgetCredential" /\ ~replaced => target \in saved
  BY ModeFacts DEF LobbyInv, CursorInList, LobbyTypeOK, Kept, AskedAbout, Dialog
<1>2. PICK group \in Group \cup {NoGroup} : group = At(groups, mode.index)
  BY <1>1, Places DEF LobbyTypeOK
<1>3. (group # NoGroup <=> mode.index < Len(groups)) /\ NoGroup \notin Group
  BY <1>1, <1>2, Places DEF LobbyTypeOK
<1>4. CASE group # NoGroup
  <2>1. PICK act \in Actions : act = [name |-> name, group |-> group, as |-> target]
    BY <1>1, <1>2, <1>4 DEF Actions
  <2>2. Return(act) /\ act.name = name /\ act.group = group /\ act.as = target
    BY <1>2, <1>4, <2>1 DEF AnswerFor
  <2>3. QED
    BY <1>1, <1>2, <2>2, Returns
<1>5. CASE group = NoGroup
  <2>1. replaced /\ shrunk
    BY <1>1, <1>2, <1>3, <1>5
  <2>2. /\ screen' = "panicked"
        /\ UNCHANGED <<made, quiet, saved, action, gateways, groups, selected, mode, refreshing, search, target,
                       replaced, shrunk>>
    BY <1>2, <1>5 DEF AnswerFor, app, history
  <2>3. LobbyTypeOK'
    BY <1>1, <2>2 DEF LobbyTypeOK
  <2>4. QED
    BY <1>1, <2>1, <2>2, <2>3 DEF LobbyInv, CursorInList, Last0, ActsOnShown, Kept, AskedAbout, Dialog
<1>6. QED
  BY <1>4, <1>5

\* The result of a search replaces the list under an open dialog.
LEMMA Found ==
    ASSUME LobbyInv, ReceiveFound
    PROVE  LobbyInv'
<1>1. /\ LobbyTypeOK /\ screen = "lobby" /\ action = NoAction /\ groups \in Seq(Group) /\ selected \in Nat
      /\ search.found \subseteq Gateway /\ search.listed \in SUBSET Group
  BY DEF LobbyInv, CursorInList, LobbyTypeOK, ReceiveFound, Searches
<1>2. PICK list \in Listings(search.listed) : SetDiscovery(search.found, list)
  BY DEF ReceiveFound
<1>3. list \in Seq(Group) /\ Len(list) \in Nat /\ Len(groups) \in Nat /\ (list = <<>> <=> Len(list) = 0)
  BY <1>1, <1>2, Listed
<1>4. /\ groups' = list /\ gateways' = search.found
      /\ selected' = Lesser(selected, IF list = <<>> THEN 0 ELSE Len(list) - 1)
      /\ refreshing' = FALSE /\ search' = NoSearch
      /\ UNCHANGED <<made, quiet, saved, screen, action, mode, target>>
      /\ replaced' = (replaced \/ (Dialog /\ At(list, mode.index) # target))
      /\ shrunk' = (shrunk \/ (Dialog /\ Len(list) < Len(groups)))
  BY <1>2 DEF ReceiveFound, SetDiscovery
<1>5. selected' \in Nat /\ selected' <= (IF list = <<>> THEN 0 ELSE Len(list) - 1)
  BY <1>1, <1>3, <1>4 DEF Lesser
<1>6. replaced' \in BOOLEAN /\ shrunk' \in BOOLEAN
  BY <1>4
<1>7. LobbyTypeOK'
  BY <1>1, <1>3, <1>4, <1>5, <1>6 DEF LobbyTypeOK, NoSearch, Searches
<1>8. CursorInList'
  BY <1>4, <1>5, <1>7 DEF CursorInList, Last0
<1>9. Kept'
  <2>1. SUFFICES ASSUME Dialog
                 PROVE  /\ target \in Group
                        /\ ~replaced' => At(list, mode.index) = target
                        /\ ~shrunk' => mode.index < Len(list)
    BY <1>4 DEF Kept, Dialog
  <2>2. mode.index \in Nat /\ target \in Group /\ (~shrunk => mode.index < Len(groups))
    BY <1>1, <2>1, ModeFacts DEF LobbyInv, LobbyTypeOK, Kept, Dialog
  <2>3. ~shrunk' => ~shrunk /\ ~(Len(list) < Len(groups))
    BY <1>4, <2>1
  <2>4. ~replaced' => At(list, mode.index) = target
    BY <1>4, <2>1
  <2>5. ~shrunk' => mode.index < Len(list)
    BY <1>3, <2>2, <2>3
  <2>6. QED
    BY <2>2, <2>4, <2>5
<1>10. AskedAbout'
  BY <1>4 DEF LobbyInv, AskedAbout
<1>11. action' = NoAction /\ screen' = "lobby"
  BY <1>1, <1>4
<1>12. ActsOnShown'
  BY <1>11 DEF ActsOnShown, NoAction
<1>13. QED
  BY <1>8, <1>9, <1>10, <1>11, <1>12 DEF LobbyInv

LEMMA InvInit == LobbyInit => LobbyInv
<1> SUFFICES ASSUME LobbyInit PROVE LobbyInv
  OBVIOUS
<1>1. Browse \in Modes /\ NewSearch \in Searches /\ <<>> \in Seq(Group)
  BY DEF Browse, Modes, NewSearch, Searches
<1>2. LobbyTypeOK
  BY <1>1 DEF LobbyInit, LobbyTypeOK
<1>3. selected <= Last0
  BY DEF LobbyInit, Last0
<1>4. ActsOnShown /\ action = NoAction
  BY DEF LobbyInit, ActsOnShown, NoAction
<1>5. Kept /\ AskedAbout
  BY DEF LobbyInit, Kept, AskedAbout, Dialog, Browse
<1>6. QED
  BY <1>2, <1>3, <1>4, <1>5 DEF LobbyInv, CursorInList

LEMMA InvStep == LobbyInv /\ [LobbyNext]_lobbyVars => LobbyInv'
<1> SUFFICES ASSUME LobbyInv, [LobbyNext]_lobbyVars PROVE LobbyInv'
  OBVIOUS
<1>a. LobbyTypeOK /\ CursorInList
  BY DEF LobbyInv, CursorInList
<1>1. CASE Loop
  <2>1. CASE ReceiveFound
    BY <2>1, Found
  <2>2. CASE ReceiveFailed
    <3>1. UNCHANGED <<made, quiet, saved, screen, action, gateways, groups, selected, mode, history>>
          /\ refreshing' = FALSE /\ search' = NoSearch
      BY <2>2 DEF ReceiveFailed, FlagAfterFailure
    <3>2. QED
      BY <1>a, <3>1 DEF LobbyInv, CursorInList, LobbyTypeOK, Last0, ActsOnShown, Kept, AskedAbout, Dialog, history,
           NoSearch, Searches
  <2>3. CASE StartSearch
    <3>1. UNCHANGED <<made, quiet, saved, screen, action, gateways, groups, selected, mode, history>>
          /\ refreshing' = TRUE /\ search' = NewSearch
      BY <2>3 DEF StartSearch
    <3>2. QED
      BY <1>a, <3>1 DEF LobbyInv, CursorInList, LobbyTypeOK, Last0, ActsOnShown, Kept, AskedAbout, Dialog, history,
           NewSearch, Searches
  <2>4. QED
    BY <1>1, <2>1, <2>2, <2>3 DEF Loop
<1>2. CASE Beside \/ CreateElsewhere \/ GoQuiet \/ UNCHANGED lobbyVars
  <2>1. Beyond
    BY <1>2 DEF Beside, Listen, ListenFails, Inspect, CreateElsewhere, GoQuiet, lobbyVars, app, history, Beyond
  <2>2. made' \subseteq Group /\ quiet' \in BOOLEAN
    BY <1>2, <1>a DEF Beside, Listen, ListenFails, Inspect, CreateElsewhere, GoQuiet, lobbyVars, LobbyTypeOK
  <2>3. search' \in Searches
    <3>1. CASE Listen
      BY <3>1 DEF Listen, Searches
    <3>2. CASE ListenFails
      BY <3>2 DEF ListenFails, Searches
    <3>3. CASE Inspect
      <4>1. search \in [state : {"asking"}, found : SUBSET Gateway, todo : SUBSET Gateway, listed : SUBSET Group]
        BY <1>a, <3>3 DEF Inspect, LobbyTypeOK, Searches
      <4>2. PICK g \in search.todo : \E groupsOf \in {On(g), {}} :
               search' = [search EXCEPT !.todo = @ \ {g}, !.listed = @ \cup groupsOf]
        BY <3>3 DEF Inspect
      <4>3. PICK groupsOf \in SUBSET Group :
               search' = [search EXCEPT !.todo = @ \ {g}, !.listed = @ \cup groupsOf]
        BY <1>a, <4>2 DEF On, LobbyTypeOK
      <4>4. search' \in [state : {"asking"}, found : SUBSET Gateway, todo : SUBSET Gateway, listed : SUBSET Group]
        BY <4>1, <4>3
      <4>5. QED
        BY <4>4 DEF Searches
    <3>4. CASE CreateElsewhere \/ GoQuiet \/ UNCHANGED lobbyVars
      BY <1>a, <3>4 DEF CreateElsewhere, GoQuiet, lobbyVars, LobbyTypeOK
    <3>5. QED
      BY <1>2, <3>1, <3>2, <3>3, <3>4 DEF Beside
  <2>4. QED
    BY <2>1, <2>2, <2>3, BeyondKeeps
<1>3. CASE Keys
  <2>0. screen = "lobby"
    BY <1>3 DEF Keys, Up, Down, Enter, AskForget, AskText, Quit, Type, Cancel, EnterGroupName, EnterAddress,
         EnterNickname, EnterAccess, EnterToken, ConfirmForget, KeyIn
  <2>1. CASE Up \/ Down
    <3>1. selected' \in Nat /\ selected' <= Last0
      <4>1. PICK s \in Nat, n \in Nat : s = selected /\ n = Last0 /\ s <= n
        <5>1. groups = <<>> \/ Len(groups) - 1 \in Nat
          BY <1>a DEF LobbyTypeOK
        <5>2. QED
          BY <1>a, <5>1 DEF CursorInList, LobbyTypeOK, Last0
      <4>2. QED
        BY <2>1, <4>1 DEF Up, Down, Lesser
    <3>2. Stay /\ UNCHANGED <<mode, history>>
      BY <2>1 DEF Up, Down
    <3>3. QED
      BY <1>a, <2>0, <3>1, <3>2, Moves DEF LobbyTypeOK
  <2>2. CASE Type
    <3>1. PICK valid \in BOOLEAN : mode' = [mode EXCEPT !.valid = valid]
      BY <2>2 DEF Type
    <3>2. mode \in Modes /\ mode.kind \in Kinds \cup {"InviteToken"} /\ selected \in Nat /\ selected <= Last0
      BY <1>a, <2>2 DEF Type, LobbyTypeOK, CursorInList
    <3>3. mode' \in Modes /\ mode'.kind = mode.kind /\ (mode.kind = "InviteToken" => mode'.index = mode.index)
      BY <3>1, <3>2, Typed
    <3>4. Stay /\ UNCHANGED <<selected, history>>
      BY <2>2 DEF Type
    <3>5. Dialog => mode'.index = mode.index
      BY <3>2, <3>3 DEF Dialog, Kinds
    <3>6. QED
      BY <2>0, <3>2, <3>3, <3>4, <3>5, Moves
  <2>3. CASE Cancel
    BY <2>0, <2>3, Opens, ModeFacts DEF Cancel
  <2>4. CASE AskText
    <3>1. PICK kind \in Kinds : Open([kind |-> kind, valid |-> kind = "Nickname"])
      BY <2>4 DEF AskText
    <3>2. PICK m \in Modes : m = [kind |-> kind, valid |-> kind = "Nickname"]
      BY ModeFacts
    <3>3. m.kind \in Kinds
      BY <3>2
    <3>4. QED
      BY <2>0, <3>1, <3>2, <3>3, Opens DEF Kinds
  <2>5. CASE EnterGroupName
    <3>1. PICK g \in Gateway : Open([kind |-> "ChooseAccess", gateway |-> g])
      <4>1. CreateAt \subseteq Gateway
        BY <1>a, UnderCursor, LobbyAssumption DEF CreateAt, LobbyTypeOK
      <4>2. QED
        BY <2>5, <4>1 DEF EnterGroupName
    <3>2. PICK m \in Modes : m = [kind |-> "ChooseAccess", gateway |-> g]
      BY ModeFacts
    <3>3. QED
      BY <2>0, <3>1, <3>2, Opens
  <2>6. CASE AskForget
    <3>1. PICK m \in Modes : m = [kind |-> "ConfirmForget", index |-> selected]
      BY <1>a, ModeFacts DEF LobbyTypeOK
    <3>2. Open(m) /\ groups # <<>> /\ groups[selected + 1] \in saved
      BY <2>6, <3>1 DEF AskForget, ForgetAt
    <3>3. m.index = selected /\ "index" \in DOMAIN m
      BY <3>1
    <3>4. QED
      BY <2>0, <3>2, <3>3, Opens
  <2>7. CASE Enter
    <3>1. PICK group \in Group : group = groups[selected + 1]
      BY <1>a, <2>7, UnderCursor DEF Enter
    <3>2. CASE AsksToken(group)
      <4>1. PICK m \in Modes : m = [kind |-> "InviteToken", index |-> selected, valid |-> FALSE]
        BY <1>a, ModeFacts DEF LobbyTypeOK
      <4>2. Open(m) /\ groups # <<>>
        BY <2>7, <3>1, <3>2, <4>1 DEF Enter
      <4>3. m.kind = "InviteToken" /\ m.index = selected /\ "index" \in DOMAIN m
        BY <4>1
      <4>4. QED
        BY <2>0, <4>2, <4>3, Opens
    <3>3. CASE ~AsksToken(group)
      <4>1. PICK act \in Actions : act = [name |-> "Join", group |-> group, as |-> group]
        BY DEF Actions
      <4>2. Return(act)
        BY <2>7, <3>1, <3>3, <4>1 DEF Enter
      <4>3. QED
        BY <2>0, <4>1, <4>2, Returns
    <3>4. QED
      BY <3>2, <3>3
  <2>8. CASE Quit \/ EnterAddress \/ EnterNickname \/ EnterAccess
    <3>1. PICK act \in Actions : Return(act) /\ act.name \in {"Quit", "SetNickname", "DirectJoin", "Create"}
      BY <1>a, <2>8, ModeFacts DEF Quit, EnterAddress, EnterNickname, EnterAccess, KeyIn, Actions, LobbyTypeOK
    <3>2. QED
      BY <2>0, <3>1, Returns
  <2>9. CASE EnterToken \/ ConfirmForget
    BY <2>0, <2>9, Answers DEF EnterToken, ConfirmForget, KeyIn
  <2>10. QED
    BY <1>3, <2>1, <2>2, <2>3, <2>4, <2>5, <2>6, <2>7, <2>8, <2>9 DEF Keys
<1>4. CASE ComeBack
  <2>1. made' \subseteq Group /\ saved' \subseteq Group /\ quiet' = quiet
    <3>1. action \in Actions \/ action.name = "none"
      BY <1>a DEF LobbyTypeOK, NoAction
    <3>2. action.name \in {"ForgetCredential", "Join"} => action.group \in Group
      BY <3>1 DEF Actions
    <3>3. CASE action.name = "ForgetCredential"
      BY <1>a, <1>4, <3>3 DEF ComeBack, LobbyTypeOK
    <3>4. CASE action.name = "Join"
      BY <1>a, <1>4, <3>2, <3>4 DEF ComeBack, LobbyTypeOK
    <3>5. CASE action.name = "Create"
      BY <1>a, <1>4, <3>5 DEF ComeBack, LobbyTypeOK
    <3>6. CASE action.name \notin {"ForgetCredential", "Join", "Create"}
      BY <1>a, <1>4, <3>6 DEF ComeBack, LobbyTypeOK
    <3>7. QED
      BY <3>3, <3>4, <3>5, <3>6
  <2>2. Opened
    BY <1>4 DEF ComeBack
  <2>3. Browse \in Modes /\ NewSearch \in Searches /\ <<>> \in Seq(Group)
    BY DEF Browse, Modes, NewSearch, Searches
  <2>4. CursorInList'
    <3>1. LobbyTypeOK'
      BY <1>a, <2>1, <2>2, <2>3 DEF Opened, LobbyTypeOK
    <3>2. (selected <= Last0)'
      BY <2>2 DEF Opened, Last0
    <3>3. QED
      BY <3>1, <3>2 DEF CursorInList
  <2>5. ActsOnShown' /\ action' = NoAction
    BY <2>2 DEF Opened, ActsOnShown, NoAction
  <2>6. Kept' /\ AskedAbout'
    BY <2>2 DEF Opened, Kept, AskedAbout, Dialog, Browse
  <2>7. QED
    BY <2>4, <2>5, <2>6 DEF LobbyInv
<1>5. QED
  BY <1>1, <1>2, <1>3, <1>4 DEF LobbyNext

(***************************************************************************)
(* However the searches make the list longer and shorter: the cursor is on *)
(* a group whenever there is one, so that the keys of run_lobby index the  *)
(* list inside its bounds (handle_key, set_discovery).                     *)
(***************************************************************************)
THEOREM CursorInListCorrect == LobbySpec => []CursorInList
<1>1. LobbyInv => CursorInList
  BY DEF LobbyInv
<1>2. QED
  BY <1>1, InvInit, InvStep, PTL DEF LobbySpec

(***************************************************************************)
(* What leaves the lobby is for the group that was shown, and a dialog's   *)
(* answer indexes the list inside its bounds, unless a search has replaced *)
(* the list under the open dialog (LobbyAction, groups[group_index]).      *)
(***************************************************************************)
THEOREM ActsOnShownCorrect == LobbySpec => []ActsOnShown
<1>1. LobbyInv => ActsOnShown
  BY DEF LobbyInv
<1>2. QED
  BY <1>1, InvInit, InvStep, PTL DEF LobbySpec

-----------------------------------------------------------------------------
(* A room's window: numbers in order *)

\* Counting those up to each gives everyone a place, and the places are 1 and on.
LEMMA SortedList ==
    ASSUME NEW S \in SUBSET Nat, IsFiniteSet(S)
    PROVE  /\ Cardinality(S) \in Nat
           /\ Sorted(S) \in [1..Cardinality(S) -> S]
           /\ S = {Sorted(S)[i] : i \in 1..Cardinality(S)}
           /\ \A i, j \in 1..Cardinality(S) : i < j => Sorted(S)[i] < Sorted(S)[j]
<1> DEFINE n == Cardinality(S)
           UpTo(x) == {y \in S : y <= x}
           place == [x \in S |-> Cardinality(UpTo(x))]
<1>1. n \in Nat
  BY FS_CardinalityType
<1>2. ASSUME NEW x \in S
      PROVE  /\ IsFiniteSet(UpTo(x)) /\ Cardinality(UpTo(x)) \in 1..n
  <2>1. UpTo(x) \in SUBSET S /\ x \in UpTo(x)
    OBVIOUS
  <2>2. IsFiniteSet(UpTo(x)) /\ Cardinality(UpTo(x)) <= n
    BY <2>1, FS_Subset
  <2>3. Cardinality(UpTo(x)) \in Nat /\ Cardinality(UpTo(x)) # 0
    BY <2>1, <2>2, FS_CardinalityType, FS_EmptySet
  <2>4. QED
    BY <1>1, <2>2, <2>3
<1>3. ASSUME NEW x \in S, NEW y \in S, x < y
      PROVE  Cardinality(UpTo(x)) < Cardinality(UpTo(y))
  <2>1. UpTo(x) \in SUBSET UpTo(y) /\ y \in UpTo(y) /\ y \notin UpTo(x)
    <3>1. x \in Nat /\ y \in Nat /\ x < y /\ ~(y <= x)
      BY <1>3
    <3>2. \A z \in S : z <= x => z <= y
      BY <3>1
    <3>3. UpTo(x) \subseteq UpTo(y)
      BY <3>2
    <3>4. y <= y
      BY <3>1
    <3>5. QED
      BY <3>1, <3>3, <3>4
  <2>2. Cardinality(UpTo(x)) <= Cardinality(UpTo(y)) /\ Cardinality(UpTo(x)) # Cardinality(UpTo(y))
    BY <1>2, <2>1, FS_Subset
  <2>3. QED
    BY <1>1, <1>2, <2>2
<1>4. place \in [S -> 1..n]
  BY <1>2
<1>5. place \in Injection(S, 1..n)
  <2>1. ASSUME NEW x \in S, NEW y \in S, place[x] = place[y] PROVE x = y
    <3>1. x \in Nat /\ y \in Nat /\ ~(x < y) /\ ~(y < x)
      BY <1>1, <1>2, <1>3, <2>1
    <3>2. QED
      BY <3>1
  <2>2. QED
    BY <1>4, <2>1 DEF Injection, IsInjective
<1>6. place \in Surjection(S, 1..n)
  <2>1. IsFiniteSet(1..n) /\ Cardinality(1..n) = n
    BY <1>1, FS_Interval
  <2>2. QED
    BY <1>5, <2>1, FS_Injection
<1>7. \A i \in 1..n : \E x \in S : place[x] = i
  BY <1>6 DEF Surjection
<1> DEFINE list == [i \in 1..n |-> CHOOSE x \in S : place[x] = i]
<1>8. \A i \in 1..n : list[i] \in S /\ place[list[i]] = i
  BY <1>7
<1>9. list \in [1..n -> S]
  BY <1>8
<1>a. \A x, y \in S : x < y => place[x] < place[y]
  BY <1>3
<1> HIDE DEF list, place
<1>10. \A i, j \in DOMAIN list : i < j => list[i] < list[j]
  <2>1. SUFFICES ASSUME NEW i \in 1..n, NEW j \in 1..n, i < j PROVE list[i] < list[j]
    BY <1>9 DEF list
  <2>2. place[list[i]] = i /\ place[list[j]] = j /\ list[i] \in S /\ list[j] \in S
    BY <1>8, <2>1
  <2>a. list[j] < list[i] => j < i
    <3>1. ASSUME list[j] < list[i] PROVE place[list[j]] < place[list[i]]
      BY <1>a, <2>2, <3>1
    <3>2. QED
      BY <2>2, <3>1
  <2>b. i \in Nat /\ j \in Nat /\ i < j
    BY <1>1, <2>1
  <2>3. list[i] # list[j] /\ ~(list[j] < list[i])
    BY <2>2, <2>a, <2>b
  <2>4. list[i] \in Nat /\ list[j] \in Nat
    BY <2>2
  <2>5. QED
    BY <2>3, <2>4
<1>11. /\ Sorted(S) \in [1..n -> S]
       /\ \A i, j \in DOMAIN Sorted(S) : i < j => Sorted(S)[i] < Sorted(S)[j]
  BY <1>9, <1>10 DEF Sorted
<1>12. \A x \in S : \E i \in 1..n : Sorted(S)[i] = x
  <2>1. Sorted(S) \in Injection(1..n, S)
    <3>1. ASSUME NEW i \in 1..n, NEW j \in 1..n, Sorted(S)[i] = Sorted(S)[j] PROVE i = j
      <4>a. DOMAIN Sorted(S) = 1..n /\ Sorted(S)[i] \in Nat /\ Sorted(S)[j] \in Nat
        BY <1>11
      <4>1. ~(i < j) /\ ~(j < i)
        BY <1>11, <3>1, <4>a
      <4>2. QED
        BY <1>1, <4>1
    <3>2. QED
      BY <1>11, <3>1 DEF Injection, IsInjective
  <2>2. IsFiniteSet(1..n) /\ Cardinality(1..n) = n
    BY <1>1, FS_Interval
  <2>3. Sorted(S) \in Surjection(1..n, S)
    BY <2>1, <2>2, FS_Injection
  <2>4. QED
    BY <2>3 DEF Surjection
<1>13. QED
  BY <1>1, <1>11, <1>12

\* A set of numbers has a first one.
LEMMA LeastOfSome ==
    ASSUME NEW S \in SUBSET Nat, IsFiniteSet(S), S # {}
    PROVE  Min(S) \in S /\ \A y \in S : Min(S) <= y
<1>1. PICK m \in Nat : m = Cardinality(S)
  BY SortedList
<1>2. /\ Sorted(S) \in [1..m -> S] /\ S = {Sorted(S)[i] : i \in 1..m}
      /\ \A i, j \in 1..m : i < j => Sorted(S)[i] < Sorted(S)[j]
  BY <1>1, SortedList
<1>3. 1 \in 1..m
  <2>1. m # 0
    BY <1>1, FS_EmptySet
  <2>2. QED
    BY <2>1
<1>4. Sorted(S)[1] \in S
  BY <1>2, <1>3
<1>5. ASSUME NEW y \in S PROVE Sorted(S)[1] <= y
  <2>1. PICK i \in 1..m : y = Sorted(S)[i]
    BY <1>2
  <2>2. i = 1 \/ 1 < i
    OBVIOUS
  <2>3. y = Sorted(S)[1] \/ Sorted(S)[1] < y
    BY <1>2, <1>3, <2>1, <2>2
  <2>4. y \in Nat /\ Sorted(S)[1] \in Nat
    BY <1>4
  <2>5. QED
    BY <2>3, <2>4
<1>6. \E x \in S : \A y \in S : x <= y
  BY <1>4, <1>5
<1>7. QED
  BY <1>6 DEF Min

-----------------------------------------------------------------------------
(* Histories and pages *)

\* Messages that follow one another
Run(s) == \A i \in DOMAIN s : s[i] = Head(s) + i - 1

LEMMA MessagesFromIs ==
    ASSUME NEW k \in Nat \ {0}, NEW last \in Nat, k <= last
    PROVE  /\ MessagesFrom(k, last) \in Seq(k..last) /\ MessagesFrom(k, last) # <<>>
           /\ Run(MessagesFrom(k, last)) /\ Head(MessagesFrom(k, last)) = k
           /\ Len(MessagesFrom(k, last)) = last + 1 - k
<1>1. PICK n \in Nat : n = last + 1 - k /\ n >= 1
  OBVIOUS
<1>2. PICK s : s = MessagesFrom(k, last)
  OBVIOUS
<1>3. s = [i \in 1..n |-> k + i - 1]
  BY <1>1, <1>2 DEF MessagesFrom
<1>4. \A i \in 1..n : k + i - 1 \in k..last
  BY <1>1
<1>5. s \in [1..n -> k..last]
  BY <1>3, <1>4
<1>6. s \in Seq(k..last) /\ Len(s) = n /\ DOMAIN s = 1..n
  BY <1>5
<1>7. s # <<>> /\ Head(s) = s[1] /\ s[1] = k
  BY <1>1, <1>3, <1>6
<1>8. Run(s)
  BY <1>3, <1>6, <1>7 DEF Run
<1>9. QED
  BY <1>1, <1>2, <1>6, <1>7, <1>8

\* Who is in it
LEMMA RunIs ==
    ASSUME NEW s \in Seq(Nat), Run(s), s # <<>>
    PROVE  /\ Head(s) \in Nat /\ Len(s) \in Nat \ {0}
           /\ ToSet(s) = Head(s)..(Head(s) + Len(s) - 1)
           /\ Last(s) = Head(s) + Len(s) - 1
           /\ \A i, j \in DOMAIN s : i < j => s[i] < s[j]
<1>1. PICK n \in Nat \ {0} : n = Len(s) /\ DOMAIN s = 1..n
  OBVIOUS
<1>2. PICK k \in Nat : k = Head(s)
  OBVIOUS
<1>3. \A i \in 1..n : s[i] = k + i - 1
  BY <1>1, <1>2 DEF Run
<1>4. ASSUME NEW m \in k..(k + n - 1) PROVE \E i \in DOMAIN s : s[i] = m
  <2>1. m + 1 - k \in 1..n /\ k + (m + 1 - k) - 1 = m
    OBVIOUS
  <2>2. QED
    BY <1>1, <1>3, <2>1
<1>5. \A i \in DOMAIN s : s[i] \in k..(k + n - 1)
  BY <1>1, <1>3
<1>6. ToSet(s) = k..(k + n - 1)
  BY <1>4, <1>5 DEF ToSet
<1>7. Last(s) = k + n - 1
  BY <1>1, <1>3 DEF Last
<1>8. \A i, j \in 1..n : i < j => s[i] < s[j]
  BY <1>3
<1>9. QED
  BY <1>1, <1>2, <1>6, <1>7, <1>8

\* Something from first to last, and last among it
LEMMA FitIs ==
    ASSUME NEW first \in Nat \ {0}, NEW last \in Nat
    PROVE  /\ last < first => Fit(first, last) = <<>>
           /\ first <= last => \E k \in first..last : Fit(first, last) = MessagesFrom(k, last)
<1>1. CASE last < first
  BY <1>1 DEF Fit
<1>2. CASE first <= last
  <2>1. PICK S : S = {last} \cup {k \in first..last : Size(k, last) <= Budget}
    OBVIOUS
  <2>2. S \in SUBSET (first..last) /\ S # {}
    BY <1>2, <2>1
  <2>3. S \in SUBSET Nat /\ IsFiniteSet(S)
    <3>1. IsFiniteSet(first..last)
      BY FS_Interval
    <3>2. first..last \subseteq Nat
      OBVIOUS
    <3>3. QED
      BY <2>2, <3>1, <3>2, FS_Subset
  <2>4. Min(S) \in first..last
    BY <2>2, <2>3, LeastOfSome
  <2>5. ~(last < first)
    BY <1>2
  <2>6. Fit(first, last) = MessagesFrom(Min(S), last)
    BY <2>1, <2>5 DEF Fit
  <2>7. QED
    BY <1>2, <2>4, <2>5, <2>6
<1>3. QED
  BY <1>1, <1>2

LEMMA BoundsTyped ==
    /\ MaxLog \in Nat /\ MaxNotices \in Nat /\ Past \subseteq 0..MaxLog
    /\ MaxItems \in Nat \ {0} /\ HistoryCapacity \in Nat \ {0}
    /\ Limit \in Nat \ {0} /\ QueueCapacity \in Nat \ {0}
    /\ HistoryCapacity <= MaxItems
BY HistoryAssumption

GoodHistory(messages, newest) ==
    /\ Run(messages) /\ Len(messages) <= HistoryCapacity
    /\ ToSet(messages) \subseteq 1..newest

\* What comes with Welcome or RoomJoined is the end of the room.
LEMMA HistoryIs ==
    ASSUME NEW newest \in 0..MaxLog, newest = log
    PROVE  /\ History \in Seq(Message) /\ GoodHistory(History, newest)
           /\ History = <<>> => newest = 0
           /\ History # <<>> => ToSet(History) = Head(History)..newest /\ Head(History) \in Message
<1>1. PICK c \in Nat \ {0} : c = HistoryCapacity
  BY BoundsTyped
<1>2. MaxLog \in Nat /\ newest \in Nat /\ newest <= MaxLog
  BY BoundsTyped
<1>a. PICK first : first = Most(1, newest + 1 - c)
  OBVIOUS
<1>b. first = IF 1 > newest + 1 - c THEN 1 ELSE newest + 1 - c
  BY <1>a DEF Most
<1>3. first \in Nat \ {0} /\ newest + 1 - first <= c
  BY <1>1, <1>2, <1>b
<1>4. History = Fit(first, newest)
  BY <1>1, <1>a, <1>2 DEF History
<1>5. CASE newest = 0
  <2>1. newest < first
    BY <1>3, <1>5
  <2>2. History = <<>>
    BY <1>2, <1>3, <1>4, <2>1, FitIs
  <2>3. History \in Seq(Message) /\ Len(History) = 0 /\ DOMAIN History = {}
    BY <2>2
  <2>4. Run(History) /\ ToSet(History) = {}
    BY <2>3 DEF Run, ToSet
  <2>5. QED
    BY <1>1, <1>5, <2>2, <2>3, <2>4 DEF GoodHistory
<1>6. CASE newest # 0
  <2>1. first <= newest
    BY <1>1, <1>2, <1>b, <1>6
  <2>2. PICK k \in first..newest : History = MessagesFrom(k, newest)
    BY <1>2, <1>3, <1>4, <2>1, FitIs
  <2>3. k \in Nat \ {0} /\ k <= newest /\ newest + 1 - k <= c
    BY <1>2, <1>3, <2>2
  <2>4. PICK h : h = History
    OBVIOUS
  <2>5. /\ h \in Seq(k..newest) /\ h # <<>> /\ Run(h) /\ Head(h) = k
        /\ Len(h) = newest + 1 - k
    BY <1>2, <2>2, <2>3, <2>4, MessagesFromIs
  <2>6. k..newest \subseteq Message /\ k..newest \subseteq Nat /\ k..newest \subseteq 1..newest
    BY <1>2, <2>3 DEF Message
  <2>7. h \in Seq(Message) /\ h \in Seq(Nat)
    BY <2>5, <2>6, SeqMonotonic
  <2>8. ToSet(h) = k..(k + Len(h) - 1)
    BY <2>5, <2>7, RunIs
  <2>9. ToSet(h) = k..newest
    BY <1>2, <2>3, <2>5, <2>8
  <2>10. GoodHistory(h, newest)
    BY <1>1, <2>3, <2>5, <2>6, <2>9 DEF GoodHistory
  <2>11. k \in Message
    BY <1>2, <2>3 DEF Message
  <2>12. QED
    BY <1>6, <2>4, <2>5, <2>7, <2>9, <2>10, <2>11
<1>7. QED
  BY <1>5, <1>6

\* What is in front of a window
PageFits(page, first) ==
    /\ Run(page.messages) /\ page.messages # <<>>
    /\ Head(page.messages) + Len(page.messages) = first
    /\ page.more = (Head(page.messages) > 1)

\* A page is the messages before the one that was named.
LEMMA PageIs ==
    ASSUME NEW before \in Message, before > 1
    PROVE  /\ HistoryBefore(before) \in Seq(Message)
           /\ ToSet(HistoryBefore(before)) \subseteq 1..(before - 1)
           /\ PageFits([kind |-> "page", messages |-> HistoryBefore(before),
                        more |-> More(HistoryBefore(before))], before)
<1>1. PICK n \in Nat \ {0} : n = Limit
  BY BoundsTyped
<1>2. MaxLog \in Nat /\ before \in Nat /\ before <= MaxLog
  BY BoundsTyped DEF Message
<1>3. PICK last \in Nat \ {0} : last = before - 1
  BY <1>2
<1>a. PICK first : first = Most(1, before - n)
  OBVIOUS
<1>b. first = IF 1 > before - n THEN 1 ELSE before - n
  BY <1>a DEF Most
<1>4. first \in Nat \ {0} /\ first <= last
  BY <1>1, <1>2, <1>3, <1>b
<1>5. PICK p : p = HistoryBefore(before)
  OBVIOUS
<1>6. p = Fit(first, last)
  BY <1>1, <1>3, <1>a, <1>5 DEF HistoryBefore
<1>7. PICK k \in first..last : p = MessagesFrom(k, last)
  BY <1>4, <1>6, FitIs
<1>8. k \in Nat \ {0} /\ k <= last
  BY <1>4, <1>7
<1>9. /\ p \in Seq(k..last) /\ p # <<>> /\ Run(p) /\ Head(p) = k
      /\ Len(p) = last + 1 - k
  BY <1>7, <1>8, MessagesFromIs
<1>10. k..last \subseteq Message /\ k..last \subseteq Nat
  BY <1>2, <1>3, <1>8 DEF Message
<1>11. p \in Seq(Message) /\ p \in Seq(Nat)
  BY <1>9, <1>10, SeqMonotonic
<1>12. ToSet(p) = k..(k + Len(p) - 1)
  BY <1>9, <1>11, RunIs
<1>13. ToSet(p) \subseteq 1..(before - 1)
  BY <1>2, <1>3, <1>8, <1>9, <1>12
<1>14. Head(p) + Len(p) = before
  BY <1>2, <1>3, <1>8, <1>9
<1>15. More(p) = (Head(p) > 1)
  BY <1>9 DEF More
<1>16. PICK page : page = [kind |-> "page", messages |-> p, more |-> More(p)]
  OBVIOUS
<1>17. page.messages = p /\ page.more = More(p)
  BY <1>16
<1>18. PageFits(page, before)
  BY <1>9, <1>14, <1>15, <1>17 DEF PageFits
<1>19. QED
  BY <1>5, <1>11, <1>13, <1>16, <1>18

-----------------------------------------------------------------------------
(* The window *)

Item == Message \cup {NoticeItem}

\* The items that are messages
Shown(window) == {m \in Message : \E i \in DOMAIN window : window[i] = m}

InOrder(window) ==
    \A i, j \in DOMAIN window :
        i < j /\ IsChat(window[i]) /\ IsChat(window[j]) => window[i] < window[j]

LEMMA ShownIs ==
    ASSUME NEW window \in Seq(Item)
    PROVE  /\ ToSet(window) \cap Message = Shown(window)
           /\ \A i \in DOMAIN window : window[i] \in Item /\ (IsChat(window[i]) <=> window[i] \in Message)
           /\ HasChat(window) <=> Shown(window) # {}
           /\ Shown(window) \subseteq Message
<1>1. NoticeItem \notin Message
  BY BoundsTyped DEF NoticeItem, Message
<1>2. \A i \in DOMAIN window : window[i] \in Item
  OBVIOUS
<1>3. \A i \in DOMAIN window : IsChat(window[i]) <=> window[i] \in Message
  BY <1>1, <1>2 DEF Item, IsChat
<1>4. ToSet(window) \cap Message = Shown(window)
  BY DEF ToSet, Shown
<1>5. HasChat(window) <=> Shown(window) # {}
  BY <1>3 DEF HasChat, Shown
<1>6. Shown(window) \subseteq Message
  BY DEF Shown
<1>7. QED
  BY <1>2, <1>3, <1>4, <1>5, <1>6

\* The first message is shown, and only notices are before it.
LEMMA FirstChatIs ==
    ASSUME NEW window \in Seq(Item), HasChat(window)
    PROVE  \E k \in DOMAIN window :
               /\ FirstChat(window) = window[k] /\ window[k] \in Message /\ IsChat(window[k])
               /\ \A i \in DOMAIN window : i < k => ~IsChat(window[i])
<1>1. PICK n \in Nat : n = Len(window) /\ DOMAIN window = 1..n
  OBVIOUS
<1>2. PICK I : I = {i \in 1..Len(window) : IsChat(window[i])}
  OBVIOUS
<1>3. I \in SUBSET (1..n) /\ I # {}
  BY <1>1, <1>2 DEF HasChat
<1>4. I \in SUBSET Nat /\ IsFiniteSet(I)
  <2>1. IsFiniteSet(1..n)
    BY FS_Interval
  <2>2. 1..n \subseteq Nat
    OBVIOUS
  <2>3. QED
    BY <1>3, <2>1, <2>2, FS_Subset
<1>5. Min(I) \in I /\ \A y \in I : Min(I) <= y
  BY <1>3, <1>4, LeastOfSome
<1>6. SelectInSeq(window, IsChat) = Min(I)
  BY <1>2, <1>3 DEF SelectInSeq
<1>7. PICK k \in I : k = Min(I)
  BY <1>5
<1>8. k \in DOMAIN window /\ IsChat(window[k]) /\ k \in Nat
  BY <1>1, <1>2, <1>3, <1>7
<1>9. FirstChat(window) = window[k]
  BY <1>6, <1>7 DEF FirstChat
<1>10. ASSUME NEW i \in DOMAIN window, i < k PROVE ~IsChat(window[i])
  <2>1. i \in 1..n /\ i \in Nat
    BY <1>1
  <2>2. i \notin I
    BY <1>5, <1>7, <1>8, <1>10, <2>1
  <2>3. QED
    BY <1>1, <1>2, <2>1, <2>2
<1>11. window[k] \in Message
  BY <1>8, ShownIs
<1>12. QED
  BY <1>8, <1>9, <1>10, <1>11

\* A new last item may push out the first one, and no other.
LEMMA PushBoundedIs ==
    ASSUME NEW window \in Seq(Item), NEW item \in Item, NEW w, w = PushBounded(window, item)
    PROVE  /\ w \in Seq(Item)
           /\ Len(window) <= MaxItems => Len(w) <= MaxItems
           /\ Shown(w) \subseteq Shown(window) \cup {item}
           /\ item \in Message => item \in Shown(w)
           /\ InOrder(window) => \A m \in Shown(window) :
                 m \in Shown(w) \/ (HasChat(window) /\ m = FirstChat(window) /\ \A x \in Shown(window) : m <= x)
           /\ InOrder(window) /\ (item \in Message => \A m \in Shown(window) : m < item) => InOrder(w)
<1>1. PICK n \in Nat : n = Len(window) /\ DOMAIN window = 1..n
  OBVIOUS
<1>2. PICK c \in Nat \ {0} : c = MaxItems
  BY BoundsTyped
<1>3. PICK base : base = IF n = c THEN Tail(window) ELSE window
  OBVIOUS
<1>4. PICK off : off = IF n = c THEN 1 ELSE 0
  OBVIOUS
<1>5. off \in {0, 1} /\ off <= n /\ (off = 0 \/ n = c)
  BY <1>2, <1>4
<1>6. /\ base \in Seq(Item) /\ Len(base) = n - off
      /\ \A i \in 1..(n - off) : base[i] = window[i + off]
  <2>1. CASE n = c
    <3>1. window # <<>> /\ off = 1 /\ base = Tail(window)
      BY <1>1, <1>2, <1>3, <1>4, <2>1
    <3>2. /\ Tail(window) \in Seq(Item) /\ Len(Tail(window)) = n - 1
          /\ \A i \in 1..(n - 1) : Tail(window)[i] = window[i + 1]
      BY <1>1, <3>1, HeadTailProperties
    <3>3. QED
      BY <3>1, <3>2
  <2>2. CASE n # c
    <3>1. off = 0 /\ base = window
      BY <1>3, <1>4, <2>2
    <3>2. n - 0 = n /\ \A i \in 1..n : i + 0 = i
      OBVIOUS
    <3>3. QED
      BY <1>1, <3>1, <3>2
  <2>3. QED
    BY <2>1, <2>2
<1>7. PICK k \in Nat : k = n - off
  BY <1>5
<1>8. w = Append(base, item)
  BY <1>1, <1>2, <1>3 DEF PushBounded
<1>9. /\ w \in Seq(Item) /\ Len(w) = k + 1 /\ DOMAIN w = 1..(k + 1)
      /\ \A i \in 1..k : w[i] = base[i]
      /\ w[k + 1] = item
  BY <1>6, <1>7, <1>8, AppendProperties
<1>10. \A i \in 1..k : i + off \in 1..n /\ w[i] = window[i + off]
  BY <1>5, <1>6, <1>7, <1>9
<1>11. \A i \in 1..(k + 1) : i \in 1..k \/ i = k + 1
  OBVIOUS
<1>12. n <= c => Len(w) <= c
  BY <1>2, <1>3, <1>4, <1>7, <1>9
<1>13. ASSUME NEW m \in Shown(w), m # item PROVE m \in Shown(window)
  <2>1. PICK i \in 1..(k + 1) : w[i] = m /\ m \in Message
    BY <1>9 DEF Shown
  <2>2. i \in 1..k
    BY <1>9, <1>11, <1>13, <2>1
  <2>3. i + off \in DOMAIN window /\ window[i + off] = m
    BY <1>1, <1>10, <2>1, <2>2
  <2>4. QED
    BY <2>1, <2>3 DEF Shown
<1>14. item \in Message => item \in Shown(w)
  <2>1. k + 1 \in DOMAIN w
    BY <1>9
  <2>2. QED
    BY <1>9, <2>1 DEF Shown
<1>15. ASSUME NEW i \in DOMAIN window, off < i PROVE i - off \in 1..k /\ w[i - off] = window[i]
  <2>1. i \in 1..n /\ i - off \in 1..k /\ (i - off) + off = i
    BY <1>1, <1>5, <1>7, <1>15
  <2>2. QED
    BY <1>10, <2>1
<1>16. ASSUME InOrder(window), NEW m \in Shown(window), m \notin Shown(w)
       PROVE  HasChat(window) /\ m = FirstChat(window) /\ \A x \in Shown(window) : m <= x
  <2>1. PICK i \in DOMAIN window : window[i] = m /\ m \in Message
    BY DEF Shown
  <2>2. ~(off < i)
    <3>1. ASSUME off < i PROVE FALSE
      <4>1. i - off \in 1..k /\ w[i - off] = m
        BY <1>15, <2>1, <3>1
      <4>2. i - off \in DOMAIN w
        BY <1>9, <4>1
      <4>3. QED
        BY <1>16, <2>1, <4>1, <4>2 DEF Shown
    <3>2. QED
      BY <3>1
  <2>3. i = 1
    BY <1>1, <1>5, <2>2
  <2>4. HasChat(window) /\ IsChat(window[1]) /\ 1 \in DOMAIN window
    BY <2>1, <2>3, ShownIs DEF HasChat
  <2>5. PICK j \in DOMAIN window : FirstChat(window) = window[j] /\ \A h \in DOMAIN window : h < j => ~IsChat(window[h])
    BY <2>4, FirstChatIs
  <2>6. j \in Nat /\ (j = 1 \/ 1 < j)
    BY <1>1
  <2>7. FirstChat(window) = m
    BY <2>1, <2>3, <2>4, <2>5, <2>6
  <2>8. ASSUME NEW x \in Shown(window) PROVE m <= x
    <3>1. PICK h \in DOMAIN window : window[h] = x /\ x \in Message
      BY DEF Shown
    <3>2. IsChat(window[h]) /\ (h = 1 \/ 1 < h)
      BY <1>1, <3>1, ShownIs
    <3>3. m = x \/ m < x
      BY <1>16, <2>1, <2>3, <2>4, <3>1, <3>2 DEF InOrder
    <3>4. m \in Nat /\ x \in Nat
      BY <2>1, <3>1 DEF Message
    <3>5. QED
      BY <3>3, <3>4
  <2>9. QED
    BY <2>4, <2>7, <2>8
<1>17. ASSUME InOrder(window), item \in Message => \A m \in Shown(window) : m < item
       PROVE  InOrder(w)
  <2>1. SUFFICES ASSUME NEW i \in 1..(k + 1), NEW j \in 1..(k + 1), i < j, IsChat(w[i]), IsChat(w[j])
                 PROVE  w[i] < w[j]
    BY <1>9 DEF InOrder
  <2>2. i \in 1..k
    BY <1>7, <2>1
  <2>3. CASE j \in 1..k
    <3>1. /\ i + off \in DOMAIN window /\ j + off \in DOMAIN window
          /\ w[i] = window[i + off] /\ w[j] = window[j + off]
      BY <1>1, <1>10, <2>2, <2>3
    <3>2. i + off < j + off
      BY <1>5, <2>1
    <3>3. QED
      BY <1>17, <2>1, <3>1, <3>2 DEF InOrder
  <2>4. CASE j = k + 1
    <3>1. i + off \in DOMAIN window /\ w[i] = window[i + off] /\ w[j] = item
      BY <1>1, <1>9, <1>10, <2>2, <2>4
    <3>2. window[i + off] \in Message
      BY <2>1, <3>1, ShownIs
    <3>3. window[i + off] \in Shown(window)
      BY <3>1, <3>2 DEF Shown
    <3>4. item \in Message
      BY <1>9, <2>1, <2>4, ShownIs
    <3>5. QED
      BY <1>17, <3>1, <3>3, <3>4
  <2>5. QED
    BY <1>11, <2>3, <2>4
<1>18. QED
  BY <1>1, <1>2, <1>9, <1>12, <1>13, <1>14, <1>16, <1>17

\* A page adds what the window has not, and in order if it fits.
LEMMA PushedInFrontIs ==
    ASSUME NEW window \in Seq(Item), NEW messages \in Seq(Message),
           NEW w, w = PushedInFront(window, messages)
    PROVE  /\ w \in Seq(Item)
           /\ Shown(w) = Shown(window) \cup ToSet(messages)
           /\ InOrder(window) /\ Run(messages)
                /\ (\A m \in ToSet(messages), x \in Shown(window) : m < x) => InOrder(w)
<1>1. PICK n \in Nat : n = Len(window) /\ DOMAIN window = 1..n
  OBVIOUS
<1>2. PICK l \in Nat : l = Len(messages) /\ DOMAIN messages = 1..l
  OBVIOUS
<1>3. PICK places : places = {i \in DOMAIN messages : messages[i] \notin ToSet(window)}
  OBVIOUS
<1>4. places \in SUBSET Nat /\ IsFiniteSet(places)
  <2>1. IsFiniteSet(1..l)
    BY FS_Interval
  <2>2. 1..l \subseteq Nat /\ places \subseteq 1..l
    BY <1>2, <1>3
  <2>3. QED
    BY <2>1, <2>2, FS_Subset
<1>5. PICK k \in Nat : k = Cardinality(places)
  BY <1>4, SortedList
<1>6. PICK place : place = Sorted(places)
  OBVIOUS
<1>7. /\ place \in [1..k -> places] /\ places = {place[i] : i \in 1..k}
      /\ \A i, j \in 1..k : i < j => place[i] < place[j]
  BY <1>4, <1>5, <1>6, SortedList
<1>8. PICK front : front = [i \in 1..k |-> messages[place[i]]]
  OBVIOUS
<1>9. \A i \in 1..k : place[i] \in DOMAIN messages /\ front[i] = messages[place[i]]
  BY <1>3, <1>7, <1>8
<1>10. front \in [1..k -> Message]
  BY <1>8, <1>9
<1>11. front \in Seq(Message) /\ Len(front) = k
  BY <1>10
<1>12. front \in Seq(Item)
  BY <1>11, SeqMonotonic DEF Item
<1>13. w = front \o window
  BY <1>3, <1>5, <1>6, <1>8 DEF PushedInFront
<1>14. /\ w \in Seq(Item) /\ Len(w) = k + n /\ DOMAIN w = 1..(k + n)
       /\ \A i \in 1..(k + n) : w[i] = IF i <= k THEN front[i] ELSE window[i - k]
  <2>1. /\ w \in Seq(Item) /\ Len(w) = Len(front) + Len(window)
        /\ \A i \in 1..(Len(front) + Len(window)) :
              w[i] = IF i <= Len(front) THEN front[i] ELSE window[i - Len(front)]
    BY <1>12, <1>13, ConcatProperties
  <2>2. Len(front) = k /\ Len(window) = n
    BY <1>1, <1>11
  <2>3. DOMAIN w = 1..(k + n)
    BY <2>1, <2>2
  <2>4. QED
    BY <2>1, <2>2, <2>3
<1>15. ASSUME NEW m \in Shown(w) PROVE m \in Shown(window) \cup ToSet(messages)
  <2>1. PICK i \in 1..(k + n) : w[i] = m /\ m \in Message
    BY <1>14 DEF Shown
  <2>2. CASE i <= k
    <3>1. i \in 1..k /\ m = messages[place[i]]
      BY <1>9, <1>14, <2>1, <2>2
    <3>2. QED
      BY <1>9, <3>1 DEF ToSet
  <2>3. CASE ~(i <= k)
    <3>1. i - k \in DOMAIN window /\ window[i - k] = m
      BY <1>1, <1>14, <2>1, <2>3
    <3>2. QED
      BY <2>1, <3>1 DEF Shown
  <2>4. QED
    BY <2>2, <2>3
<1>16. ASSUME NEW m \in Shown(window) PROVE m \in Shown(w)
  <2>1. PICK i \in 1..n : window[i] = m /\ m \in Message
    BY <1>1 DEF Shown
  <2>2. i + k \in 1..(k + n) /\ ~(i + k <= k) /\ (i + k) - k = i
    OBVIOUS
  <2>3. w[i + k] = m
    BY <1>14, <2>1, <2>2
  <2>4. QED
    BY <1>14, <2>1, <2>2, <2>3 DEF Shown
<1>17. ASSUME NEW m \in ToSet(messages), m \notin Shown(window) PROVE m \in Shown(w)
  <2>1. PICK h \in DOMAIN messages : messages[h] = m /\ m \in Message
    BY DEF ToSet
  <2>2. m \notin ToSet(window)
    BY <1>17, <2>1, ShownIs
  <2>3. PICK i \in 1..k : place[i] = h
    BY <1>3, <1>7, <2>1, <2>2
  <2>4. front[i] = m /\ i <= k /\ i \in 1..(k + n)
    BY <1>1, <1>9, <2>1, <2>3
  <2>5. w[i] = m /\ i \in DOMAIN w
    BY <1>14, <2>4
  <2>6. QED
    BY <2>1, <2>5 DEF Shown
<1>18. ASSUME InOrder(window), Run(messages), \A m \in ToSet(messages), x \in Shown(window) : m < x
       PROVE  InOrder(w)
  <2>1. SUFFICES ASSUME NEW i \in 1..(k + n), NEW j \in 1..(k + n), i < j, IsChat(w[i]), IsChat(w[j])
                 PROVE  w[i] < w[j]
    BY <1>14 DEF InOrder
  <2>2. CASE j <= k
    <3>1. i \in 1..k /\ j \in 1..k
      BY <2>1, <2>2
    <3>2. /\ w[i] = messages[place[i]] /\ w[j] = messages[place[j]] /\ place[i] < place[j]
          /\ place[i] \in DOMAIN messages /\ place[j] \in DOMAIN messages
      <4>1. w[i] = front[i] /\ w[j] = front[j]
        BY <1>14, <3>1
      <4>2. place[i] < place[j]
        BY <1>7, <2>1, <3>1
      <4>3. QED
        BY <1>9, <3>1, <4>1, <4>2
    <3>3. messages \in Seq(Nat) /\ messages # <<>>
      <4>1. Message \subseteq Nat
        BY DEF Message
      <4>2. messages # <<>>
        BY <1>2, <3>2
      <4>3. QED
        BY <4>1, <4>2, SeqMonotonic
    <3>4. \A g, h \in DOMAIN messages : g < h => messages[g] < messages[h]
      BY <1>18, <3>3, RunIs
    <3>5. QED
      BY <3>2, <3>4
  <2>3. CASE i <= k /\ ~(j <= k)
    <3>1. i \in 1..k /\ j - k \in DOMAIN window /\ w[j] = window[j - k]
      BY <1>1, <1>14, <2>3
    <3>2. place[i] \in DOMAIN messages /\ w[i] = messages[place[i]]
      BY <1>9, <1>14, <2>3, <3>1
    <3>3. w[i] \in ToSet(messages)
      BY <3>2 DEF ToSet
    <3>4. w[j] \in Message
      BY <1>14, <2>1, ShownIs
    <3>5. w[j] \in Shown(window)
      BY <3>1, <3>4 DEF Shown
    <3>6. QED
      BY <1>18, <3>3, <3>5
  <2>4. CASE ~(i <= k)
    <3>1. ~(j <= k) /\ i - k \in 1..n /\ j - k \in 1..n /\ i - k < j - k
      BY <2>1, <2>4
    <3>2. w[i] = window[i - k] /\ w[j] = window[j - k]
      BY <1>14, <2>4, <3>1
    <3>3. QED
      BY <1>1, <1>18, <2>1, <3>1, <3>2 DEF InOrder
  <2>5. QED
    BY <2>2, <2>3, <2>4
<1>19. QED
  BY <1>14, <1>15, <1>16, <1>17, <1>18

-----------------------------------------------------------------------------
(* The queues *)

LEMMA RequestFacts ==
    /\ [kind |-> "join"] \in Requests /\ [kind |-> "leave"] \in Requests
    /\ \A m \in Message : [kind |-> "history", before |-> m] \in Requests
    /\ \A r \in Requests : /\ r.kind \in {"join", "leave", "history"}
                           /\ r.kind = "history" => r.before \in Message
BY DEF Requests

LEMMA EventFacts ==
    /\ \A kind \in {"notice", "left", "error"} : [kind |-> kind] \in Events
    /\ \A m \in Message : [kind |-> "chat", message |-> m] \in Events
    /\ \A h \in Seq(Message) : [kind |-> "joined", history |-> h] \in Events
    /\ \A p \in Seq(Message), more \in BOOLEAN : [kind |-> "page", messages |-> p, more |-> more] \in Events
    /\ \A e \in Events : /\ e.kind \in {"notice", "left", "error", "chat", "joined", "page"}
                         /\ e.kind = "chat" => e.message \in Message
                         /\ e.kind = "joined" => e.history \in Seq(Message)
                         /\ e.kind = "page" => e.messages \in Seq(Message) /\ e.more \in BOOLEAN
BY DEF Events

LEMMA Taken ==
    ASSUME NEW S, NEW s \in Seq(S), s # <<>>, NEW t, t = Tail(s)
    PROVE  /\ t \in Seq(S) /\ Len(t) < Len(s)
           /\ Head(s) = s[1] /\ Head(s) \in S /\ 1 \in DOMAIN s
           /\ \A i \in DOMAIN t : i + 1 \in DOMAIN s /\ t[i] = s[i + 1] /\ 1 < i + 1
           /\ \A i \in DOMAIN s : i = 1 \/ (i - 1 \in DOMAIN t /\ t[i - 1] = s[i])
           /\ DOMAIN s \subseteq Nat /\ DOMAIN t \subseteq Nat
<1>1. PICK n \in Nat : n = Len(s) /\ DOMAIN s = 1..n
  OBVIOUS
<1>2. n # 0
  BY <1>1
<1>3. /\ t \in Seq(S) /\ Len(t) = n - 1
      /\ \A i \in 1..(n - 1) : t[i] = s[i + 1]
  BY <1>1, <1>2, HeadTailProperties
<1>4. DOMAIN t = 1..(n - 1)
  BY <1>3
<1>5. Head(s) = s[1] /\ Head(s) \in S /\ 1 \in DOMAIN s
  BY <1>1, <1>2
<1>6. \A i \in DOMAIN t : i + 1 \in DOMAIN s /\ t[i] = s[i + 1] /\ 1 < i + 1
  BY <1>1, <1>3, <1>4
<1>7. ASSUME NEW i \in DOMAIN s, i # 1 PROVE i - 1 \in DOMAIN t /\ t[i - 1] = s[i]
  <2>1. i - 1 \in 1..(n - 1) /\ (i - 1) + 1 = i
    BY <1>1, <1>7
  <2>2. QED
    BY <1>3, <1>4, <2>1
<1>8. Len(t) < Len(s)
  BY <1>1, <1>3
<1>9. DOMAIN s \subseteq Nat /\ DOMAIN t \subseteq Nat
  BY <1>1, <1>4
<1>10. QED
  BY <1>3, <1>5, <1>6, <1>7, <1>8, <1>9

LEMMA Added ==
    ASSUME NEW S, NEW s \in Seq(S), NEW x \in S, NEW t, t = Append(s, x)
    PROVE  \E last \in Nat :
             /\ t \in Seq(S) /\ Len(t) = last /\ Len(s) < last
             /\ last \in DOMAIN t /\ t[last] = x
             /\ \A i \in DOMAIN s : i \in DOMAIN t /\ t[i] = s[i] /\ i < last
             /\ \A i \in DOMAIN t : i = last \/ (i \in DOMAIN s /\ i < last)
             /\ DOMAIN t \subseteq Nat
<1>1. PICK n \in Nat : n = Len(s) /\ DOMAIN s = 1..n
  OBVIOUS
<1>2. /\ t \in Seq(S) /\ Len(t) = n + 1
      /\ \A i \in 1..n : t[i] = s[i]
      /\ t[n + 1] = x
  BY <1>1, AppendProperties
<1>3. DOMAIN t = 1..(n + 1)
  BY <1>2
<1>4. \A i \in 1..(n + 1) : i = n + 1 \/ (i \in 1..n /\ i < n + 1)
  OBVIOUS
<1>5. n + 1 \in DOMAIN t /\ n < n + 1 /\ n + 1 \in Nat /\ \A i \in 1..n : i \in 1..(n + 1) /\ i < n + 1
  BY <1>3
<1>6. QED
  BY <1>1, <1>2, <1>3, <1>4, <1>5

\* The messages in a queue, each by itself
InQueue(s) == {m \in Message : \E i \in DOMAIN s : IsMessage(s[i], m)}

\* The messages an event brings
Carried(event) ==
    {m \in Message : \/ IsMessage(event, m)
                     \/ event.kind = "joined" /\ m \in ToSet(event.history)
                     \/ event.kind = "page" /\ m \in ToSet(event.messages)}

IsKnown(event, newest) ==
    /\ Carried(event) \subseteq 1..newest
    /\ event.kind = "joined" => GoodHistory(event.history, newest)
AllKnown(s, newest) == \A i \in DOMAIN s : IsKnown(s[i], newest)

\* A live message is newer than what is shown and what was sent before it.
NewerThan(event, shown) == \A m \in Message : IsMessage(event, m) => \A x \in shown : x < m
Newer(s, shown) ==
    \A i \in DOMAIN s :
        /\ NewerThan(s[i], shown)
        /\ \A j \in DOMAIN s : j < i => NewerThan(s[i], Carried(s[j]))

LEMMA TakenEvents ==
    ASSUME NEW s \in Seq(Events), s # <<>>, NEW t, t = Tail(s), NEW newest, NEW shown
    PROVE  /\ InQueue(t) \subseteq InQueue(s)
           /\ \A m \in InQueue(s) : m \in InQueue(t) \/ IsMessage(Head(s), m)
           /\ AllKnown(s, newest) => IsKnown(Head(s), newest) /\ AllKnown(t, newest)
           /\ Newer(s, shown) => NewerThan(Head(s), shown) /\ Newer(t, shown \cup Carried(Head(s)))
<1>1. /\ Head(s) = s[1] /\ 1 \in DOMAIN s
      /\ \A i \in DOMAIN t : i + 1 \in DOMAIN s /\ t[i] = s[i + 1] /\ 1 < i + 1
      /\ \A i \in DOMAIN s : i = 1 \/ (i - 1 \in DOMAIN t /\ t[i - 1] = s[i])
      /\ DOMAIN t \subseteq Nat
  BY Taken
<1>2. InQueue(t) \subseteq InQueue(s)
  BY <1>1 DEF InQueue
<1>3. \A m \in InQueue(s) : m \in InQueue(t) \/ IsMessage(Head(s), m)
  BY <1>1 DEF InQueue
<1>4. AllKnown(s, newest) => IsKnown(Head(s), newest) /\ AllKnown(t, newest)
  BY <1>1 DEF AllKnown
<1>5. ASSUME Newer(s, shown) PROVE NewerThan(Head(s), shown) /\ Newer(t, shown \cup Carried(Head(s)))
  <2>1. NewerThan(Head(s), shown)
    BY <1>1, <1>5 DEF Newer
  <2>2. ASSUME NEW i \in DOMAIN t PROVE NewerThan(t[i], shown \cup Carried(Head(s)))
    <3>1. NewerThan(t[i], shown) /\ NewerThan(t[i], Carried(Head(s)))
      BY <1>1, <1>5 DEF Newer
    <3>2. QED
      BY <3>1 DEF NewerThan
  <2>3. ASSUME NEW i \in DOMAIN t, NEW j \in DOMAIN t, j < i PROVE NewerThan(t[i], Carried(t[j]))
    <3>1. i \in Nat /\ j \in Nat
      BY <1>1
    <3>2. j + 1 < i + 1
      BY <2>3, <3>1
    <3>3. QED
      BY <1>1, <1>5, <3>2 DEF Newer
  <2>4. QED
    BY <2>1, <2>2, <2>3 DEF Newer
<1>6. QED
  BY <1>2, <1>3, <1>4, <1>5

LEMMA AddedEvents ==
    ASSUME NEW s \in Seq(Events), NEW event \in Events, NEW t, t = Append(s, event), NEW newest, NEW shown
    PROVE  /\ InQueue(s) \subseteq InQueue(t)
           /\ \A m \in InQueue(t) : m \in InQueue(s) \/ IsMessage(event, m)
           /\ \A m \in Message : IsMessage(event, m) => m \in InQueue(t)
           /\ AllKnown(s, newest) /\ IsKnown(event, newest) => AllKnown(t, newest)
           /\ Newer(s, shown) /\ NewerThan(event, shown)
                /\ (\A i \in DOMAIN s : NewerThan(event, Carried(s[i]))) => Newer(t, shown)
<1>1. PICK last \in Nat :
             /\ last \in DOMAIN t /\ t[last] = event
             /\ \A i \in DOMAIN s : i \in DOMAIN t /\ t[i] = s[i] /\ i < last
             /\ \A i \in DOMAIN t : i = last \/ (i \in DOMAIN s /\ i < last)
             /\ DOMAIN t \subseteq Nat
  BY Added
<1>2. InQueue(s) \subseteq InQueue(t)
  BY <1>1 DEF InQueue
<1>3. \A m \in InQueue(t) : m \in InQueue(s) \/ IsMessage(event, m)
  BY <1>1 DEF InQueue
<1>4. \A m \in Message : IsMessage(event, m) => m \in InQueue(t)
  BY <1>1 DEF InQueue
<1>5. AllKnown(s, newest) /\ IsKnown(event, newest) => AllKnown(t, newest)
  BY <1>1 DEF AllKnown
<1>6. ASSUME Newer(s, shown), NewerThan(event, shown), \A i \in DOMAIN s : NewerThan(event, Carried(s[i]))
      PROVE  Newer(t, shown)
  <2>1. ASSUME NEW i \in DOMAIN t PROVE NewerThan(t[i], shown)
    BY <1>1, <1>6 DEF Newer
  <2>2. ASSUME NEW i \in DOMAIN t, NEW j \in DOMAIN t, j < i PROVE NewerThan(t[i], Carried(t[j]))
    <3>1. i \in Nat /\ j \in Nat
      BY <1>1
    <3>2. j # last
      <4>1. i = last \/ i < last
        BY <1>1
      <4>2. QED
        BY <2>2, <3>1, <4>1
    <3>3. j \in DOMAIN s /\ t[j] = s[j]
      BY <1>1, <3>2
    <3>4. i = last \/ (i \in DOMAIN s /\ t[i] = s[i])
      BY <1>1
    <3>5. QED
      BY <1>1, <1>6, <2>2, <3>3, <3>4 DEF Newer
  <2>3. QED
    BY <2>1, <2>2 DEF Newer
<1>7. QED
  BY <1>2, <1>3, <1>4, <1>5, <1>6

LEMMA NewerIs ==
    ASSUME NEW s, NEW shown, Newer(s, shown)
    PROVE  /\ \A m \in InQueue(s), x \in shown : x < m
           /\ \A less \in SUBSET shown : Newer(s, less)
BY DEF Newer, NewerThan, InQueue

\* What is known stays known.
LEMMA KnownIs ==
    ASSUME NEW newest \in Nat, NEW later \in Nat, newest <= later
    PROVE  /\ 1..newest \subseteq 1..later
           /\ \A h : GoodHistory(h, newest) => GoodHistory(h, later)
           /\ \A s : AllKnown(s, newest) => AllKnown(s, later)
<1>1. 1..newest \subseteq 1..later
  OBVIOUS
<1>2. \A h : GoodHistory(h, newest) => GoodHistory(h, later)
  BY <1>1 DEF GoodHistory
<1>3. \A s : AllKnown(s, newest) => AllKnown(s, later)
  BY <1>1, <1>2 DEF AllKnown, IsKnown
<1>4. QED
  BY <1>1, <1>2, <1>3

-----------------------------------------------------------------------------
(* What waits for a page *)

Waits(x) == x.kind \in {"history", "page"}
NoneWaits(s) == \A i \in DOMAIN s : ~Waits(s[i])
AtMostOne(s) == \A i, j \in DOMAIN s : Waits(s[i]) /\ Waits(s[j]) => i = j

\* It is for the window that starts with this message.
Fits(x, first) ==
    /\ x.kind = "history" => x.before = first
    /\ x.kind = "page" => PageFits(x, first)
AllFit(s, first) == \A i \in DOMAIN s : Fits(s[i], first)

LEMMA TakenWaits ==
    ASSUME NEW S, NEW s \in Seq(S), s # <<>>, NEW t, t = Tail(s), NEW first
    PROVE  /\ AtMostOne(s) => AtMostOne(t) /\ (Waits(Head(s)) => NoneWaits(t))
           /\ NoneWaits(s) => NoneWaits(t) /\ ~Waits(Head(s))
           /\ ~NoneWaits(t) => ~NoneWaits(s)
           /\ AllFit(s, first) => AllFit(t, first) /\ Fits(Head(s), first)
<1>1. /\ Head(s) = s[1] /\ 1 \in DOMAIN s
      /\ \A i \in DOMAIN t : i + 1 \in DOMAIN s /\ t[i] = s[i + 1] /\ 1 < i + 1
      /\ DOMAIN s \subseteq Nat /\ DOMAIN t \subseteq Nat
  BY Taken
<1>2. ASSUME AtMostOne(s) PROVE AtMostOne(t) /\ (Waits(Head(s)) => NoneWaits(t))
  <2>1. ASSUME NEW i \in DOMAIN t, NEW j \in DOMAIN t, Waits(t[i]), Waits(t[j]) PROVE i = j
    <3>1. i + 1 = j + 1
      BY <1>1, <1>2, <2>1 DEF AtMostOne
    <3>2. i \in Nat /\ j \in Nat
      BY <1>1
    <3>3. QED
      BY <3>1, <3>2
  <2>2. ASSUME Waits(Head(s)), NEW i \in DOMAIN t, Waits(t[i]) PROVE FALSE
    <3>1. 1 = i + 1
      BY <1>1, <1>2, <2>2 DEF AtMostOne
    <3>2. i \in Nat /\ 1 < i + 1
      BY <1>1
    <3>3. QED
      BY <3>1, <3>2
  <2>3. QED
    BY <2>1, <2>2 DEF AtMostOne, NoneWaits
<1>3. (NoneWaits(s) => NoneWaits(t) /\ ~Waits(Head(s))) /\ (~NoneWaits(t) => ~NoneWaits(s))
  BY <1>1 DEF NoneWaits
<1>4. AllFit(s, first) => AllFit(t, first) /\ Fits(Head(s), first)
  BY <1>1 DEF AllFit
<1>5. QED
  BY <1>2, <1>3, <1>4

LEMMA AddedWaits ==
    ASSUME NEW S, NEW s \in Seq(S), NEW x \in S, NEW t, t = Append(s, x), NEW first
    PROVE  /\ AtMostOne(s) /\ (Waits(x) => NoneWaits(s)) => AtMostOne(t)
           /\ ~Waits(x) => (NoneWaits(t) <=> NoneWaits(s))
           /\ AllFit(s, first) /\ Fits(x, first) => AllFit(t, first)
<1>1. PICK last \in Nat :
             /\ last \in DOMAIN t /\ t[last] = x
             /\ \A i \in DOMAIN s : i \in DOMAIN t /\ t[i] = s[i] /\ i < last
             /\ \A i \in DOMAIN t : i = last \/ (i \in DOMAIN s /\ i < last)
  BY Added
<1>2. AtMostOne(s) /\ (Waits(x) => NoneWaits(s)) => AtMostOne(t)
  BY <1>1 DEF AtMostOne, NoneWaits
<1>3. ~Waits(x) => (NoneWaits(t) <=> NoneWaits(s))
  BY <1>1 DEF NoneWaits
<1>4. AllFit(s, first) /\ Fits(x, first) => AllFit(t, first)
  BY <1>1 DEF AllFit
<1>5. QED
  BY <1>2, <1>3, <1>4

LEMMA WaitsIs ==
    ASSUME NEW requests \in Seq(Requests), NEW events \in Seq(Events)
    PROVE  /\ AwaitedIn(requests, events) <=> ~(NoneWaits(requests) /\ NoneWaits(events))
           /\ NoneWaits(requests) => AtMostOne(requests)
           /\ NoneWaits(events) => AtMostOne(events)
<1>1. \A i \in DOMAIN requests : Waits(requests[i]) <=> requests[i].kind = "history"
  <2>1. \A i \in DOMAIN requests : requests[i] \in Requests
    OBVIOUS
  <2>2. QED
    BY <2>1, RequestFacts DEF Waits
<1>2. \A i \in DOMAIN events : Waits(events[i]) <=> events[i].kind = "page"
  <2>1. \A i \in DOMAIN events : events[i] \in Events
    OBVIOUS
  <2>2. QED
    BY <2>1, EventFacts DEF Waits
<1>3. AwaitedIn(requests, events) <=> ~(NoneWaits(requests) /\ NoneWaits(events))
  BY <1>1, <1>2 DEF AwaitedIn, NoneWaits
<1>4. (NoneWaits(requests) => AtMostOne(requests)) /\ (NoneWaits(events) => AtMostOne(events))
  BY DEF AtMostOne, NoneWaits
<1>5. QED
  BY <1>3, <1>4

-----------------------------------------------------------------------------
(* The inductive invariant *)

NothingAskedAfter(requests, newest) ==
    \A i \in DOMAIN requests : requests[i].kind = "history" => requests[i].before <= newest

AllStored ==
    /\ Shown(items) \subseteq 1..log
    /\ AllKnown(down, log)
    /\ NothingAskedAfter(up, log)
    /\ joining.on => GoodHistory(joining.history, log)

LiveIsNewer == Newer(down, Shown(items))

\* As long as the window keeps its first message, one page at most is on its way,
\* and it is for this window.
AskedHere ==
    ~moved =>
        /\ AtMostOne(up) /\ AtMostOne(down) /\ (NoneWaits(up) \/ NoneWaits(down))
        /\ ~(NoneWaits(up) /\ NoneWaits(down)) =>
               /\ loading /\ HasChat(items)
               /\ AllFit(up, FirstChat(items)) /\ AllFit(down, FirstChat(items))

Accounted == Shown(items) \cup InQueue(down) \cup lost

\* After a message in the queue, in the window or at its start, none is missing.
QueueGoesOn == \A x \in InQueue(down), m \in 1..log : x < m => m \in InQueue(down) \cup lost
WindowGoesOn == ~Torn => InOrder(items) /\ \A x \in Shown(items), m \in 1..log : x < m => m \in Accounted
NothingOlder == ~has_more /\ fate \cap {"cut", "torn"} = {} => 1..log \subseteq Accounted

IInv ==
    /\ TypeOK /\ WindowBound
    /\ AllStored /\ LiveIsNewer
    /\ AskedHere
    /\ QueueGoesOn /\ WindowGoesOn /\ NothingOlder

-----------------------------------------------------------------------------
(* What goes into a queue and what comes out *)

LEMMA QueuesTyped ==
    ASSUME TypeOK
    PROVE  /\ up \in Seq(Requests) /\ Len(up) \in Nat /\ Len(up) <= QueueCapacity
           /\ down \in Seq(Events) /\ Len(down) \in Nat /\ Len(down) <= QueueCapacity
           /\ items \in Seq(Item) /\ Len(items) \in Nat
           /\ log \in 0..MaxLog /\ log \in Nat
           /\ QueueCapacity \in Nat
<1>1. up \in Seq(Requests) /\ Len(up) <= QueueCapacity /\ down \in Seq(Events) /\ Len(down) <= QueueCapacity
  BY DEF TypeOK
<1>2. items \in Seq(Item)
  <2>1. items \in Seq(Message \cup {NoticeItem})
    BY DEF TypeOK
  <2>2. Item = Message \cup {NoticeItem}
    BY DEF Item
  <2>3. QED
    BY <2>1, <2>2
<1>3. log \in 0..MaxLog /\ log \in Nat
  <2>1. log \in 0..MaxLog
    BY DEF TypeOK
  <2>2. QED
    BY <2>1, BoundsTyped
<1>4. QueueCapacity \in Nat
  BY BoundsTyped
<1>5. Len(up) \in Nat /\ Len(down) \in Nat /\ Len(items) \in Nat
  BY <1>1, <1>2
<1>6. QED
  BY <1>1, <1>2, <1>3, <1>4, <1>5

LEMMA SentIs ==
    ASSUME TypeOK, NEW event \in Events, Sends(event), NEW newest, NEW shown, NEW first
    PROVE  /\ down' \in Seq(Events) /\ Len(down') <= QueueCapacity
           /\ InQueue(down) \subseteq InQueue(down')
           /\ \A m \in InQueue(down') : m \in InQueue(down) \/ IsMessage(event, m)
           /\ RoomInQueue => \A m \in Message : IsMessage(event, m) => m \in InQueue(down')
           /\ AllKnown(down, newest) /\ IsKnown(event, newest) => AllKnown(down', newest)
           /\ Newer(down, shown) /\ NewerThan(event, shown)
                /\ (\A i \in DOMAIN down : NewerThan(event, Carried(down[i]))) => Newer(down', shown)
           /\ AtMostOne(down) /\ (Waits(event) => NoneWaits(down)) => AtMostOne(down')
           /\ ~Waits(event) => (NoneWaits(down') <=> NoneWaits(down))
           /\ AllFit(down, first) /\ Fits(event, first) => AllFit(down', first)
<1>1. /\ down \in Seq(Events) /\ Len(down) \in Nat /\ Len(down) <= QueueCapacity
      /\ QueueCapacity \in Nat
  BY QueuesTyped
<1>2. CASE RoomInQueue
  <2>1. down' = Append(down, event)
    BY <1>2 DEF Sends
  <2>2. Len(down) < QueueCapacity
    BY <1>2 DEF RoomInQueue
  <2>3. down' \in Seq(Events) /\ Len(down') = Len(down) + 1
    BY <1>1, <2>1, AppendProperties
  <2>4. Len(down') <= QueueCapacity
    BY <1>1, <2>2, <2>3
  <2>5. /\ InQueue(down) \subseteq InQueue(down')
        /\ \A m \in InQueue(down') : m \in InQueue(down) \/ IsMessage(event, m)
        /\ \A m \in Message : IsMessage(event, m) => m \in InQueue(down')
        /\ AllKnown(down, newest) /\ IsKnown(event, newest) => AllKnown(down', newest)
        /\ Newer(down, shown) /\ NewerThan(event, shown)
             /\ (\A i \in DOMAIN down : NewerThan(event, Carried(down[i]))) => Newer(down', shown)
    BY <1>1, <2>1, AddedEvents
  <2>6. /\ AtMostOne(down) /\ (Waits(event) => NoneWaits(down)) => AtMostOne(down')
        /\ ~Waits(event) => (NoneWaits(down') <=> NoneWaits(down))
        /\ AllFit(down, first) /\ Fits(event, first) => AllFit(down', first)
    BY <1>1, <2>1, AddedWaits
  <2>7. QED
    BY <2>3, <2>4, <2>5, <2>6
<1>3. CASE ~RoomInQueue
  <2>1. down' = down
    BY <1>3 DEF Sends
  <2>2. QED
    BY <1>1, <1>3, <2>1
<1>4. QED
  BY <1>2, <1>3

\* An event that is no message changes nothing for the messages.
LEMMA OtherSent ==
    ASSUME TypeOK, NEW event \in Events, event.kind # "chat", Sends(event), NEW shown
    PROVE  InQueue(down') = InQueue(down) /\ (Newer(down, shown) => Newer(down', shown))
<1>1. \A m : ~IsMessage(event, m)
  BY DEF IsMessage
<1>2. \A other : NewerThan(event, other)
  BY <1>1 DEF NewerThan
<1>3. /\ InQueue(down) \subseteq InQueue(down')
      /\ \A m \in InQueue(down') : m \in InQueue(down) \/ IsMessage(event, m)
      /\ Newer(down, shown) /\ NewerThan(event, shown)
             /\ (\A i \in DOMAIN down : NewerThan(event, Carried(down[i]))) => Newer(down', shown)
  BY SentIs
<1>4. QED
  BY <1>1, <1>2, <1>3

LEMMA TakesIs ==
    ASSUME TypeOK, NEW kind, Takes(kind), NEW newest, NEW first
    PROVE  /\ up' \in Seq(Requests) /\ Len(up') <= QueueCapacity
           /\ Head(up) \in Requests /\ Head(up).kind = kind
           /\ NothingAskedAfter(up, newest) =>
                NothingAskedAfter(up', newest) /\ (kind = "history" => Head(up).before <= newest)
           /\ AtMostOne(up) => AtMostOne(up') /\ (Waits(Head(up)) => NoneWaits(up'))
           /\ NoneWaits(up) => NoneWaits(up') /\ ~Waits(Head(up))
           /\ AllFit(up, first) => AllFit(up', first) /\ Fits(Head(up), first)
<1>1. up \in Seq(Requests) /\ up # <<>> /\ up' = Tail(up) /\ Head(up).kind = kind
  BY QueuesTyped DEF Takes
<1>2. Len(up) \in Nat /\ Len(up) <= QueueCapacity /\ QueueCapacity \in Nat
  BY QueuesTyped
<1>3. /\ up' \in Seq(Requests) /\ Len(up') < Len(up)
      /\ Head(up) = up[1] /\ Head(up) \in Requests /\ 1 \in DOMAIN up
      /\ \A i \in DOMAIN up' : i + 1 \in DOMAIN up /\ up'[i] = up[i + 1]
  BY <1>1, Taken
<1>4. Len(up') <= QueueCapacity
  <2>1. Len(up') \in Nat
    BY <1>3
  <2>2. QED
    BY <1>2, <1>3, <2>1
<1>5. NothingAskedAfter(up, newest) =>
         NothingAskedAfter(up', newest) /\ (kind = "history" => Head(up).before <= newest)
  BY <1>1, <1>3 DEF NothingAskedAfter
<1>6. /\ AtMostOne(up) => AtMostOne(up') /\ (Waits(Head(up)) => NoneWaits(up'))
      /\ NoneWaits(up) => NoneWaits(up') /\ ~Waits(Head(up))
      /\ AllFit(up, first) => AllFit(up', first) /\ Fits(Head(up), first)
  BY <1>1, TakenWaits
<1>7. QED
  BY <1>1, <1>3, <1>4, <1>5, <1>6

LEMMA AsksIs ==
    ASSUME TypeOK, NEW request \in Requests, Asks(request), NEW newest, NEW first
    PROVE  /\ up' \in Seq(Requests) /\ Len(up') <= QueueCapacity
           /\ NothingAskedAfter(up, newest) /\ (request.kind = "history" => request.before <= newest)
                => NothingAskedAfter(up', newest)
           /\ AtMostOne(up) /\ (Waits(request) => NoneWaits(up)) => AtMostOne(up')
           /\ ~Waits(request) => (NoneWaits(up') <=> NoneWaits(up))
           /\ AllFit(up, first) /\ Fits(request, first) => AllFit(up', first)
<1>1. up \in Seq(Requests) /\ Len(up) \in Nat /\ Len(up) <= QueueCapacity /\ QueueCapacity \in Nat
  BY QueuesTyped
<1>2. CASE Len(up) < QueueCapacity
  <2>1. up' = Append(up, request)
    BY <1>2 DEF Asks
  <2>2. up' \in Seq(Requests) /\ Len(up') = Len(up) + 1
    BY <1>1, <2>1, AppendProperties
  <2>3. Len(up') <= QueueCapacity
    BY <1>1, <1>2, <2>2
  <2>4. PICK last \in Nat :
          /\ up'[last] = request
          /\ \A i \in DOMAIN up : up'[i] = up[i]
          /\ \A i \in DOMAIN up' : i = last \/ i \in DOMAIN up
    BY <1>1, <2>1, Added
  <2>5. NothingAskedAfter(up, newest) /\ (request.kind = "history" => request.before <= newest)
          => NothingAskedAfter(up', newest)
    BY <2>4 DEF NothingAskedAfter
  <2>6. /\ AtMostOne(up) /\ (Waits(request) => NoneWaits(up)) => AtMostOne(up')
        /\ ~Waits(request) => (NoneWaits(up') <=> NoneWaits(up))
        /\ AllFit(up, first) /\ Fits(request, first) => AllFit(up', first)
    BY <1>1, <2>1, AddedWaits
  <2>7. QED
    BY <2>2, <2>3, <2>5, <2>6
<1>3. CASE ~(Len(up) < QueueCapacity)
  <2>1. up' = up
    BY <1>3 DEF Asks
  <2>2. QED
    BY <1>1, <2>1
<1>4. QED
  BY <1>2, <1>3

LEMMA ReceivesIs ==
    ASSUME TypeOK, NEW kind, Receives(kind), NEW newest, NEW shown, NEW first
    PROVE  /\ down' \in Seq(Events) /\ Len(down') <= QueueCapacity
           /\ Head(down) \in Events /\ Head(down).kind = kind /\ down # <<>> /\ down' = Tail(down)
           /\ InQueue(down') \subseteq InQueue(down)
           /\ \A m \in InQueue(down) : m \in InQueue(down') \/ IsMessage(Head(down), m)
           /\ AllKnown(down, newest) => IsKnown(Head(down), newest) /\ AllKnown(down', newest)
           /\ Newer(down, shown) =>
                NewerThan(Head(down), shown) /\ Newer(down', shown \cup Carried(Head(down)))
           /\ AtMostOne(down) => AtMostOne(down') /\ (Waits(Head(down)) => NoneWaits(down'))
           /\ NoneWaits(down) => NoneWaits(down') /\ ~Waits(Head(down))
           /\ AllFit(down, first) => AllFit(down', first) /\ Fits(Head(down), first)
<1>1. down \in Seq(Events) /\ down # <<>> /\ down' = Tail(down) /\ Head(down).kind = kind
  BY QueuesTyped DEF Receives
<1>2. Len(down) \in Nat /\ Len(down) <= QueueCapacity /\ QueueCapacity \in Nat
  BY QueuesTyped
<1>3. down' \in Seq(Events) /\ Len(down') < Len(down) /\ Head(down) \in Events
  BY <1>1, Taken
<1>4. Len(down') <= QueueCapacity
  <2>1. Len(down') \in Nat
    BY <1>3
  <2>2. QED
    BY <1>2, <1>3, <2>1
<1>5. /\ InQueue(down') \subseteq InQueue(down)
      /\ \A m \in InQueue(down) : m \in InQueue(down') \/ IsMessage(Head(down), m)
      /\ AllKnown(down, newest) => IsKnown(Head(down), newest) /\ AllKnown(down', newest)
      /\ Newer(down, shown) =>
           NewerThan(Head(down), shown) /\ Newer(down', shown \cup Carried(Head(down)))
  BY <1>1, TakenEvents
<1>6. /\ AtMostOne(down) => AtMostOne(down') /\ (Waits(Head(down)) => NoneWaits(down'))
      /\ NoneWaits(down) => NoneWaits(down') /\ ~Waits(Head(down))
      /\ AllFit(down, first) => AllFit(down', first) /\ Fits(Head(down), first)
  BY <1>1, TakenWaits
<1>7. QED
  BY <1>1, <1>3, <1>4, <1>5, <1>6

\* An event that is no message is no loss for the messages.
LEMMA OtherReceived ==
    ASSUME TypeOK, NEW kind, kind # "chat", Receives(kind), NEW shown
    PROVE  InQueue(down') = InQueue(down) /\ (Newer(down, shown) => Newer(down', shown))
<1>1. Head(down).kind = kind
  BY ReceivesIs
<1>2. \A m : ~IsMessage(Head(down), m)
  BY <1>1 DEF IsMessage
<1>3. /\ InQueue(down') \subseteq InQueue(down)
      /\ \A m \in InQueue(down) : m \in InQueue(down') \/ IsMessage(Head(down), m)
      /\ Newer(down, shown) => Newer(down', shown \cup Carried(Head(down)))
  BY ReceivesIs
<1>4. shown \in SUBSET (shown \cup Carried(Head(down)))
  OBVIOUS
<1>5. QED
  BY <1>2, <1>3, <1>4, NewerIs

-----------------------------------------------------------------------------
(* Steps that leave the messages and the window alone *)

LEMMA TypedOnce ==
    ASSUME TypeOK
    PROVE  /\ notices \in 0..MaxNotices
           /\ calm \in BOOLEAN /\ general \in BOOLEAN /\ inRoom \in BOOLEAN /\ joined \in BOOLEAN
           /\ has_more \in BOOLEAN /\ loading \in BOOLEAN /\ moved \in BOOLEAN
           /\ joining \in {NotJoining} \cup [on : {TRUE}, history : Seq(Message)]
           /\ lost \in SUBSET Message /\ fate \in SUBSET Fates
           /\ stuck \in {"no", "queue full", "refused", "answer lost"}
BY DEF TypeOK

LEMMA TypedAgain ==
    ASSUME log' \in 0..MaxLog, notices' \in 0..MaxNotices,
           calm' \in BOOLEAN, general' \in BOOLEAN, inRoom' \in BOOLEAN, joined' \in BOOLEAN,
           has_more' \in BOOLEAN, loading' \in BOOLEAN, moved' \in BOOLEAN,
           joining' \in {NotJoining} \cup [on : {TRUE}, history : Seq(Message)],
           up' \in Seq(Requests), Len(up') <= QueueCapacity,
           down' \in Seq(Events), Len(down') <= QueueCapacity,
           items' \in Seq(Item), lost' \in SUBSET Message, fate' \in SUBSET Fates,
           stuck' \in {"no", "queue full", "refused", "answer lost"}
    PROVE  TypeOK'
<1>1. items' \in Seq(Message \cup {NoticeItem})
  <2>1. Item = Message \cup {NoticeItem}
    BY DEF Item
  <2>2. QED
    BY <2>1
<1>2. QED
  BY <1>1 DEF TypeOK

LEMMA AskedStays ==
    ASSUME AskedHere, items' = items, loading' = loading, moved' = moved,
           AtMostOne(up) => AtMostOne(up'), AtMostOne(down) => AtMostOne(down'),
           NoneWaits(up) => NoneWaits(up'), NoneWaits(down) => NoneWaits(down'),
           AllFit(up, FirstChat(items)) => AllFit(up', FirstChat(items)),
           AllFit(down, FirstChat(items)) => AllFit(down', FirstChat(items))
    PROVE  AskedHere'
BY DEF AskedHere

LEMMA QuietKeeps ==
    ASSUME IInv, TypeOK', AskedHere',
           UNCHANGED <<log, items, has_more, lost, fate>>,
           InQueue(down') = InQueue(down), AllKnown(down', log), NothingAskedAfter(up', log),
           joining'.on => GoodHistory(joining'.history, log),
           Newer(down', Shown(items))
    PROVE  IInv'
<1>1. WindowBound'
  BY DEF IInv, WindowBound
<1>2. AllStored'
  BY DEF IInv, AllStored
<1>3. LiveIsNewer'
  BY DEF LiveIsNewer
<1>4. Accounted' = Accounted
  BY DEF Accounted
<1>5. QueueGoesOn'
  BY DEF IInv, QueueGoesOn
<1>6. WindowGoesOn'
  BY <1>4 DEF IInv, WindowGoesOn, Torn
<1>7. NothingOlder'
  BY <1>4 DEF IInv, NothingOlder
<1>8. QED
  BY <1>1, <1>2, <1>3, <1>5, <1>6, <1>7 DEF IInv


LEMMA IdleSent ==
    ASSUME IInv, NEW event \in Events, Sends(event),
           event.kind \notin {"chat", "page"},
           event.kind = "joined" => GoodHistory(event.history, log)
    PROVE  /\ down' \in Seq(Events) /\ Len(down') <= QueueCapacity
           /\ InQueue(down') = InQueue(down) /\ AllKnown(down', log) /\ Newer(down', Shown(items))
           /\ AtMostOne(down) => AtMostOne(down')
           /\ NoneWaits(down) => NoneWaits(down')
           /\ AllFit(down, FirstChat(items)) => AllFit(down', FirstChat(items))
<1>1. TypeOK /\ AllKnown(down, log) /\ Newer(down, Shown(items))
  BY DEF IInv, AllStored, LiveIsNewer
<1>2. event.kind \in {"notice", "left", "error", "joined"}
  BY EventFacts
<1>3. ~Waits(event) /\ \A first : Fits(event, first)
  BY <1>2, EventFacts DEF Waits, Fits
<1>4. IsKnown(event, log)
  <2>1. \A m \in Carried(event) : event.kind = "joined" /\ m \in ToSet(event.history)
    BY <1>2 DEF Carried, IsMessage
  <2>2. Carried(event) \subseteq 1..log
    BY <2>1 DEF GoodHistory
  <2>3. QED
    BY <2>2 DEF IsKnown
<1>5. InQueue(down') = InQueue(down) /\ Newer(down', Shown(items))
  BY <1>1, <1>2, OtherSent
<1>6. /\ down' \in Seq(Events) /\ Len(down') <= QueueCapacity
      /\ AllKnown(down', log)
      /\ AtMostOne(down) => AtMostOne(down')
      /\ NoneWaits(down') <=> NoneWaits(down)
      /\ AllFit(down, FirstChat(items)) => AllFit(down', FirstChat(items))
  BY <1>1, <1>3, <1>4, SentIs
<1>7. QED
  BY <1>5, <1>6

LEMMA IdleReceived ==
    ASSUME IInv, NEW kind \in {"left", "error"}, Receives(kind)
    PROVE  /\ down' \in Seq(Events) /\ Len(down') <= QueueCapacity
           /\ InQueue(down') = InQueue(down) /\ AllKnown(down', log) /\ Newer(down', Shown(items))
           /\ AtMostOne(down) => AtMostOne(down')
           /\ NoneWaits(down) => NoneWaits(down')
           /\ AllFit(down, FirstChat(items)) => AllFit(down', FirstChat(items))
<1>1. TypeOK /\ AllKnown(down, log) /\ Newer(down, Shown(items))
  BY DEF IInv, AllStored, LiveIsNewer
<1>2. InQueue(down') = InQueue(down) /\ Newer(down', Shown(items))
  BY <1>1, OtherReceived
<1>3. QED
  BY <1>1, <1>2, ReceivesIs

LEMMA SameQueue ==
    ASSUME IInv, down' = down
    PROVE  /\ down' \in Seq(Events) /\ Len(down') <= QueueCapacity
           /\ InQueue(down') = InQueue(down) /\ AllKnown(down', log) /\ Newer(down', Shown(items))
BY QueuesTyped DEF IInv, AllStored, LiveIsNewer

LEMMA TakenQuietly ==
    ASSUME IInv, NEW kind, Takes(kind)
    PROVE  /\ up' \in Seq(Requests) /\ Len(up') <= QueueCapacity /\ Head(up) \in Requests
           /\ NothingAskedAfter(up', log) /\ (kind = "history" => Head(up).before <= log)
           /\ AtMostOne(up) => AtMostOne(up')
           /\ NoneWaits(up) => NoneWaits(up')
           /\ AllFit(up, FirstChat(items)) => AllFit(up', FirstChat(items))
<1>1. TypeOK /\ NothingAskedAfter(up, log)
  BY DEF IInv, AllStored
<1>2. QED
  BY <1>1, TakesIs

LEMMA AskedQuietly ==
    ASSUME IInv, NEW request \in Requests, request.kind # "history", Asks(request)
    PROVE  /\ up' \in Seq(Requests) /\ Len(up') <= QueueCapacity
           /\ NothingAskedAfter(up', log)
           /\ AtMostOne(up) => AtMostOne(up')
           /\ NoneWaits(up) => NoneWaits(up')
           /\ AllFit(up, FirstChat(items)) => AllFit(up', FirstChat(items))
<1>1. TypeOK /\ NothingAskedAfter(up, log)
  BY DEF IInv, AllStored
<1>2. request.kind \in {"join", "leave"}
  BY RequestFacts
<1>3. ~Waits(request) /\ \A first : Fits(request, first)
  BY <1>2 DEF Waits, Fits
<1>4. QED
  BY <1>1, <1>2, <1>3, AsksIs

LEMMA NoticeKeeps == IInv /\ Notice => IInv'
<1> SUFFICES ASSUME IInv, Notice PROVE IInv'
  OBVIOUS
<1>1. TypeOK /\ AskedHere /\ NothingAskedAfter(up, log) /\ (joining.on => GoodHistory(joining.history, log))
  BY DEF IInv, AllStored
<1>2. /\ UNCHANGED <<log, calm, up, lost>> /\ UNCHANGED gateway /\ UNCHANGED view /\ UNCHANGED ghost
      /\ Sends([kind |-> "notice"]) /\ notices < MaxNotices /\ notices' = notices + 1
  BY DEF Notice
<1>3. UNCHANGED <<general, inRoom, joining, joined, items, has_more, loading, moved, fate, stuck>>
  BY <1>2 DEF gateway, view, ghost
<1>4. [kind |-> "notice"] \in Events
  BY EventFacts
<1>5. /\ down' \in Seq(Events) /\ Len(down') <= QueueCapacity
      /\ InQueue(down') = InQueue(down) /\ AllKnown(down', log) /\ Newer(down', Shown(items))
      /\ AtMostOne(down) => AtMostOne(down')
      /\ NoneWaits(down) => NoneWaits(down')
      /\ AllFit(down, FirstChat(items)) => AllFit(down', FirstChat(items))
  BY <1>2, <1>4, IdleSent
<1>6. notices' \in 0..MaxNotices
  <2>1. notices \in 0..MaxNotices
    BY <1>1, TypedOnce
  <2>2. QED
    BY <1>2, <2>1, BoundsTyped
<1>7. TypeOK'
  BY <1>1, <1>2, <1>3, <1>5, <1>6, TypedOnce, QueuesTyped, TypedAgain
<1>8. AskedHere'
  BY <1>1, <1>2, <1>3, <1>5, AskedStays
<1>9. QED
  BY <1>1, <1>2, <1>3, <1>5, <1>7, <1>8, QuietKeeps

LEMMA ReadForJoinKeeps == IInv /\ ReadForJoin => IInv'
<1> SUFFICES ASSUME IInv, ReadForJoin PROVE IInv'
  OBVIOUS
<1>1. TypeOK /\ AskedHere
  BY DEF IInv
<1>2. /\ UNCHANGED <<log, notices, calm, general, inRoom, down, lost>> /\ UNCHANGED view /\ UNCHANGED ghost
      /\ Takes("join") /\ joining' = [on |-> TRUE, history |-> History]
  BY DEF ReadForJoin
<1>3. UNCHANGED <<joined, items, has_more, loading, moved, fate, stuck>>
  BY <1>2 DEF view, ghost
<1>4. /\ up' \in Seq(Requests) /\ Len(up') <= QueueCapacity /\ NothingAskedAfter(up', log)
      /\ AtMostOne(up) => AtMostOne(up')
      /\ NoneWaits(up) => NoneWaits(up')
      /\ AllFit(up, FirstChat(items)) => AllFit(up', FirstChat(items))
  BY <1>2, TakenQuietly
<1>5. History \in Seq(Message) /\ GoodHistory(History, log)
  BY <1>1, QueuesTyped, HistoryIs
<1>6. joining' \in [on : {TRUE}, history : Seq(Message)] /\ joining'.history = History
  BY <1>2, <1>5
<1>7. /\ down' \in Seq(Events) /\ Len(down') <= QueueCapacity
      /\ InQueue(down') = InQueue(down) /\ AllKnown(down', log) /\ Newer(down', Shown(items))
  BY <1>2, SameQueue
<1>8. TypeOK'
  BY <1>1, <1>2, <1>3, <1>4, <1>6, <1>7, TypedOnce, QueuesTyped, TypedAgain
<1>9. AskedHere'
  BY <1>1, <1>2, <1>3, <1>4, AskedStays
<1>10. QED
  BY <1>2, <1>3, <1>4, <1>5, <1>6, <1>7, <1>8, <1>9, QuietKeeps

LEMMA RefuseJoinKeeps == IInv /\ RefuseJoin => IInv'
<1> SUFFICES ASSUME IInv, RefuseJoin PROVE IInv'
  OBVIOUS
<1>1. TypeOK /\ AskedHere /\ (joining.on => GoodHistory(joining.history, log))
  BY DEF IInv, AllStored
<1>2. /\ UNCHANGED <<log, notices, calm, lost>> /\ UNCHANGED gateway /\ UNCHANGED view /\ UNCHANGED ghost
      /\ Takes("join") /\ Sends([kind |-> "error"])
  BY DEF RefuseJoin
<1>3. UNCHANGED <<general, inRoom, joining, joined, items, has_more, loading, moved, fate, stuck>>
  BY <1>2 DEF gateway, view, ghost
<1>4. /\ up' \in Seq(Requests) /\ Len(up') <= QueueCapacity /\ NothingAskedAfter(up', log)
      /\ AtMostOne(up) => AtMostOne(up')
      /\ NoneWaits(up) => NoneWaits(up')
      /\ AllFit(up, FirstChat(items)) => AllFit(up', FirstChat(items))
  BY <1>2, TakenQuietly
<1>5. /\ down' \in Seq(Events) /\ Len(down') <= QueueCapacity
      /\ InQueue(down') = InQueue(down) /\ AllKnown(down', log) /\ Newer(down', Shown(items))
      /\ AtMostOne(down) => AtMostOne(down')
      /\ NoneWaits(down) => NoneWaits(down')
      /\ AllFit(down, FirstChat(items)) => AllFit(down', FirstChat(items))
  <2>1. [kind |-> "error"] \in Events
    BY EventFacts
  <2>2. QED
    BY <1>2, <2>1, IdleSent
<1>6. TypeOK'
  BY <1>1, <1>2, <1>3, <1>4, <1>5, TypedOnce, QueuesTyped, TypedAgain
<1>7. AskedHere'
  BY <1>1, <1>3, <1>4, <1>5, AskedStays
<1>8. QED
  BY <1>1, <1>2, <1>3, <1>4, <1>5, <1>6, <1>7, QuietKeeps

\* The history was read before the insertion: what came since is newer.
LEMMA InsertAndAnswerKeeps == IInv /\ InsertAndAnswer => IInv'
<1> SUFFICES ASSUME IInv, InsertAndAnswer PROVE IInv'
  OBVIOUS
<1>1. TypeOK /\ AskedHere /\ NothingAskedAfter(up, log) /\ (joining.on => GoodHistory(joining.history, log))
  BY DEF IInv, AllStored
<1>2. /\ UNCHANGED <<log, notices, calm, general, up, lost>> /\ UNCHANGED view /\ UNCHANGED ghost
      /\ joining.on /\ inRoom' = TRUE /\ joining' = NotJoining
      /\ Sends([kind |-> "joined", history |-> joining.history])
  BY DEF InsertAndAnswer
<1>3. UNCHANGED <<joined, items, has_more, loading, moved, fate, stuck>>
  BY <1>2 DEF view, ghost
<1>4. joining.history \in Seq(Message)
  <2>1. joining \in {NotJoining} \cup [on : {TRUE}, history : Seq(Message)]
    BY <1>1, TypedOnce
  <2>2. ~NotJoining.on
    BY DEF NotJoining
  <2>3. QED
    BY <1>2, <2>1, <2>2
<1>5. PICK event \in Events : event = [kind |-> "joined", history |-> joining.history]
  BY <1>4, EventFacts
<1>6. event.kind = "joined" /\ event.history = joining.history /\ Sends(event)
  BY <1>2, <1>5
<1>7. /\ down' \in Seq(Events) /\ Len(down') <= QueueCapacity
      /\ InQueue(down') = InQueue(down) /\ AllKnown(down', log) /\ Newer(down', Shown(items))
      /\ AtMostOne(down) => AtMostOne(down')
      /\ NoneWaits(down) => NoneWaits(down')
      /\ AllFit(down, FirstChat(items)) => AllFit(down', FirstChat(items))
  BY <1>1, <1>2, <1>6, IdleSent
<1>8. TypeOK'
  BY <1>1, <1>2, <1>3, <1>7, TypedOnce, QueuesTyped, TypedAgain
<1>9. ~joining'.on
  BY <1>2 DEF NotJoining
<1>10. AskedHere'
  BY <1>1, <1>2, <1>3, <1>7, AskedStays
<1>11. QED
  BY <1>1, <1>2, <1>3, <1>7, <1>8, <1>9, <1>10, QuietKeeps

LEMMA LeaveRoomKeeps == IInv /\ LeaveRoom => IInv'
<1> SUFFICES ASSUME IInv, LeaveRoom PROVE IInv'
  OBVIOUS
<1>1. TypeOK /\ AskedHere /\ (joining.on => GoodHistory(joining.history, log))
  BY DEF IInv, AllStored
<1>2. /\ UNCHANGED <<log, notices, calm, general, joining, lost>> /\ UNCHANGED view /\ UNCHANGED ghost
      /\ Takes("leave") /\ inRoom' = general
      /\ Sends([kind |-> IF general THEN "error" ELSE "left"])
  BY DEF LeaveRoom
<1>3. UNCHANGED <<joined, items, has_more, loading, moved, fate, stuck>>
  BY <1>2 DEF view, ghost
<1>4. /\ up' \in Seq(Requests) /\ Len(up') <= QueueCapacity /\ NothingAskedAfter(up', log)
      /\ AtMostOne(up) => AtMostOne(up')
      /\ NoneWaits(up) => NoneWaits(up')
      /\ AllFit(up, FirstChat(items)) => AllFit(up', FirstChat(items))
  BY <1>2, TakenQuietly
<1>5. /\ down' \in Seq(Events) /\ Len(down') <= QueueCapacity
      /\ InQueue(down') = InQueue(down) /\ AllKnown(down', log) /\ Newer(down', Shown(items))
      /\ AtMostOne(down) => AtMostOne(down')
      /\ NoneWaits(down) => NoneWaits(down')
      /\ AllFit(down, FirstChat(items)) => AllFit(down', FirstChat(items))
  <2>1. PICK kind \in {"left", "error"} : kind = IF general THEN "error" ELSE "left"
    BY Zenon
  <2>2. PICK event \in Events : event = [kind |-> kind]
    BY EventFacts
  <2>3. event.kind \in {"left", "error"} /\ Sends(event)
    BY <1>2, <2>1, <2>2
  <2>4. QED
    BY <2>3, IdleSent
<1>6. TypeOK'
  BY <1>1, <1>2, <1>3, <1>4, <1>5, TypedOnce, QueuesTyped, TypedAgain
<1>7. AskedHere'
  BY <1>1, <1>3, <1>4, <1>5, AskedStays
<1>8. QED
  BY <1>1, <1>2, <1>3, <1>4, <1>5, <1>6, <1>7, QuietKeeps

LEMMA RefuseHistoryKeeps == IInv /\ RefuseHistory => IInv'
<1> SUFFICES ASSUME IInv, RefuseHistory PROVE IInv'
  OBVIOUS
<1>1. TypeOK /\ AskedHere /\ (joining.on => GoodHistory(joining.history, log))
  BY DEF IInv, AllStored
<1>2. /\ UNCHANGED <<log, notices, calm, lost, moved, fate>> /\ UNCHANGED gateway /\ UNCHANGED view
      /\ Takes("history") /\ Sends([kind |-> "error"]) /\ stuck' = "refused"
  BY DEF RefuseHistory
<1>3. UNCHANGED <<general, inRoom, joining, joined, items, has_more, loading>>
  BY <1>2 DEF gateway, view
<1>4. /\ up' \in Seq(Requests) /\ Len(up') <= QueueCapacity /\ NothingAskedAfter(up', log)
      /\ AtMostOne(up) => AtMostOne(up')
      /\ NoneWaits(up) => NoneWaits(up')
      /\ AllFit(up, FirstChat(items)) => AllFit(up', FirstChat(items))
  BY <1>2, TakenQuietly
<1>5. /\ down' \in Seq(Events) /\ Len(down') <= QueueCapacity
      /\ InQueue(down') = InQueue(down) /\ AllKnown(down', log) /\ Newer(down', Shown(items))
      /\ AtMostOne(down) => AtMostOne(down')
      /\ NoneWaits(down) => NoneWaits(down')
      /\ AllFit(down, FirstChat(items)) => AllFit(down', FirstChat(items))
  <2>1. [kind |-> "error"] \in Events
    BY EventFacts
  <2>2. QED
    BY <1>2, <2>1, IdleSent
<1>6. TypeOK'
  BY <1>1, <1>2, <1>3, <1>4, <1>5, TypedOnce, QueuesTyped, TypedAgain
<1>7. AskedHere'
  BY <1>1, <1>2, <1>3, <1>4, <1>5, AskedStays
<1>8. QED
  BY <1>1, <1>2, <1>3, <1>4, <1>5, <1>6, <1>7, QuietKeeps

LEMMA RequestKeeps == IInv /\ (JoinRoom \/ DeleteRoom) => IInv'
<1> SUFFICES ASSUME IInv, JoinRoom \/ DeleteRoom PROVE IInv'
  OBVIOUS
<1>1. TypeOK /\ AskedHere /\ (joining.on => GoodHistory(joining.history, log))
  BY DEF IInv, AllStored
<1>2. /\ UNCHANGED <<log, notices, calm, down, lost>> /\ UNCHANGED gateway /\ UNCHANGED view /\ UNCHANGED ghost
      /\ Asks([kind |-> "join"]) \/ Asks([kind |-> "leave"])
  BY DEF JoinRoom, DeleteRoom
<1>3. UNCHANGED <<general, inRoom, joining, joined, items, has_more, loading, moved, fate, stuck>>
  BY <1>2 DEF gateway, view, ghost
<1>4. PICK request \in Requests : request.kind \in {"join", "leave"} /\ Asks(request)
  BY <1>2, RequestFacts
<1>5. /\ up' \in Seq(Requests) /\ Len(up') <= QueueCapacity /\ NothingAskedAfter(up', log)
      /\ AtMostOne(up) => AtMostOne(up')
      /\ NoneWaits(up) => NoneWaits(up')
      /\ AllFit(up, FirstChat(items)) => AllFit(up', FirstChat(items))
  BY <1>4, AskedQuietly
<1>6. /\ down' \in Seq(Events) /\ Len(down') <= QueueCapacity
      /\ InQueue(down') = InQueue(down) /\ AllKnown(down', log) /\ Newer(down', Shown(items))
  BY <1>2, SameQueue
<1>7. TypeOK'
  BY <1>1, <1>2, <1>3, <1>5, <1>6, TypedOnce, QueuesTyped, TypedAgain
<1>8. AskedHere'
  BY <1>1, <1>2, <1>3, <1>5, AskedStays
<1>9. QED
  BY <1>1, <1>2, <1>3, <1>5, <1>6, <1>7, <1>8, QuietKeeps

LEMMA SettleKeeps == IInv /\ (Settle \/ UNCHANGED vars) => IInv'
<1> SUFFICES ASSUME IInv, Settle \/ UNCHANGED vars PROVE IInv'
  OBVIOUS
<1>1. TypeOK /\ AskedHere /\ NothingAskedAfter(up, log) /\ (joining.on => GoodHistory(joining.history, log))
  BY DEF IInv, AllStored
<1>2. /\ UNCHANGED <<log, notices, up, down, lost>> /\ UNCHANGED gateway /\ UNCHANGED view /\ UNCHANGED ghost
      /\ calm' \in {calm, TRUE}
  BY DEF Settle, vars
<1>3. UNCHANGED <<general, inRoom, joining, joined, items, has_more, loading, moved, fate, stuck>>
  BY <1>2 DEF gateway, view, ghost
<1>4. /\ down' \in Seq(Events) /\ Len(down') <= QueueCapacity
      /\ InQueue(down') = InQueue(down) /\ AllKnown(down', log) /\ Newer(down', Shown(items))
  BY <1>2, SameQueue
<1>5. TypeOK'
  BY <1>1, <1>2, <1>3, <1>4, TypedOnce, QueuesTyped, TypedAgain
<1>6. AskedHere'
  BY <1>1, <1>2, <1>3, AskedStays
<1>7. QED
  BY <1>1, <1>2, <1>3, <1>4, <1>5, <1>6, QuietKeeps

LEMMA ReceiveOtherKeeps == IInv /\ (ReceiveLeft \/ ReceiveError) => IInv'
<1> SUFFICES ASSUME IInv, ReceiveLeft \/ ReceiveError PROVE IInv'
  OBVIOUS
<1>1. TypeOK /\ AskedHere /\ NothingAskedAfter(up, log) /\ (joining.on => GoodHistory(joining.history, log))
  BY DEF IInv, AllStored
<1>2. /\ UNCHANGED <<log, notices, calm, up, items, has_more, loading, lost>> /\ UNCHANGED gateway /\ UNCHANGED ghost
      /\ Receives("left") \/ Receives("error")
      /\ joined' \in {joined, FALSE}
  BY DEF ReceiveLeft, ReceiveError, view
<1>3. UNCHANGED <<general, inRoom, joining, moved, fate, stuck>>
  BY <1>2 DEF gateway, ghost
<1>4. /\ down' \in Seq(Events) /\ Len(down') <= QueueCapacity
      /\ InQueue(down') = InQueue(down) /\ AllKnown(down', log) /\ Newer(down', Shown(items))
      /\ AtMostOne(down) => AtMostOne(down')
      /\ NoneWaits(down) => NoneWaits(down')
      /\ AllFit(down, FirstChat(items)) => AllFit(down', FirstChat(items))
  BY <1>2, IdleReceived
<1>5. TypeOK'
  BY <1>1, <1>2, <1>3, <1>4, TypedOnce, QueuesTyped, TypedAgain
<1>6. AskedHere'
  BY <1>1, <1>2, <1>3, <1>4, AskedStays
<1>7. QED
  BY <1>1, <1>2, <1>3, <1>4, <1>5, <1>6, QuietKeeps

-----------------------------------------------------------------------------
(* Asking for a page, and answering *)

LEMMA FirstChatStored ==
    ASSUME IInv, HasChat(items)
    PROVE  FirstChat(items) \in Message /\ FirstChat(items) \in Shown(items) /\ FirstChat(items) <= log
<1>1. items \in Seq(Item) /\ log \in Nat /\ Shown(items) \subseteq 1..log
  BY QueuesTyped DEF IInv, AllStored
<1>2. PICK k \in DOMAIN items : FirstChat(items) = items[k] /\ items[k] \in Message
  BY <1>1, FirstChatIs
<1>3. FirstChat(items) \in Shown(items)
  BY <1>2 DEF Shown
<1>4. QED
  BY <1>1, <1>2, <1>3

\* Only a request that is the first in its queue is answered, and then none is left.
LEMMA LoadHistoryKeeps == IInv /\ LoadHistory => IInv'
<1> SUFFICES ASSUME IInv, LoadHistory PROVE IInv'
  OBVIOUS
<1>1. TypeOK /\ AskedHere /\ (joining.on => GoodHistory(joining.history, log))
      /\ AllKnown(down, log) /\ Newer(down, Shown(items)) /\ NothingAskedAfter(up, log)
  BY DEF IInv, AllStored, LiveIsNewer
<1>2. /\ UNCHANGED <<log, notices, calm, lost, moved, fate>> /\ UNCHANGED gateway /\ UNCHANGED view
      /\ Takes("history") /\ Head(up).before > 1
      /\ Sends([kind |-> "page", messages |-> HistoryBefore(Head(up).before),
                more |-> More(HistoryBefore(Head(up).before))])
      /\ stuck' \in {stuck, "answer lost"}
  BY DEF LoadHistory
<1>3. UNCHANGED <<general, inRoom, joining, joined, items, has_more, loading>>
  BY <1>2 DEF gateway, view
<1>4. /\ up' \in Seq(Requests) /\ Len(up') <= QueueCapacity /\ NothingAskedAfter(up', log)
      /\ Head(up) \in Requests /\ Head(up).kind = "history" /\ Head(up).before <= log
      /\ AtMostOne(up) => AtMostOne(up') /\ (Waits(Head(up)) => NoneWaits(up'))
      /\ NoneWaits(up) => NoneWaits(up') /\ ~Waits(Head(up))
      /\ AllFit(up, FirstChat(items)) => AllFit(up', FirstChat(items)) /\ Fits(Head(up), FirstChat(items))
  BY <1>1, <1>2, TakesIs
<1>5. PICK before \in Message : before = Head(up).before /\ before > 1 /\ before <= log
  BY <1>2, <1>4, RequestFacts
<1>6. PICK page \in Seq(Message) : page = HistoryBefore(before)
  BY <1>5, PageIs
<1>7. PICK event : event = [kind |-> "page", messages |-> page, more |-> More(page)]
  OBVIOUS
<1>8. PageFits(event, before) /\ ToSet(page) \subseteq 1..(before - 1)
  BY <1>5, <1>6, <1>7, PageIs
<1>9. event \in Events /\ event.kind = "page" /\ event.messages = page /\ Sends(event)
  <2>1. More(page) \in BOOLEAN
    BY DEF More
  <2>2. QED
    BY <1>2, <1>5, <1>6, <1>7, <2>1, EventFacts
<1>10. IsKnown(event, log)
  <2>1. log \in Nat /\ before \in Nat
    BY <1>1, QueuesTyped DEF Message
  <2>2. 1..(before - 1) \subseteq 1..log
    BY <1>5, <2>1
  <2>3. \A m \in Carried(event) : m \in ToSet(page)
    BY <1>9 DEF Carried, IsMessage
  <2>4. QED
    BY <1>8, <1>9, <2>2, <2>3 DEF IsKnown
<1>11. InQueue(down') = InQueue(down) /\ Newer(down', Shown(items))
  BY <1>1, <1>9, OtherSent
<1>12. /\ down' \in Seq(Events) /\ Len(down') <= QueueCapacity /\ AllKnown(down', log)
       /\ AtMostOne(down) /\ (Waits(event) => NoneWaits(down)) => AtMostOne(down')
       /\ AllFit(down, FirstChat(items)) /\ Fits(event, FirstChat(items)) => AllFit(down', FirstChat(items))
  BY <1>1, <1>9, <1>10, SentIs
<1>13. TypeOK'
  <2>1. stuck' \in {"no", "queue full", "refused", "answer lost"}
    BY <1>1, <1>2, TypedOnce
  <2>2. QED
    BY <1>1, <1>2, <1>3, <1>4, <1>12, <2>1, TypedOnce, QueuesTyped, TypedAgain
<1>14. AskedHere'
  <2>1. ASSUME ~moved
        PROVE  /\ AtMostOne(up') /\ AtMostOne(down') /\ NoneWaits(up')
               /\ loading /\ HasChat(items)
               /\ AllFit(up', FirstChat(items)) /\ AllFit(down', FirstChat(items))
    <3>1. Waits(Head(up)) /\ ~NoneWaits(up)
      BY <1>4 DEF Waits
    <3>2. /\ AtMostOne(up) /\ AtMostOne(down) /\ NoneWaits(down)
          /\ loading /\ HasChat(items)
          /\ AllFit(up, FirstChat(items)) /\ AllFit(down, FirstChat(items))
      BY <1>1, <2>1, <3>1 DEF AskedHere
    <3>3. NoneWaits(up') /\ AtMostOne(up') /\ AtMostOne(down')
      BY <1>4, <1>12, <3>1, <3>2
    <3>4. before = FirstChat(items)
      BY <1>4, <1>5, <3>2 DEF Fits
    <3>5. Fits(event, FirstChat(items))
      BY <1>8, <1>9, <3>4 DEF Fits
    <3>6. QED
      BY <1>4, <1>12, <3>2, <3>3, <3>5
  <2>2. moved' = moved /\ loading' = loading /\ items' = items
    BY <1>2, <1>3
  <2>3. QED
    BY <2>1, <2>2 DEF AskedHere
<1>15. QED
  BY <1>1, <1>2, <1>3, <1>4, <1>11, <1>12, <1>13, <1>14, QuietKeeps

\* The flag that keeps the user from asking twice is set before the request is sent.
LEMMA PageUpKeeps == IInv /\ PageUp => IInv'
<1> SUFFICES ASSUME IInv, PageUp PROVE IInv'
  OBVIOUS
<1>1. TypeOK /\ AskedHere /\ (joining.on => GoodHistory(joining.history, log)) /\ NothingAskedAfter(up, log)
  BY DEF IInv, AllStored
<1>2. /\ UNCHANGED <<log, notices, calm, down, joined, items, has_more, lost, fate>> /\ UNCHANGED gateway
      /\ ~loading /\ HasChat(items) /\ loading' = TRUE
      /\ Asks([kind |-> "history", before |-> FirstChat(items)])
      /\ moved' = (moved /\ Awaited)
      /\ stuck' \in {"no", "queue full"}
  BY DEF PageUp
<1>3. UNCHANGED <<general, inRoom, joining>>
  BY <1>2 DEF gateway
<1>4. FirstChat(items) \in Message /\ FirstChat(items) <= log
  BY <1>2, FirstChatStored
<1>5. PICK request \in Requests : request = [kind |-> "history", before |-> FirstChat(items)]
  BY <1>4, RequestFacts
<1>6. /\ request.kind = "history" /\ request.before = FirstChat(items) /\ Asks(request)
      /\ Fits(request, FirstChat(items))
  BY <1>2, <1>5 DEF Fits
<1>7. /\ up' \in Seq(Requests) /\ Len(up') <= QueueCapacity /\ NothingAskedAfter(up', log)
      /\ AtMostOne(up) /\ NoneWaits(up) => AtMostOne(up')
      /\ AllFit(up, FirstChat(items)) => AllFit(up', FirstChat(items))
  BY <1>1, <1>4, <1>6, AsksIs
<1>8. /\ down' \in Seq(Events) /\ Len(down') <= QueueCapacity
      /\ InQueue(down') = InQueue(down) /\ AllKnown(down', log) /\ Newer(down', Shown(items))
  BY <1>2, SameQueue
<1>9. TypeOK'
  <2>1. moved' \in BOOLEAN
    BY <1>2
  <2>2. stuck' \in {"no", "queue full", "refused", "answer lost"} /\ loading' \in BOOLEAN
    BY <1>2
  <2>3. QED
    BY <1>1, <1>2, <1>3, <1>7, <1>8, <2>1, <2>2, TypedOnce, QueuesTyped, TypedAgain
<1>10. AskedHere'
  <2>1. ASSUME ~moved'
        PROVE  /\ AtMostOne(up') /\ AtMostOne(down) /\ NoneWaits(down)
               /\ AllFit(up', FirstChat(items)) /\ AllFit(down, FirstChat(items))
    <3>1. NoneWaits(up) /\ NoneWaits(down)
      <4>1. Awaited <=> ~(NoneWaits(up) /\ NoneWaits(down))
        BY <1>1, QueuesTyped, WaitsIs DEF Awaited
      <4>2. CASE ~moved
        BY <1>1, <1>2, <4>2 DEF AskedHere
      <4>3. CASE moved
        BY <1>2, <2>1, <4>1, <4>3
      <4>4. QED
        BY <4>2, <4>3
    <3>2. AtMostOne(up) /\ AtMostOne(down)
      BY <1>1, <3>1, QueuesTyped, WaitsIs
    <3>3. AllFit(up, FirstChat(items)) /\ AllFit(down, FirstChat(items))
      BY <3>1 DEF NoneWaits, AllFit, Waits, Fits
    <3>4. QED
      BY <1>7, <3>1, <3>2, <3>3
  <2>2. loading' /\ items' = items /\ down' = down /\ HasChat(items)
    BY <1>2
  <2>3. QED
    BY <2>1, <2>2 DEF AskedHere
<1>11. QED
  BY <1>1, <1>2, <1>3, <1>7, <1>8, <1>9, <1>10, QuietKeeps

\* Nothing waits, or the window has moved.
LEMMA NoneAsked ==
    ASSUME TypeOK, AskedHere, moved' = (moved \/ Awaited),
           up' \in Seq(Requests), down' \in Seq(Events),
           NoneWaits(up) => NoneWaits(up'), NoneWaits(down) => NoneWaits(down')
    PROVE  AskedHere'
<1>1. Awaited <=> ~(NoneWaits(up) /\ NoneWaits(down))
  BY QueuesTyped, WaitsIs DEF Awaited
<1>2. ASSUME ~moved' PROVE NoneWaits(up') /\ NoneWaits(down') /\ AtMostOne(up') /\ AtMostOne(down')
  <2>1. NoneWaits(up') /\ NoneWaits(down')
    BY <1>1, <1>2
  <2>2. QED
    BY <2>1, WaitsIs
<1>3. QED
  BY <1>2 DEF AskedHere

LEMMA ClearKeeps == IInv /\ Clear => IInv'
<1> SUFFICES ASSUME IInv, Clear PROVE IInv'
  OBVIOUS
<1>1. TypeOK /\ AskedHere /\ AllStored /\ QueueGoesOn /\ LiveIsNewer
  BY DEF IInv
<1>2. /\ UNCHANGED <<log, notices, calm, up, down, joined, has_more, loading, lost, stuck>> /\ UNCHANGED gateway
      /\ items' = <<>> /\ fate' = {"cut"} /\ moved' = (moved \/ Awaited)
  BY DEF Clear
<1>3. UNCHANGED <<general, inRoom, joining>>
  BY <1>2 DEF gateway
<1>4. items' \in Seq(Item) /\ Len(items') = 0 /\ DOMAIN items' = {} /\ Shown(items') = {} /\ InOrder(items')
  BY <1>2 DEF Shown, InOrder
<1>5. TypeOK'
  <2>1. moved' \in BOOLEAN
    BY <1>2, <1>1, TypedOnce DEF Awaited, AwaitedIn
  <2>2. fate' \in SUBSET Fates
    BY <1>2 DEF Fates
  <2>3. QED
    BY <1>1, <1>2, <1>3, <1>4, <2>1, <2>2, TypedOnce, QueuesTyped, TypedAgain
<1>6. WindowBound'
  BY <1>4, BoundsTyped DEF WindowBound
<1>7. AllStored'
  BY <1>1, <1>2, <1>3, <1>4 DEF AllStored
<1>8. LiveIsNewer'
  <2>1. {} \in SUBSET Shown(items)
    OBVIOUS
  <2>2. Newer(down, {})
    BY <1>1, <2>1, NewerIs DEF LiveIsNewer
  <2>3. QED
    BY <1>2, <1>4, <2>2 DEF LiveIsNewer
<1>9. AskedHere'
  BY <1>1, <1>2, QueuesTyped, NoneAsked
<1>10. QueueGoesOn'
  BY <1>1, <1>2 DEF QueueGoesOn
<1>11. WindowGoesOn'
  BY <1>4 DEF WindowGoesOn
<1>12. NothingOlder'
  <2>1. fate' \cap {"cut", "torn"} # {}
    BY <1>2
  <2>2. QED
    BY <2>1 DEF NothingOlder
<1>13. QED
  BY <1>5, <1>6, <1>7, <1>8, <1>9, <1>10, <1>11, <1>12 DEF IInv

-----------------------------------------------------------------------------
(* A message is stored *)

\* It is sent, or counted as lost.
LEMMA PostSends ==
    ASSUME IInv, Post
    PROVE  /\ log + 1 \in Message /\ log' = log + 1 /\ log \in Nat /\ log' \in 0..MaxLog
           /\ down' \in Seq(Events) /\ Len(down') <= QueueCapacity
           /\ InQueue(down) \subseteq InQueue(down') /\ InQueue(down') \subseteq InQueue(down) \cup {log + 1}
           /\ lost' \in {lost, lost \cup {log + 1}} /\ log + 1 \in InQueue(down') \cup lost'
           /\ AllKnown(down', log') /\ Newer(down', Shown(items))
           /\ AtMostOne(down) => AtMostOne(down')
           /\ NoneWaits(down) => NoneWaits(down')
           /\ AllFit(down, FirstChat(items)) => AllFit(down', FirstChat(items))
<1>1. TypeOK /\ AllKnown(down, log) /\ Newer(down, Shown(items)) /\ Shown(items) \subseteq 1..log
  BY DEF IInv, AllStored, LiveIsNewer
<1>2. PICK n \in Nat : n = log /\ n < MaxLog
  BY <1>1, QueuesTyped DEF Post
<1>3. PICK m \in Nat : m = n + 1 /\ m \in Message /\ m \in 0..MaxLog
  BY <1>2, BoundsTyped DEF Message
<1>4. log' = m /\ AllKnown(down, m)
  <2>1. log' = m
    BY <1>2, <1>3 DEF Post
  <2>2. n <= m
    BY <1>3
  <2>3. QED
    BY <1>1, <1>2, <2>1, <2>2, KnownIs
<1>5. CASE inRoom
  <2>1. PICK event \in Events : event = [kind |-> "chat", message |-> m]
    BY <1>3, EventFacts
  <2>2. /\ event.kind = "chat" /\ event.message = m /\ Sends(event)
        /\ lost' = IF RoomInQueue THEN lost ELSE lost \cup {m}
    BY <1>2, <1>3, <1>5, <2>1 DEF Post
  <2>3. \A x : IsMessage(event, x) <=> x = m
    BY <2>2 DEF IsMessage
  <2>4. ~Waits(event) /\ \A first : Fits(event, first)
    BY <2>2 DEF Waits, Fits
  <2>5. IsKnown(event, m)
    <3>1. \A x \in Carried(event) : x = m
      BY <2>2, <2>3 DEF Carried
    <3>2. m \in 1..m
      BY <1>3
    <3>3. QED
      BY <2>2, <3>1, <3>2 DEF IsKnown
  <2>6. \A x \in 1..n : x < m
    BY <1>3
  <2>7. NewerThan(event, Shown(items))
    BY <1>1, <1>2, <2>3, <2>6 DEF NewerThan
  <2>8. ASSUME NEW i \in DOMAIN down PROVE NewerThan(event, Carried(down[i]))
    <3>1. Carried(down[i]) \subseteq 1..n
      BY <1>1, <1>2 DEF AllKnown, IsKnown
    <3>2. QED
      BY <2>3, <2>6, <3>1 DEF NewerThan
  <2>9. /\ down' \in Seq(Events) /\ Len(down') <= QueueCapacity
        /\ InQueue(down) \subseteq InQueue(down')
        /\ \A x \in InQueue(down') : x \in InQueue(down) \/ IsMessage(event, x)
        /\ RoomInQueue => \A x \in Message : IsMessage(event, x) => x \in InQueue(down')
        /\ AllKnown(down, m) /\ IsKnown(event, m) => AllKnown(down', m)
        /\ Newer(down, Shown(items)) /\ NewerThan(event, Shown(items))
              /\ (\A i \in DOMAIN down : NewerThan(event, Carried(down[i]))) => Newer(down', Shown(items))
        /\ AtMostOne(down) /\ (Waits(event) => NoneWaits(down)) => AtMostOne(down')
        /\ ~Waits(event) => (NoneWaits(down') <=> NoneWaits(down))
        /\ AllFit(down, FirstChat(items)) /\ Fits(event, FirstChat(items)) => AllFit(down', FirstChat(items))
    BY <1>1, <2>2, SentIs
  <2>10. AllKnown(down', m) /\ Newer(down', Shown(items))
    BY <1>1, <1>4, <2>5, <2>7, <2>8, <2>9
  <2>11. InQueue(down') \subseteq InQueue(down) \cup {m}
    BY <2>3, <2>9
  <2>12. m \in InQueue(down') \cup lost' /\ lost' \in {lost, lost \cup {m}}
    BY <1>3, <2>2, <2>3, <2>9
  <2>13. /\ AtMostOne(down) => AtMostOne(down')
         /\ NoneWaits(down) => NoneWaits(down')
         /\ AllFit(down, FirstChat(items)) => AllFit(down', FirstChat(items))
    BY <2>4, <2>9
  <2>14. QED
    BY <1>2, <1>3, <1>4, <2>9, <2>10, <2>11, <2>12, <2>13
<1>6. CASE ~inRoom
  <2>1. down' = down /\ lost' = lost \cup {m}
    BY <1>2, <1>3, <1>6 DEF Post
  <2>2. down \in Seq(Events) /\ Len(down) <= QueueCapacity
    BY <1>1, QueuesTyped
  <2>3. QED
    BY <1>1, <1>2, <1>3, <1>4, <2>1, <2>2
<1>7. QED
  BY <1>5, <1>6

LEMMA PostKeeps == IInv /\ Post => IInv'
<1> SUFFICES ASSUME IInv, Post PROVE IInv'
  OBVIOUS
<1>1. TypeOK /\ AskedHere /\ AllStored /\ QueueGoesOn /\ WindowGoesOn /\ NothingOlder /\ WindowBound
  BY DEF IInv
<1>2. PICK m : m = log + 1
  OBVIOUS
<1>3. /\ m \in Message /\ log' = m /\ m = log + 1 /\ log \in Nat /\ log' \in 0..MaxLog
      /\ down' \in Seq(Events) /\ Len(down') <= QueueCapacity
      /\ InQueue(down) \subseteq InQueue(down') /\ InQueue(down') \subseteq InQueue(down) \cup {m}
      /\ lost' \in {lost, lost \cup {m}} /\ m \in InQueue(down') \cup lost'
      /\ AllKnown(down', log') /\ Newer(down', Shown(items))
      /\ AtMostOne(down) => AtMostOne(down')
      /\ NoneWaits(down) => NoneWaits(down')
      /\ AllFit(down, FirstChat(items)) => AllFit(down', FirstChat(items))
  BY <1>2, PostSends
<1>4. /\ UNCHANGED <<notices, calm, up>> /\ UNCHANGED gateway /\ UNCHANGED view /\ UNCHANGED ghost
  BY DEF Post
<1>5. UNCHANGED <<general, inRoom, joining, joined, items, has_more, loading, moved, fate, stuck>>
  BY <1>4 DEF gateway, view, ghost
<1>6. TypeOK'
  <2>1. lost' \in SUBSET Message
    BY <1>1, <1>3, TypedOnce
  <2>2. QED
    BY <1>1, <1>3, <1>4, <1>5, <2>1, TypedOnce, QueuesTyped, TypedAgain
<1>7. WindowBound'
  BY <1>1, <1>5 DEF WindowBound
<1>8. /\ 1..log' = 1..log \cup {m} /\ \A x \in Shown(items) \cup InQueue(down) : x \in 1..log
      /\ \A x \in 1..log' : ~(m < x)
  <2>1. Shown(items) \subseteq 1..log
    BY <1>1 DEF AllStored
  <2>2. InQueue(down) \subseteq 1..log
    BY <1>1 DEF AllStored, AllKnown, IsKnown, InQueue, Carried
  <2>3. 1..log' = 1..log \cup {m} /\ \A x \in 1..log' : ~(m < x)
    BY <1>3
  <2>4. QED
    BY <2>1, <2>2, <2>3
<1>9. AllStored'
  <2>1. log \in Nat /\ log' \in Nat /\ log <= log'
    BY <1>3 DEF Message
  <2>2. joining.on => GoodHistory(joining.history, log')
    BY <1>1, <2>1, KnownIs DEF AllStored
  <2>3. NothingAskedAfter(up, log')
    <3>1. ASSUME NEW i \in DOMAIN up, up[i].kind = "history" PROVE up[i].before <= log'
      <4>1. up[i] \in Requests
        BY <1>1, QueuesTyped
      <4>2. up[i].before \in Nat /\ up[i].before <= log
        BY <1>1, <3>1, <4>1, RequestFacts DEF AllStored, NothingAskedAfter, Message
      <4>3. QED
        BY <2>1, <4>2
    <3>2. QED
      BY <3>1 DEF NothingAskedAfter
  <2>4. Shown(items) \subseteq 1..log'
    BY <1>8
  <2>5. QED
    BY <1>3, <1>4, <1>5, <2>2, <2>3, <2>4 DEF AllStored
<1>10. LiveIsNewer'
  BY <1>3, <1>5 DEF LiveIsNewer
<1>11. AskedHere'
  BY <1>1, <1>3, <1>4, <1>5, AskedStays
<1>12. QueueGoesOn'
  <2>1. ASSUME NEW x \in InQueue(down'), NEW y \in 1..log', x < y PROVE y \in InQueue(down') \cup lost'
    <3>1. CASE y = m
      BY <1>3, <3>1
    <3>2. CASE y # m
      <4>1. y \in 1..log /\ x # m
        BY <1>8, <2>1, <3>2
      <4>2. x \in InQueue(down)
        BY <1>3, <4>1
      <4>3. y \in InQueue(down) \cup lost
        BY <1>1, <2>1, <4>1, <4>2 DEF QueueGoesOn
      <4>4. QED
        BY <1>3, <4>3
    <3>3. QED
      BY <3>1, <3>2
  <2>2. QED
    BY <2>1 DEF QueueGoesOn
<1>13. Accounted \subseteq Accounted' /\ m \in Accounted'
  BY <1>3, <1>5 DEF Accounted
<1>14. WindowGoesOn'
  <2>1. ASSUME ~Torn', NEW x \in Shown(items), NEW y \in 1..log', x < y PROVE y \in Accounted'
    <3>1. CASE y = m
      BY <1>13, <3>1
    <3>2. CASE y # m
      <4>1. y \in 1..log /\ ~Torn
        BY <1>5, <1>8, <2>1, <3>2 DEF Torn
      <4>2. y \in Accounted
        BY <1>1, <2>1, <4>1 DEF WindowGoesOn
      <4>3. QED
        BY <1>13, <4>2
    <3>3. QED
      BY <3>1, <3>2
  <2>2. ~Torn' => InOrder(items)
    BY <1>1, <1>5 DEF WindowGoesOn, Torn
  <2>3. items' = items
    BY <1>5
  <2>4. QED
    BY <2>1, <2>2, <2>3 DEF WindowGoesOn
<1>15. NothingOlder'
  <2>1. ~has_more' /\ fate' \cap {"cut", "torn"} = {} => 1..log \subseteq Accounted
    BY <1>1, <1>5 DEF NothingOlder
  <2>2. QED
    BY <1>8, <1>13, <2>1 DEF NothingOlder
<1>16. QED
  BY <1>6, <1>7, <1>9, <1>10, <1>11, <1>12, <1>14, <1>15 DEF IInv

-----------------------------------------------------------------------------
(* A line comes at the end *)

\* The window after a line that is no message, or one newer than all that is shown.
LEMMA PushKeeps ==
    ASSUME IInv, NEW kind \in {"chat", "notice"}, Receives(kind),
           NEW item \in Item, Pushes(item),
           \A m : IsMessage(Head(down), m) <=> m \in {item} \cap Message,
           UNCHANGED <<log, notices, calm, up, lost>>, UNCHANGED gateway
    PROVE  IInv'
<1>1. TypeOK /\ AskedHere /\ AllStored /\ LiveIsNewer /\ QueueGoesOn /\ WindowGoesOn /\ NothingOlder /\ WindowBound
  BY DEF IInv
<1>2. UNCHANGED <<general, inRoom, joining, joined, has_more, loading, stuck>>
  BY DEF gateway, Pushes
<1>3. /\ items' = PushBounded(items, item)
      /\ fate' \in {fate, fate \cup {"cut"}}
  BY DEF Pushes
<1>4. items \in Seq(Item) /\ log \in Nat /\ log \in 0..MaxLog /\ up \in Seq(Requests) /\ down \in Seq(Events)
  BY <1>1, QueuesTyped
<1>5. /\ items' \in Seq(Item)
      /\ Len(items) <= MaxItems => Len(items') <= MaxItems
      /\ Shown(items') \subseteq Shown(items) \cup {item}
      /\ item \in Message => item \in Shown(items')
      /\ InOrder(items) => \A m \in Shown(items) :
            m \in Shown(items') \/ (HasChat(items) /\ m = FirstChat(items) /\ \A x \in Shown(items) : m <= x)
      /\ InOrder(items) /\ (item \in Message => \A m \in Shown(items) : m < item) => InOrder(items')
  BY <1>3, <1>4, PushBoundedIs
<1>6. /\ down' \in Seq(Events) /\ Len(down') <= QueueCapacity
      /\ Head(down) \in Events /\ Head(down).kind = kind
      /\ InQueue(down') \subseteq InQueue(down)
      /\ \A m \in InQueue(down) : m \in InQueue(down') \/ IsMessage(Head(down), m)
      /\ AllKnown(down, log) => IsKnown(Head(down), log) /\ AllKnown(down', log)
      /\ Newer(down, Shown(items)) =>
           NewerThan(Head(down), Shown(items)) /\ Newer(down', Shown(items) \cup Carried(Head(down)))
      /\ AtMostOne(down) => AtMostOne(down')
      /\ NoneWaits(down) => NoneWaits(down')
      /\ AllFit(down, FirstChat(items)) => AllFit(down', FirstChat(items))
  BY <1>1, ReceivesIs
<1>7. {item} \cap Message \subseteq Carried(Head(down)) /\ Carried(Head(down)) \subseteq 1..log
  <2>1. IsKnown(Head(down), log)
    BY <1>1, <1>6 DEF AllStored
  <2>2. QED
    BY <2>1 DEF IsKnown, Carried
<1>8. item \in Message => \A m \in Shown(items) : m < item
  BY <1>1, <1>6 DEF LiveIsNewer, NewerThan
<1>9. Shown(items') \subseteq Shown(items) \cup ({item} \cap Message) /\ Shown(items') \subseteq Message
  BY <1>5 DEF Shown
<1>10. TypeOK'
  <2>1. fate' \in SUBSET Fates
    BY <1>1, <1>3, TypedOnce DEF Fates
  <2>2. moved' \in BOOLEAN
    BY <1>1, TypedOnce DEF Pushes, Awaited, AwaitedIn
  <2>3. QED
    BY <1>1, <1>2, <1>4, <1>5, <1>6, <2>1, <2>2, TypedOnce, QueuesTyped, TypedAgain
<1>11. WindowBound'
  BY <1>1, <1>3, <1>5 DEF WindowBound
<1>12. AllStored'
  <2>1. Shown(items') \subseteq 1..log
    BY <1>1, <1>7, <1>9 DEF AllStored
  <2>2. QED
    BY <1>1, <1>2, <1>6, <2>1 DEF AllStored
<1>13. LiveIsNewer'
  <2>1. Shown(items') \in SUBSET (Shown(items) \cup Carried(Head(down)))
    BY <1>7, <1>9
  <2>2. Newer(down', Shown(items) \cup Carried(Head(down)))
    BY <1>1, <1>6 DEF LiveIsNewer
  <2>3. QED
    BY <2>1, <2>2, NewerIs DEF LiveIsNewer
<1>14. AskedHere'
  <2>1. CASE HasChat(items) /\ ~(HasChat(items') /\ FirstChat(items') = FirstChat(items))
    <3>1. moved' = (moved \/ Awaited)
      BY <2>1 DEF Pushes
    <3>2. QED
      BY <1>1, <1>4, <1>6, <3>1, NoneAsked
  <2>2. CASE ~HasChat(items) \/ (HasChat(items') /\ FirstChat(items') = FirstChat(items))
    <3>1. moved' = moved
      BY <2>2 DEF Pushes
    <3>2. ASSUME ~moved
          PROVE  AtMostOne(up) /\ AtMostOne(down') /\ (NoneWaits(up) \/ NoneWaits(down'))
      BY <1>1, <1>6, <3>2 DEF AskedHere
    <3>3. ASSUME ~moved, ~(NoneWaits(up) /\ NoneWaits(down'))
          PROVE  /\ loading /\ HasChat(items')
                 /\ AllFit(up, FirstChat(items')) /\ AllFit(down', FirstChat(items'))
      <4>1. ~(NoneWaits(up) /\ NoneWaits(down))
        BY <1>6, <3>3
      <4>2. loading /\ HasChat(items) /\ AllFit(up, FirstChat(items)) /\ AllFit(down, FirstChat(items))
        BY <1>1, <3>3, <4>1 DEF AskedHere
      <4>3. QED
        BY <1>6, <2>2, <4>2
    <3>4. QED
      BY <1>2, <3>1, <3>2, <3>3 DEF AskedHere
  <2>3. QED
    BY <2>1, <2>2
<1>15. \A m \in InQueue(down) : m \in InQueue(down') \/ m \in {item} \cap Message
  BY <1>6
<1>16. \A m \in InQueue(down') : item \in Message => item < m
  <2>1. Newer(down', Shown(items) \cup Carried(Head(down)))
    BY <1>1, <1>6 DEF LiveIsNewer
  <2>2. QED
    BY <1>7, <2>1, NewerIs
<1>17. QueueGoesOn'
  <2>1. ASSUME NEW x \in InQueue(down'), NEW y \in 1..log, x < y PROVE y \in InQueue(down') \cup lost
    <3>1. y \in InQueue(down) \cup lost
      BY <1>1, <1>6, <2>1 DEF QueueGoesOn
    <3>2. y \notin {item} \cap Message
      <4>1. ASSUME y = item, item \in Message PROVE FALSE
        <5>1. item < x /\ x < item
          BY <1>16, <2>1, <4>1
        <5>2. x \in Nat /\ item \in Nat
          BY <2>1, <4>1 DEF InQueue, Message
        <5>3. QED
          BY <5>1, <5>2
      <4>2. QED
        BY <4>1
    <3>3. QED
      BY <1>15, <3>1, <3>2
  <2>2. QED
    BY <2>1 DEF QueueGoesOn
<1>18. \A m \in Accounted : m \in Accounted' \/ (m \in Shown(items) /\ m \notin Shown(items'))
  <2>1. ASSUME NEW m \in InQueue(down) PROVE m \in Accounted'
    <3>1. m \in InQueue(down') \/ m \in Shown(items')
      BY <1>5, <1>15
    <3>2. QED
      BY <3>1 DEF Accounted
  <2>2. QED
    BY <2>1 DEF Accounted
<1>19. WindowGoesOn'
  <2>1. SUFFICES ASSUME ~Torn'
                 PROVE  InOrder(items') /\ \A x \in Shown(items'), y \in 1..log : x < y => y \in Accounted'
    BY DEF WindowGoesOn
  <2>2. ~Torn
    BY <1>3, <2>1 DEF Torn
  <2>3. InOrder(items) /\ InOrder(items')
    BY <1>1, <1>5, <1>8, <2>2 DEF WindowGoesOn
  <2>4. ASSUME NEW x \in Shown(items'), NEW y \in 1..log, x < y PROVE y \in Accounted'
    <3>1. y \in Accounted
      <4>1. CASE x \in Shown(items)
        BY <1>1, <2>2, <2>4, <4>1 DEF WindowGoesOn
      <4>2. CASE x \in {item} \cap Message
        <5>1. x \in InQueue(down)
          <6>1. IsMessage(Head(down), x) /\ x \in Message
            BY <4>2
          <6>2. Head(down) = down[1] /\ 1 \in DOMAIN down
            BY <1>4, Taken DEF Receives
          <6>3. QED
            BY <6>1, <6>2 DEF InQueue
        <5>2. QED
          BY <1>1, <2>4, <5>1 DEF QueueGoesOn, Accounted
      <4>3. QED
        BY <1>9, <4>1, <4>2
    <3>2. ASSUME y \in Shown(items), y \notin Shown(items') PROVE FALSE
      <4>1. \A z \in Shown(items) : y <= z
        BY <1>5, <2>3, <3>2
      <4>2. item \in Message => y < item
        BY <1>8, <3>2
      <4>3. y <= x
        <5>1. CASE x \in Shown(items)
          BY <4>1, <5>1
        <5>2. CASE x \in {item} \cap Message
          <6>1. y < x /\ x \in Nat /\ y \in Nat
            BY <4>2, <5>2, <2>4 DEF Message
          <6>2. QED
            BY <6>1
        <5>3. QED
          BY <1>9, <5>1, <5>2
      <4>4. x \in Nat /\ y \in Nat
        BY <1>9, <2>4 DEF Message
      <4>5. QED
        BY <2>4, <4>3, <4>4
    <3>3. QED
      BY <1>18, <3>1, <3>2
  <2>5. QED
    BY <2>3, <2>4
<1>20. NothingOlder'
  <2>1. SUFFICES ASSUME ~has_more', fate' \cap {"cut", "torn"} = {} PROVE 1..log \subseteq Accounted'
    BY DEF NothingOlder
  <2>2. fate \cap {"cut", "torn"} = {} /\ ~Torn /\ ~has_more /\ "cut" \notin fate'
    BY <1>2, <1>3, <2>1 DEF Torn
  <2>3. 1..log \subseteq Accounted /\ InOrder(items)
    BY <1>1, <2>2 DEF NothingOlder, WindowGoesOn
  <2>4. ~(HasChat(items) /\ ~(HasChat(items') /\ FirstChat(items') = FirstChat(items)))
    BY <2>2 DEF Pushes
  <2>5. ASSUME NEW m \in Shown(items), m \notin Shown(items') PROVE FALSE
    <3>1. HasChat(items) /\ m = FirstChat(items)
      BY <1>5, <2>3, <2>5
    <3>2. HasChat(items') /\ FirstChat(items') = m
      BY <2>4, <3>1
    <3>3. PICK k \in DOMAIN items' : FirstChat(items') = items'[k] /\ items'[k] \in Message
      BY <1>5, <3>2, FirstChatIs
    <3>4. m \in Shown(items')
      BY <3>2, <3>3 DEF Shown
    <3>5. QED
      BY <2>5, <3>4
  <2>6. QED
    BY <1>18, <2>3, <2>5
<1>21. QED
  BY <1>10, <1>11, <1>12, <1>13, <1>14, <1>17, <1>19, <1>20 DEF IInv

LEMMA ReceiveLineKeeps == IInv /\ (ReceiveChat \/ ReceiveNotice) => IInv'
<1>1. ASSUME IInv, ReceiveChat PROVE IInv'
  <2>1. Receives("chat") /\ Pushes(Head(down).message) /\ UNCHANGED <<log, notices, calm, up, lost>> /\ UNCHANGED gateway
    BY <1>1 DEF ReceiveChat
  <2>2. Head(down) \in Events /\ Head(down).kind = "chat"
    BY <1>1, <2>1, ReceivesIs DEF IInv
  <2>3. PICK m \in Message : m = Head(down).message
    BY <2>2, EventFacts
  <2>4. m \in Item /\ Pushes(m)
    BY <2>1, <2>3 DEF Item
  <2>5. \A x : IsMessage(Head(down), x) <=> x \in {m} \cap Message
    BY <2>2, <2>3 DEF IsMessage
  <2>6. QED
    BY <1>1, <2>1, <2>4, <2>5, PushKeeps
<1>2. ASSUME IInv, ReceiveNotice PROVE IInv'
  <2>1. Receives("notice") /\ Pushes(NoticeItem) /\ UNCHANGED <<log, notices, calm, up, lost>> /\ UNCHANGED gateway
    BY <1>2 DEF ReceiveNotice
  <2>2. Head(down).kind = "notice"
    BY <1>2, <2>1, ReceivesIs DEF IInv
  <2>3. NoticeItem \in Item /\ NoticeItem \notin Message
    BY BoundsTyped DEF Item, NoticeItem, Message
  <2>4. \A x : IsMessage(Head(down), x) <=> x \in {NoticeItem} \cap Message
    BY <2>2, <2>3 DEF IsMessage
  <2>5. QED
    BY <1>2, <2>1, <2>3, <2>4, PushKeeps
<1>3. QED
  BY <1>1, <1>2

-----------------------------------------------------------------------------
(* A history takes the place of the window, or a page comes in front *)

LEMMA ReceiveJoinedKeeps == IInv /\ ReceiveJoined => IInv'
<1> SUFFICES ASSUME IInv, ReceiveJoined PROVE IInv'
  OBVIOUS
<1>1. TypeOK /\ AskedHere /\ AllStored /\ LiveIsNewer
  BY DEF IInv
<1>2. PICK h : h = Head(down).history
  OBVIOUS
<1>3. /\ Receives("joined") /\ items' = h /\ has_more' = More(h)
      /\ lost' = {m \in 1..log : /\ h = <<>> \/ m > Last(h)
                                 /\ \A i \in 2..Len(down) : ~IsMessage(down[i], m)}
      /\ joined' = TRUE /\ loading' = FALSE /\ moved' = (moved \/ Awaited) /\ fate' = {}
      /\ UNCHANGED <<log, notices, calm, up, stuck>> /\ UNCHANGED gateway
  BY <1>2 DEF ReceiveJoined
<1>4. UNCHANGED <<general, inRoom, joining>>
  BY <1>3 DEF gateway
<1>5. log \in Nat /\ log \in 0..MaxLog /\ 1..log \subseteq Message
  <2>1. log \in Nat /\ log \in 0..MaxLog /\ MaxLog \in Nat
    BY <1>1, QueuesTyped, BoundsTyped
  <2>2. QED
    BY <2>1 DEF Message
<1>6. /\ down' \in Seq(Events) /\ Len(down') <= QueueCapacity
      /\ Head(down) \in Events /\ Head(down).kind = "joined" /\ down # <<>> /\ down' = Tail(down)
      /\ AllKnown(down, log) => IsKnown(Head(down), log) /\ AllKnown(down', log)
      /\ Newer(down, Shown(items)) => Newer(down', Shown(items) \cup Carried(Head(down)))
      /\ NoneWaits(down) => NoneWaits(down')
  BY <1>1, <1>3, ReceivesIs
<1>7. h \in Seq(Message) /\ GoodHistory(h, log) /\ AllKnown(down', log)
  BY <1>1, <1>2, <1>6, EventFacts DEF AllStored, IsKnown
<1>8. h \in Seq(Item) /\ h \in Seq(Nat) /\ Len(h) \in Nat
  <2>1. Message \subseteq Item /\ Message \subseteq Nat
    BY DEF Item, Message
  <2>2. h \in Seq(Item)
    BY <1>7, <2>1, SeqMonotonic
  <2>3. h \in Seq(Nat)
    BY <1>7, <2>1, SeqMonotonic
  <2>4. QED
    BY <2>2, <2>3
<1>9. Shown(h) = ToSet(h) /\ Shown(h) \subseteq 1..log /\ Shown(h) \subseteq Carried(Head(down))
  <2>1. ToSet(h) \subseteq 1..log
    BY <1>7 DEF GoodHistory
  <2>2. Shown(h) = ToSet(h)
    BY <1>7 DEF Shown, ToSet
  <2>3. QED
    BY <1>2, <1>5, <1>6, <2>1, <2>2 DEF Carried
<1>10. h # <<>> => /\ Shown(h) = Head(h)..Last(h) /\ Head(h) \in Nat /\ Last(h) \in Nat
                   /\ \A i, j \in DOMAIN h : i < j => h[i] < h[j]
  <2>1. SUFFICES ASSUME h # <<>>
                 PROVE  /\ Shown(h) = Head(h)..Last(h) /\ Head(h) \in Nat /\ Last(h) \in Nat
                        /\ \A i, j \in DOMAIN h : i < j => h[i] < h[j]
    OBVIOUS
  <2>2. Run(h)
    BY <1>7 DEF GoodHistory
  <2>3. /\ Head(h) \in Nat /\ Len(h) \in Nat \ {0}
        /\ ToSet(h) = Head(h)..(Head(h) + Len(h) - 1)
        /\ Last(h) = Head(h) + Len(h) - 1
        /\ \A i, j \in DOMAIN h : i < j => h[i] < h[j]
    BY <1>8, <2>1, <2>2, RunIs
  <2>4. Last(h) \in Nat
    BY <2>3
  <2>5. QED
    BY <1>9, <2>3, <2>4
<1>11. InOrder(h)
  <2>1. CASE h = <<>>
    BY <2>1 DEF InOrder
  <2>2. CASE h # <<>>
    BY <1>10, <2>2 DEF InOrder
  <2>3. QED
    BY <2>1, <2>2
<1>12. ASSUME NEW m \in 1..log, h = <<>> \/ m > Last(h) PROVE m \in InQueue(down') \cup lost'
  <2>1. ASSUME NEW i \in 2..Len(down), IsMessage(down[i], m) PROVE m \in InQueue(down')
    <3>1. down \in Seq(Events) /\ Len(down) \in Nat
      BY <1>1, QueuesTyped
    <3>2. i \in DOMAIN down /\ i # 1
      BY <3>1
    <3>3. i - 1 \in DOMAIN down' /\ down'[i - 1] = down[i]
      BY <1>6, <3>1, <3>2, Taken
    <3>4. QED
      BY <1>5, <2>1, <3>3 DEF InQueue
  <2>2. QED
    BY <1>3, <1>12, <2>1
<1>13. TypeOK'
  <2>1. lost' \in SUBSET Message
    BY <1>3, <1>5
  <2>2. moved' \in BOOLEAN /\ has_more' \in BOOLEAN /\ fate' \in SUBSET Fates
    BY <1>1, <1>3, TypedOnce DEF Awaited, AwaitedIn, More
  <2>3. QED
    BY <1>1, <1>3, <1>4, <1>5, <1>6, <1>8, <2>1, <2>2, TypedOnce, QueuesTyped, TypedAgain
<1>14. WindowBound'
  <2>1. Len(h) <= HistoryCapacity /\ HistoryCapacity \in Nat /\ MaxItems \in Nat /\ HistoryCapacity <= MaxItems
    BY <1>7, BoundsTyped DEF GoodHistory
  <2>2. QED
    BY <1>3, <1>8, <2>1 DEF WindowBound
<1>15. AllStored'
  BY <1>1, <1>3, <1>4, <1>7, <1>9 DEF AllStored
<1>16. Newer(down', Shown(h))
  <2>1. Newer(down', Shown(items) \cup Carried(Head(down)))
    BY <1>1, <1>6 DEF LiveIsNewer
  <2>2. Shown(h) \in SUBSET (Shown(items) \cup Carried(Head(down)))
    BY <1>9
  <2>3. QED
    BY <2>1, <2>2, NewerIs
<1>17. LiveIsNewer'
  BY <1>3, <1>16 DEF LiveIsNewer
<1>18. AskedHere'
  BY <1>1, <1>3, <1>6, QueuesTyped, NoneAsked
<1>19. QueueGoesOn'
  <2>1. ASSUME NEW x \in InQueue(down'), NEW m \in 1..log, x < m PROVE m \in InQueue(down') \cup lost'
    <3>1. h = <<>> \/ m > Last(h)
      <4>1. ASSUME h # <<>> PROVE m > Last(h)
        <5>1. Last(h) \in Shown(h)
          <6>1. h[Len(h)] \in ToSet(h) /\ Last(h) = h[Len(h)]
            BY <1>7, <4>1 DEF ToSet, Last
          <6>2. QED
            BY <1>9, <6>1
        <5>2. Last(h) < x
          BY <1>16, <5>1, NewerIs
        <5>3. x \in Nat /\ Last(h) \in Nat
          BY <1>10, <4>1 DEF InQueue, Message
        <5>4. QED
          BY <2>1, <5>2, <5>3
      <4>2. QED
        BY <4>1
    <3>2. QED
      BY <1>12, <3>1
  <2>2. QED
    BY <1>3, <2>1 DEF QueueGoesOn
<1>20. Accounted' = Shown(h) \cup InQueue(down') \cup lost'
  BY <1>3 DEF Accounted
<1>21. WindowGoesOn'
  <2>1. ASSUME NEW x \in Shown(h), NEW m \in 1..log, x < m PROVE m \in Accounted'
    <3>1. h # <<>>
      BY DEF Shown
    <3>2. x \in Head(h)..Last(h) /\ Head(h) \in Nat /\ Last(h) \in Nat
      BY <1>10, <3>1
    <3>3. m \in Head(h)..Last(h) \/ m > Last(h)
      BY <2>1, <3>2
    <3>4. QED
      BY <1>10, <1>12, <1>20, <3>1, <3>3
  <2>2. QED
    BY <1>3, <1>11, <2>1 DEF WindowGoesOn
<1>22. NothingOlder'
  <2>1. SUFFICES ASSUME ~has_more', NEW m \in 1..log PROVE m \in Accounted'
    BY <1>3 DEF NothingOlder
  <2>2. CASE h = <<>>
    BY <1>12, <1>20, <2>2
  <2>3. CASE h # <<>>
    <3>1. ~(Head(h) > 1) /\ Head(h) \in Nat /\ Last(h) \in Nat
      BY <1>3, <1>10, <2>1, <2>3 DEF More
    <3>2. m \in Head(h)..Last(h) \/ m > Last(h)
      BY <3>1
    <3>3. QED
      BY <1>10, <1>12, <1>20, <2>3, <3>2
  <2>4. QED
    BY <2>2, <2>3
<1>23. QED
  BY <1>13, <1>14, <1>15, <1>17, <1>18, <1>19, <1>21, <1>22 DEF IInv

\* A page for this window ends where it begins.
LEMMA ReceivePageKeeps == IInv /\ ReceivePage => IInv'
<1> SUFFICES ASSUME IInv, ReceivePage PROVE IInv'
  OBVIOUS
<1>1. TypeOK /\ AskedHere /\ AllStored /\ LiveIsNewer /\ QueueGoesOn /\ WindowGoesOn
  BY DEF IInv
<1>2. PICK page : page = Head(down)
  OBVIOUS
<1>3. /\ Receives("page") /\ items' = PushedInFront(items, page.messages) /\ has_more' = page.more
      /\ loading' = FALSE
      /\ fate' = (fate \ {"cut"}) \cup {f \in {"torn"} : moved}
                   \cup {f \in {"overshot"} : Len(items') > MaxItems}
      /\ moved' = (moved /\ AwaitedIn(up, Tail(down)))
      /\ UNCHANGED <<log, notices, calm, up, joined, lost, stuck>> /\ UNCHANGED gateway
  BY <1>2 DEF ReceivePage, LoadingAfterPage
<1>4. UNCHANGED <<general, inRoom, joining>>
  BY <1>3 DEF gateway
<1>5. items \in Seq(Item) /\ log \in Nat /\ log \in 0..MaxLog /\ up \in Seq(Requests)
  BY <1>1, QueuesTyped
<1>6. /\ down' \in Seq(Events) /\ Len(down') <= QueueCapacity
      /\ page \in Events /\ page.kind = "page" /\ down' = Tail(down)
      /\ AllKnown(down, log) => IsKnown(page, log) /\ AllKnown(down', log)
      /\ Newer(down, Shown(items)) => Newer(down', Shown(items) \cup Carried(page))
      /\ AtMostOne(down) => AtMostOne(down') /\ (Waits(page) => NoneWaits(down'))
      /\ NoneWaits(down) => NoneWaits(down') /\ ~Waits(page)
      /\ AllFit(down, FirstChat(items)) => AllFit(down', FirstChat(items)) /\ Fits(page, FirstChat(items))
  BY <1>1, <1>2, <1>3, ReceivesIs
<1>7. PICK p \in Seq(Message) : p = page.messages /\ page.more \in BOOLEAN
  BY <1>6, EventFacts
<1>8. /\ items' \in Seq(Item)
      /\ Shown(items') = Shown(items) \cup ToSet(p)
      /\ InOrder(items) /\ Run(p) /\ (\A m \in ToSet(p), x \in Shown(items) : m < x) => InOrder(items')
  BY <1>3, <1>5, <1>7, PushedInFrontIs
<1>9. InQueue(down') = InQueue(down)
  BY <1>1, <1>3, OtherReceived
<1>10. Carried(page) = ToSet(p) /\ ToSet(p) \subseteq 1..log /\ AllKnown(down', log)
  <2>1. ToSet(p) \subseteq Message
    BY DEF ToSet
  <2>2. Carried(page) = ToSet(p)
    BY <1>6, <1>7, <2>1 DEF Carried, IsMessage
  <2>3. QED
    BY <1>1, <1>6, <2>2 DEF AllStored, IsKnown
<1>11. Accounted' = Accounted \cup ToSet(p)
  BY <1>3, <1>8, <1>9 DEF Accounted
<1>12. Waits(page) /\ ~NoneWaits(down)
  <2>1. Waits(page)
    BY <1>6 DEF Waits
  <2>2. QED
    BY <1>6, <2>1
<1>13. Torn' <=> Torn \/ moved
  BY <1>3 DEF Torn
<1>14. ASSUME ~moved
       PROVE  /\ HasChat(items) /\ Run(p) /\ p # <<>>
              /\ Head(p) + Len(p) = FirstChat(items) /\ page.more = (Head(p) > 1)
  <2>1. HasChat(items) /\ AllFit(down, FirstChat(items))
    BY <1>1, <1>12, <1>14 DEF AskedHere
  <2>2. PageFits(page, FirstChat(items))
    BY <1>6, <2>1 DEF Fits
  <2>3. QED
    BY <1>7, <2>1, <2>2 DEF PageFits
<1>15. ASSUME ~moved
       PROVE  /\ ToSet(p) = Head(p)..(FirstChat(items) - 1) /\ Head(p) \in Nat
              /\ FirstChat(items) \in Nat /\ FirstChat(items) \in Shown(items) /\ Head(p) <= FirstChat(items)
  <2>1. p \in Seq(Nat)
    <3>1. Message \subseteq Nat
      BY DEF Message
    <3>2. QED
      BY <3>1, SeqMonotonic
  <2>2. /\ Head(p) \in Nat /\ Len(p) \in Nat \ {0}
        /\ ToSet(p) = Head(p)..(Head(p) + Len(p) - 1)
    BY <1>14, <1>15, <2>1, RunIs
  <2>3. FirstChat(items) \in Nat /\ FirstChat(items) \in Shown(items)
    BY <1>14, <1>15, FirstChatStored DEF Message
  <2>4. QED
    BY <1>14, <1>15, <2>2, <2>3
<1>16. ASSUME InOrder(items), HasChat(items), NEW x \in Shown(items) PROVE FirstChat(items) <= x
  <2>1. PICK k \in DOMAIN items :
          /\ FirstChat(items) = items[k] /\ items[k] \in Message /\ IsChat(items[k])
          /\ \A i \in DOMAIN items : i < k => ~IsChat(items[i])
    BY <1>5, <1>16, FirstChatIs
  <2>2. PICK i \in DOMAIN items : items[i] = x /\ x \in Message
    BY DEF Shown
  <2>3. IsChat(items[i])
    BY <1>5, <2>2, ShownIs
  <2>4. k = i \/ k < i
    BY <1>5, <2>1, <2>3
  <2>5. items[k] = x \/ items[k] < x
    BY <1>16, <2>1, <2>2, <2>3, <2>4 DEF InOrder
  <2>6. items[k] \in Nat /\ x \in Nat
    BY <2>1, <2>2 DEF Message
  <2>7. QED
    BY <2>1, <2>5, <2>6
<1>17. TypeOK'
  <2>1. moved' \in BOOLEAN /\ loading' \in BOOLEAN /\ has_more' \in BOOLEAN
    BY <1>3, <1>7
  <2>2. fate' \in SUBSET Fates
    BY <1>1, <1>3, TypedOnce DEF Fates
  <2>3. QED
    BY <1>1, <1>3, <1>4, <1>5, <1>6, <1>8, <2>1, <2>2, TypedOnce, QueuesTyped, TypedAgain
<1>18. WindowBound'
  <2>1. Len(items') \in Nat /\ MaxItems \in Nat
    BY <1>8, BoundsTyped
  <2>2. CASE Len(items') > MaxItems
    BY <1>3, <2>2 DEF WindowBound
  <2>3. CASE ~(Len(items') > MaxItems)
    BY <2>1, <2>3 DEF WindowBound
  <2>4. QED
    BY <2>2, <2>3
<1>19. AllStored'
  <2>1. Shown(items') \subseteq 1..log
    BY <1>1, <1>8, <1>10 DEF AllStored
  <2>2. QED
    BY <1>1, <1>3, <1>4, <1>10, <2>1 DEF AllStored
<1>20. LiveIsNewer'
  BY <1>1, <1>6, <1>8, <1>10 DEF LiveIsNewer
<1>21. AskedHere'
  <2>1. ASSUME ~moved' PROVE NoneWaits(up) /\ NoneWaits(down')
    <3>1. CASE moved
      <4>1. ~AwaitedIn(up, down')
        BY <1>3, <1>6, <2>1, <3>1
      <4>2. QED
        BY <1>5, <1>6, <4>1, WaitsIs
    <3>2. CASE ~moved
      BY <1>1, <1>6, <1>12, <3>2 DEF AskedHere
    <3>3. QED
      BY <3>1, <3>2
  <2>2. ~moved' => AtMostOne(up) /\ AtMostOne(down')
    BY <1>5, <1>6, <2>1, WaitsIs
  <2>3. QED
    BY <1>3, <2>1, <2>2 DEF AskedHere
<1>22. QueueGoesOn'
  BY <1>1, <1>3, <1>9 DEF QueueGoesOn
<1>23. WindowGoesOn'
  <2>1. SUFFICES ASSUME ~Torn'
                 PROVE  InOrder(items') /\ \A x \in Shown(items'), m \in 1..log : x < m => m \in Accounted'
    BY <1>3 DEF WindowGoesOn
  <2>2. ~moved /\ ~Torn /\ InOrder(items)
    BY <1>1, <1>13, <2>1 DEF WindowGoesOn
  <2>3. \A m \in ToSet(p), x \in Shown(items) : m < x
    <3>1. ASSUME NEW m \in ToSet(p), NEW x \in Shown(items) PROVE m < x
      <4>1. FirstChat(items) <= x
        BY <1>14, <1>16, <2>2
      <4>2. x \in Nat
        BY DEF Shown, Message
      <4>3. QED
        BY <1>15, <2>2, <4>1, <4>2
    <3>2. QED
      BY <3>1
  <2>4. InOrder(items')
    BY <1>8, <1>14, <2>2, <2>3
  <2>5. ASSUME NEW x \in Shown(items'), NEW m \in 1..log, x < m PROVE m \in Accounted'
    <3>1. CASE x \in Shown(items)
      BY <1>1, <1>11, <2>2, <2>5, <3>1 DEF WindowGoesOn
    <3>2. CASE x \in ToSet(p)
      <4>1. m \in ToSet(p) \/ m = FirstChat(items) \/ FirstChat(items) < m
        BY <1>15, <2>2, <2>5, <3>2
      <4>2. FirstChat(items) \in Accounted
        BY <1>15, <2>2 DEF Accounted
      <4>3. FirstChat(items) < m => m \in Accounted
        BY <1>1, <1>15, <2>2 DEF WindowGoesOn
      <4>4. QED
        BY <1>11, <4>1, <4>2, <4>3
    <3>3. QED
      BY <1>8, <3>1, <3>2
  <2>6. QED
    BY <2>4, <2>5
<1>24. NothingOlder'
  <2>1. SUFFICES ASSUME ~has_more', fate' \cap {"cut", "torn"} = {}, NEW m \in 1..log PROVE m \in Accounted'
    BY <1>3 DEF NothingOlder
  <2>2. ~Torn' /\ ~moved /\ ~Torn
    BY <1>13, <2>1 DEF Torn
  <2>3. ~(Head(p) > 1)
    BY <1>3, <1>14, <2>1, <2>2
  <2>4. m \in ToSet(p) \/ m = FirstChat(items) \/ FirstChat(items) < m
    BY <1>15, <2>2, <2>3
  <2>5. FirstChat(items) \in Accounted
    BY <1>15, <2>2 DEF Accounted
  <2>6. FirstChat(items) < m => m \in Accounted
    BY <1>1, <1>15, <2>2 DEF WindowGoesOn
  <2>7. QED
    BY <1>11, <2>4, <2>5, <2>6
<1>25. QED
  BY <1>17, <1>18, <1>19, <1>20, <1>21, <1>22, <1>23, <1>24 DEF IInv

-----------------------------------------------------------------------------
(* The theorems *)

LEMMA InitKeeps == Init => IInv
<1> SUFFICES ASSUME Init PROVE IInv
  OBVIOUS
<1>1. /\ log \in Past /\ notices = 0 /\ calm = FALSE /\ general \in BOOLEAN /\ inRoom = general
      /\ joining = NotJoining /\ up = <<>> /\ down = <<>> /\ joined = general
      /\ items = (IF general THEN History ELSE <<>>)
      /\ has_more = (general /\ More(History))
      /\ loading = FALSE /\ lost = (IF general THEN {} ELSE 1..log)
      /\ moved = FALSE /\ fate = {} /\ stuck = "no"
  BY DEF Init
<1>2. log \in 0..MaxLog /\ log \in Nat /\ MaxLog \in Nat /\ 1..log \subseteq Message
  <2>1. log \in 0..MaxLog /\ MaxLog \in Nat
    BY <1>1, BoundsTyped
  <2>2. QED
    BY <2>1 DEF Message
<1>3. PICK h \in Seq(Message) : h = History /\ GoodHistory(h, log)
  BY <1>2, HistoryIs
<1>4. /\ h = <<>> => log = 0
      /\ h # <<>> => ToSet(h) = Head(h)..log /\ Head(h) \in Message
  BY <1>2, <1>3, HistoryIs
<1>5. h \in Seq(Item) /\ h \in Seq(Nat) /\ Len(h) \in Nat
  <2>1. Message \subseteq Item /\ Message \subseteq Nat
    BY DEF Item, Message
  <2>2. h \in Seq(Item)
    BY <2>1, SeqMonotonic
  <2>3. h \in Seq(Nat)
    BY <2>1, SeqMonotonic
  <2>4. QED
    BY <2>2, <2>3
<1>6. Shown(h) = ToSet(h) /\ Shown(h) \subseteq 1..log
  <2>1. Shown(h) = ToSet(h)
    BY DEF Shown, ToSet
  <2>2. QED
    BY <1>3, <2>1 DEF GoodHistory
<1>7. InOrder(h)
  <2>1. CASE h = <<>>
    BY <2>1 DEF InOrder
  <2>2. CASE h # <<>>
    <3>1. \A i, j \in DOMAIN h : i < j => h[i] < h[j]
      BY <1>3, <1>5, <2>2, RunIs DEF GoodHistory
    <3>2. QED
      BY <3>1 DEF InOrder
  <2>3. QED
    BY <2>1, <2>2
<1>8. /\ items \in Seq(Item) /\ Shown(items) \subseteq 1..log /\ InOrder(items)
      /\ Len(items) <= MaxItems
  <2>1. CASE general
    <3>1. Len(h) <= HistoryCapacity /\ HistoryCapacity \in Nat /\ MaxItems \in Nat /\ HistoryCapacity <= MaxItems
      BY <1>3, BoundsTyped DEF GoodHistory
    <3>2. items = h
      BY <1>1, <1>3, <2>1
    <3>3. QED
      BY <1>5, <1>6, <1>7, <3>1, <3>2
  <2>2. CASE ~general
    <3>1. items = <<>> /\ MaxItems \in Nat
      BY <1>1, <2>2, BoundsTyped
    <3>2. Shown(items) = {} /\ InOrder(items) /\ items \in Seq(Item) /\ Len(items) = 0
      BY <3>1 DEF Shown, InOrder
    <3>3. QED
      BY <3>1, <3>2
  <2>3. QED
    BY <2>1, <2>2
<1>9. /\ down = <<>> /\ DOMAIN down = {} /\ InQueue(down) = {} /\ DOMAIN up = {}
      /\ NoneWaits(down) /\ NoneWaits(up) /\ AllKnown(down, log) /\ NothingAskedAfter(up, log)
      /\ Newer(down, Shown(items))
  <2>1. DOMAIN down = {} /\ DOMAIN up = {}
    BY <1>1
  <2>2. QED
    BY <1>1, <2>1 DEF InQueue, NoneWaits, AllKnown, NothingAskedAfter, Newer
<1>10. /\ \A x \in Shown(items), m \in 1..log : x < m => m \in Accounted
       /\ ~has_more => 1..log \subseteq Accounted
  <2>1. CASE general
    <3>1. items = h /\ has_more = More(h)
      <4>1. items = h
        BY <1>1, <1>3, <2>1
      <4>2. has_more <=> More(h)
        BY <1>1, <1>3, <2>1
      <4>3. has_more \in BOOLEAN
        BY <1>1
      <4>4. QED
        BY <4>1, <4>2, <4>3 DEF More
    <3>2. Shown(h) \subseteq Accounted
      BY <3>1 DEF Accounted
    <3>3. CASE h = <<>>
      <4>1. 1..log = {}
        BY <1>4, <3>3
      <4>2. QED
        BY <4>1
    <3>4. CASE h # <<>>
      <4>1. Shown(h) = Head(h)..log /\ Head(h) \in Nat \ {0}
        BY <1>4, <1>6, <3>4 DEF Message
      <4>2. \A x \in Head(h)..log, m \in 1..log : x < m => m \in Head(h)..log
        BY <1>2, <4>1
      <4>3. ~(Head(h) > 1) => 1..log \subseteq Head(h)..log
        BY <1>2, <4>1
      <4>4. QED
        BY <3>1, <3>2, <3>4, <4>1, <4>2, <4>3 DEF More
    <3>5. QED
      BY <3>3, <3>4
  <2>2. CASE ~general
    BY <1>1, <2>2 DEF Accounted
  <2>3. QED
    BY <2>1, <2>2
<1>11. TypeOK
  <2>1. lost \in SUBSET Message
    BY <1>1, <1>2
  <2>2. has_more \in BOOLEAN
    BY <1>1
  <2>3. 0 \in 0..MaxNotices /\ QueueCapacity \in Nat
    BY BoundsTyped
  <2>4. up \in Seq(Requests) /\ down \in Seq(Events) /\ Len(up) = 0 /\ Len(down) = 0
    BY <1>1
  <2>5. items \in Seq(Message \cup {NoticeItem})
    <3>1. Item = Message \cup {NoticeItem}
      BY DEF Item
    <3>2. QED
      BY <1>8, <3>1
  <2>6. notices \in 0..MaxNotices /\ log \in 0..MaxLog
    BY <1>1, <1>2, <2>3
  <2>7. {calm, general, inRoom, joined, has_more, loading, moved} \subseteq BOOLEAN
    BY <1>1, <2>2
  <2>8. Len(up) <= QueueCapacity /\ Len(down) <= QueueCapacity
    BY <2>3, <2>4
  <2>9. fate \subseteq Fates /\ stuck \in {"no", "queue full", "refused", "answer lost"}
    BY <1>1
  <2>10. QED
    BY <1>1, <2>1, <2>4, <2>5, <2>6, <2>7, <2>8, <2>9 DEF TypeOK
<1>12. WindowBound
  BY <1>8 DEF WindowBound
<1>13. AllStored
  BY <1>1, <1>8, <1>9 DEF AllStored, NotJoining
<1>14. LiveIsNewer /\ QueueGoesOn
  BY <1>9 DEF LiveIsNewer, QueueGoesOn
<1>15. AskedHere
  BY <1>9 DEF AskedHere, AtMostOne, NoneWaits
<1>16. WindowGoesOn /\ NothingOlder
  BY <1>8, <1>10 DEF WindowGoesOn, NothingOlder
<1>17. QED
  BY <1>11, <1>12, <1>13, <1>14, <1>15, <1>16 DEF IInv

LEMMA StepKeeps == IInv /\ [Next]_vars => IInv'
<1> SUFFICES ASSUME IInv, [Next]_vars PROVE IInv'
  OBVIOUS
<1>1. CASE Post \/ Notice
  BY <1>1, PostKeeps, NoticeKeeps
<1>2. CASE Serve
  BY <1>2, ReadForJoinKeeps, RefuseJoinKeeps, InsertAndAnswerKeeps, LeaveRoomKeeps,
     LoadHistoryKeeps, RefuseHistoryKeeps DEF Serve
<1>3. CASE Receive
  BY <1>3, ReceiveLineKeeps, ReceiveJoinedKeeps, ReceiveOtherKeeps, ReceivePageKeeps DEF Receive
<1>4. CASE PageUp \/ Clear \/ JoinRoom \/ DeleteRoom
  BY <1>4, PageUpKeeps, ClearKeeps, RequestKeeps
<1>5. CASE Settle \/ UNCHANGED vars
  BY <1>5, SettleKeeps
<1>6. QED
  BY <1>1, <1>2, <1>3, <1>4, <1>5 DEF Next

LEMMA InvHolds == Spec => []IInv
<1>1. QED
  BY InitKeeps, StepKeeps, PTL DEF Spec

\* A message between two that are shown is shown or lost: what is still in the queue
\* is newer than both.
LEMMA WindowFollows ==
    ASSUME IInv
    PROVE  WindowSound
<1>1. TypeOK /\ WindowBound /\ AllStored /\ LiveIsNewer /\ WindowGoesOn
  BY DEF IInv
<1>2. Ascending
  BY <1>1 DEF Ascending, WindowGoesOn, InOrder, Ordered
<1>3. Contiguous
  <2>1. SUFFICES ASSUME ~Torn, NEW i \in DOMAIN items, NEW j \in DOMAIN items,
                        IsChat(items[i]), IsChat(items[j]), NEW m \in items[i]..items[j]
                 PROVE  m \in ToSet(items) \cup lost
    BY DEF Contiguous
  <2>2. items \in Seq(Item) /\ log \in Nat
    BY <1>1, QueuesTyped
  <2>3. items[i] \in Message /\ items[j] \in Message
    BY <2>1, <2>2, ShownIs
  <2>4. items[i] \in Shown(items) /\ items[j] \in Shown(items)
    BY <2>3 DEF Shown
  <2>5. items[i] \in 1..log /\ items[j] \in 1..log
    BY <1>1, <2>4 DEF AllStored
  <2>6. m \in 1..log /\ (m = items[i] \/ items[i] < m) /\ m <= items[j]
    BY <2>2, <2>5
  <2>7. m \in Accounted
    <3>1. CASE m = items[i]
      BY <2>4, <3>1 DEF Accounted
    <3>2. CASE items[i] < m
      BY <1>1, <2>1, <2>4, <2>6, <3>2 DEF WindowGoesOn
    <3>3. QED
      BY <2>6, <3>1, <3>2
  <2>8. m \notin InQueue(down)
    <3>1. ASSUME m \in InQueue(down) PROVE FALSE
      <4>1. items[j] < m
        BY <1>1, <2>4, <3>1, NewerIs DEF LiveIsNewer
      <4>2. QED
        BY <2>5, <2>6, <4>1
    <3>2. QED
      BY <3>1
  <2>9. Shown(items) \subseteq ToSet(items)
    BY DEF Shown, ToSet
  <2>10. QED
    BY <2>7, <2>8, <2>9 DEF Accounted
<1>4. QED
  BY <1>1, <1>2, <1>3 DEF WindowSound

LEMMA StartFollows ==
    ASSUME IInv
    PROVE  ReachesStart
<1>1. TypeOK /\ AllStored /\ LiveIsNewer /\ WindowGoesOn /\ NothingOlder
  BY DEF IInv
<1>2. SUFFICES ASSUME ~has_more, HasChat(items), fate \cap {"cut", "torn"} = {},
                      NEW m \in 1..(FirstChat(items) - 1)
               PROVE  m \in lost
  BY DEF ReachesStart
<1>3. items \in Seq(Item) /\ log \in Nat
  BY <1>1, QueuesTyped
<1>4. PICK k \in DOMAIN items :
        /\ FirstChat(items) = items[k] /\ items[k] \in Message /\ IsChat(items[k])
        /\ \A i \in DOMAIN items : i < k => ~IsChat(items[i])
  BY <1>2, <1>3, FirstChatIs
<1>5. PICK first \in Message : first = FirstChat(items) /\ first \in Shown(items) /\ first <= log
  BY <1>2, FirstChatStored
<1>6. m \in 1..log /\ m < first /\ first \in Nat
  <2>1. first \in Nat
    BY DEF Message
  <2>2. QED
    BY <1>3, <1>5, <2>1
<1>7. m \in Accounted
  BY <1>1, <1>2, <1>6 DEF NothingOlder
<1>8. m \notin Shown(items)
  <2>1. ASSUME m \in Shown(items) PROVE FALSE
    <3>1. PICK i \in DOMAIN items : items[i] = m /\ m \in Message
      BY <2>1 DEF Shown
    <3>2. IsChat(items[i])
      BY <1>3, <3>1, ShownIs
    <3>3. i \in Nat /\ k \in Nat /\ ~(i < k)
      BY <1>3, <1>4, <3>2
    <3>4. i = k \/ k < i
      BY <3>3
    <3>5. InOrder(items)
      BY <1>1, <1>2 DEF WindowGoesOn, Torn
    <3>6. m = first \/ first < m
      BY <1>4, <1>5, <3>1, <3>2, <3>4, <3>5 DEF InOrder
    <3>7. QED
      BY <1>6, <3>6
  <2>2. QED
    BY <2>1
<1>9. m \notin InQueue(down)
  <2>1. ASSUME m \in InQueue(down) PROVE FALSE
    <3>1. first < m
      BY <1>1, <1>5, <2>1, NewerIs DEF LiveIsNewer
    <3>2. QED
      BY <1>6, <3>1
  <2>2. QED
    BY <2>1
<1>10. QED
  BY <1>7, <1>8, <1>9 DEF Accounted

\* WindowSound: what a terminal shows of a room is in order, without a gap and within
\* its bound, unless a page came in front of a window it was not asked for or made it
\* too long, for every length of the room, of the window, of a page and of the queues
\* (tui.rs, apply_chat_event; server.rs, handle_load_history).
THEOREM WindowSoundCorrect == Spec => []WindowSound
<1>1. IInv => WindowSound
  BY WindowFollows
<1>2. QED
  BY <1>1, InvHolds, PTL

\* ReachesStart: where the terminal offers nothing older, nothing older is left, as
\* long as the window was not cut at its front (tui.rs, has_more_history).
THEOREM ReachesStartCorrect == Spec => []ReachesStart
<1>1. IInv => ReachesStart
  BY StartFollows
<1>2. QED
  BY <1>1, InvHolds, PTL
===============================================================================
