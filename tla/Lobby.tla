-------------------------------- MODULE Lobby --------------------------------
(***************************************************************************)
(* The lobby of the terminal UI (tui.rs, run_lobby and LobbyApp): a list   *)
(* of the groups on the local network that a background search replaces    *)
(* every few seconds, a cursor in it, and dialogs.  Two of the dialogs     *)
(* keep the place in the list that they were opened at, not the group.     *)
(*                                                                         *)
(* The loop of run_lobby waits for a key, for the result of the search in  *)
(* flight and for the refresh interval; the search itself, which asks one  *)
(* gateway after the other, runs beside it.  The place of a group in a     *)
(* list is given by its name; here a group is a number and the order is    *)
(* that of the numbers.                                                    *)
(***************************************************************************)
EXTENDS Naturals, FiniteSets, Sequences

CONSTANTS
    Gateway,
    Group,      \* the groups that can exist, in the order of their names
    GatewayOf,  \* the gateway each of them is on
    InviteOnly  \* those with the access mode Invite

ASSUME LobbyAssumption ==
    /\ Group \subseteq Nat \ {0}
    /\ IsFiniteSet(Group)
    /\ GatewayOf \in [Group -> Gateway]
    /\ InviteOnly \subseteq Group

VARIABLES
    made,       \* the groups that exist
    quiet,      \* history: from here on the network loses nothing and nobody creates groups
    saved,      \* the groups whose token is in the credentials file
    screen,     \* where run_interactive is: "lobby", "away" with an action, or "panicked"
    action,     \* the action that run_lobby returned
    gateways,   \* LobbyApp.gateways
    groups,     \* LobbyApp.groups
    selected,   \* LobbyApp.selected
    mode,       \* LobbyApp.mode
    refreshing, \* LobbyApp.refreshing
    search,     \* the search that start_discovery spawned
    target,     \* history: the group that was shown at the place the open dialog keeps
    replaced,   \* history: another group, or none, has come to that place since
    shrunk      \* history: the list has become shorter since

app == <<gateways, groups, selected, mode, refreshing>>
history == <<target, replaced, shrunk>>
lobbyVars == <<made, quiet, saved, screen, action, app, search, history>>

NoGroup == 0
Kinds == {"CreateGroup", "DirectJoin", "Nickname"} \* LobbyInputKind

\* What is typed counts only for whether Enter accepts it.
Modes ==
    [kind : {"Browse"}]
      \cup [kind : Kinds, valid : BOOLEAN]
      \cup [kind : {"ChooseAccess"}, gateway : Gateway]
      \cup [kind : {"InviteToken"}, index : Nat, valid : BOOLEAN]
      \cup [kind : {"ConfirmForget"}, index : Nat]
Browse == [kind |-> "Browse"]

\* LobbyDiscovery, while it is put together
Searches ==
    [state : {"none", "listening", "failed"}]
      \cup [state : {"asking"}, found : SUBSET Gateway, todo : SUBSET Gateway, listed : SUBSET Group]
NoSearch == [state |-> "none"]
NewSearch == [state |-> "listening"]

\* LobbyAction; "as" is the group it was meant for, as far as the screen told
Actions ==
    [name : {"Quit", "SetNickname", "DirectJoin"}]
      \cup [name : {"Join", "ForgetCredential"}, group : Group, as : Group]
      \cup [name : {"Create"}, gateway : Gateway]
NoAction == [name |-> "none"]

LobbyTypeOK ==
    /\ made \subseteq Group
    /\ quiet \in BOOLEAN
    /\ saved \subseteq Group
    /\ screen \in {"lobby", "away", "panicked"}
    /\ action \in Actions \cup {NoAction}
    /\ gateways \subseteq Gateway
    /\ groups \in Seq(Group)
    /\ selected \in Nat
    /\ mode \in Modes
    /\ refreshing \in BOOLEAN
    /\ search \in Searches
    /\ target \in Group \cup {NoGroup}
    /\ replaced \in BOOLEAN
    /\ shrunk \in BOOLEAN
------------------------------------------------------------------------------
(* Places in the list count from 0, as in the code. *)

Lesser(a, b) == IF a < b THEN a ELSE b

Last0 == IF groups = <<>> THEN 0 ELSE Len(groups) - 1
At(list, place) == IF place < Len(list) THEN list[place + 1] ELSE NoGroup

\* The groups of S in the order of their names: the one list there is
Listings(S) ==
    {list \in [1..Cardinality(S) -> S] : \A i, j \in DOMAIN list : i < j => list[i] < list[j]}

On(gateway) == {g \in made : GatewayOf[g] = gateway}

\* run_lobby starts: LobbyApp::new, and the first search
Opened ==
    /\ screen' = "lobby"
    /\ action' = NoAction
    /\ gateways' = {}
    /\ groups' = <<>>
    /\ selected' = 0
    /\ mode' = Browse
    /\ refreshing' = TRUE
    /\ search' = NewSearch
    /\ target' = NoGroup
    /\ replaced' = FALSE
    /\ shrunk' = FALSE

LobbyInit ==
    /\ made \in SUBSET Group
    /\ quiet = FALSE
    /\ saved \in SUBSET made
    /\ screen = "lobby"
    /\ action = NoAction
    /\ gateways = {}
    /\ groups = <<>>
    /\ selected = 0
    /\ mode = Browse
    /\ refreshing = TRUE
    /\ search = NewSearch
    /\ target = NoGroup
    /\ replaced = FALSE
    /\ shrunk = FALSE
------------------------------------------------------------------------------
(* The search beside the loop. *)

\* discovery::discover: the gateways whose answers arrive in time
Listen ==
    /\ search.state = "listening"
    /\ \E found \in IF quiet THEN {Gateway} ELSE SUBSET Gateway :
          search' = [state |-> "asking", found |-> found, todo |-> found, listed |-> {}]
    /\ UNCHANGED <<made, quiet, saved, screen, action, app, history>>

ListenFails ==
    /\ search.state = "listening"
    /\ ~quiet
    /\ search' = [state |-> "failed"]
    /\ UNCHANGED <<made, quiet, saved, screen, action, app, history>>

\* client::inspect_gateway; a gateway that does not answer is skipped but stays found
Inspect ==
    /\ search.state = "asking"
    /\ \E g \in search.todo : \E groupsOf \in IF quiet THEN {On(g)} ELSE {On(g), {}} :
          search' = [search EXCEPT !.todo = @ \ {g}, !.listed = @ \cup groupsOf]
    /\ UNCHANGED <<made, quiet, saved, screen, action, app, history>>

\* variant: the cursor stays where it is
SetDiscoveryUnclamped(found, list) ==
    /\ gateways' = found
    /\ groups' = list
    /\ selected' = selected

\* LobbyApp::set_discovery
SetDiscovery(found, list) ==
    /\ gateways' = found
    /\ groups' = list
    /\ selected' = Lesser(selected, IF list = <<>> THEN 0 ELSE Len(list) - 1)

Dialog == mode.kind \in {"InviteToken", "ConfirmForget"}

\* The loop takes the result; an open dialog stays open.
ReceiveFound ==
    /\ screen = "lobby"
    /\ search.state = "asking" /\ search.todo = {}
    /\ \E list \in Listings(search.listed) : SetDiscovery(search.found, list)
    /\ replaced' = (replaced \/ (Dialog /\ At(groups', mode.index) # target))
    /\ shrunk' = (shrunk \/ (Dialog /\ Len(groups') < Len(groups)))
    /\ refreshing' = FALSE
    /\ search' = NoSearch
    /\ UNCHANGED <<made, quiet, saved, screen, action, mode, target>>

\* variant: the flag is reset with a result and not with an error
FlagAfterError == refreshing

FlagAfterFailure == FALSE

ReceiveFailed ==
    /\ screen = "lobby"
    /\ search.state = "failed"
    /\ refreshing' = FlagAfterFailure
    /\ search' = NoSearch
    /\ UNCHANGED <<made, quiet, saved, screen, action, gateways, groups, selected, mode, history>>

\* The refresh interval and the key R, neither of which starts a second search
StartSearch ==
    /\ screen = "lobby"
    /\ ~refreshing
    /\ refreshing' = TRUE
    /\ search' = NewSearch
    /\ UNCHANGED <<made, quiet, saved, screen, action, gateways, groups, selected, mode, history>>
------------------------------------------------------------------------------
(* Keys: LobbyApp::handle_key. *)

KeyIn(kind) == screen = "lobby" /\ mode.kind = kind
Stay == UNCHANGED <<made, quiet, saved, screen, action, gateways, groups, refreshing, search>>
Return(act) ==
    /\ screen' = "away"
    /\ action' = act
    /\ UNCHANGED <<made, quiet, saved, app, search, history>>
Open(m) ==
    /\ mode' = m
    /\ target' = IF "index" \in DOMAIN m THEN At(groups, m.index) ELSE NoGroup
    /\ replaced' = FALSE
    /\ shrunk' = FALSE
    /\ Stay /\ UNCHANGED selected

Up ==
    /\ KeyIn("Browse")
    /\ selected > 0
    /\ selected' = selected - 1
    /\ Stay /\ UNCHANGED <<mode, history>>

Down ==
    /\ KeyIn("Browse")
    /\ selected' = Lesser(selected + 1, Last0)
    /\ Stay /\ UNCHANGED <<mode, history>>

AsksToken(group) == group \in InviteOnly /\ group \notin saved

Enter ==
    /\ KeyIn("Browse")
    /\ groups # <<>>
    /\ LET group == groups[selected + 1] IN
         IF AsksToken(group)
         THEN Open([kind |-> "InviteToken", index |-> selected, valid |-> FALSE])
         ELSE Return([name |-> "Join", group |-> group, as |-> group])

\* variant: a place counted from 1
ForgetAfter(place) ==
    /\ mode' = [kind |-> "ConfirmForget", index |-> place + 1]
    /\ target' = At(groups, place)
    /\ replaced' = FALSE
    /\ shrunk' = FALSE
    /\ Stay /\ UNCHANGED selected

\* X: only where a token is saved
ForgetAt(place) == Open([kind |-> "ConfirmForget", index |-> place])

AskForget ==
    /\ KeyIn("Browse")
    /\ groups # <<>>
    /\ groups[selected + 1] \in saved
    /\ ForgetAt(selected)

\* C where there is a gateway, J, N; a nickname starts out as the present one
AskText ==
    /\ KeyIn("Browse")
    /\ \E kind \in Kinds :
          /\ kind = "CreateGroup" => gateways # {}
          /\ Open([kind |-> kind, valid |-> kind = "Nickname"])

\* Esc and q
Quit == KeyIn("Browse") /\ Return([name |-> "Quit"])

\* A character, Backspace or a paste (LobbyApp::paste)
Type ==
    /\ screen = "lobby"
    /\ mode.kind \in Kinds \cup {"InviteToken"}
    /\ \E valid \in BOOLEAN : mode' = [mode EXCEPT !.valid = valid]
    /\ Stay /\ UNCHANGED <<selected, history>>

\* Esc, and N where a question is asked
Cancel ==
    /\ screen = "lobby"
    /\ mode.kind # "Browse"
    /\ Open(Browse)

\* The gateway of the group under the cursor now, or the first that was found
CreateAt ==
    IF groups # <<>> THEN {GatewayOf[groups[selected + 1]]} ELSE gateways

\* Where no gateway is left the dialog only says so.
EnterGroupName ==
    /\ KeyIn("CreateGroup")
    /\ mode.valid
    /\ \E g \in CreateAt : Open([kind |-> "ChooseAccess", gateway |-> g])

EnterAddress ==
    /\ KeyIn("DirectJoin")
    /\ mode.valid
    /\ Return([name |-> "DirectJoin"])

EnterNickname ==
    /\ KeyIn("Nickname")
    /\ mode.valid
    /\ Return([name |-> "SetNickname"])

EnterAccess ==
    /\ KeyIn("ChooseAccess")
    /\ Return([name |-> "Create", gateway |-> mode.gateway])

\* &self.groups[*group_index] panics past the end of the list.
AnswerFor(name) ==
    LET group == At(groups, mode.index) IN
      IF group # NoGroup
      THEN Return([name |-> name, group |-> group, as |-> target])
      ELSE /\ screen' = "panicked"
           /\ UNCHANGED <<made, quiet, saved, action, app, search, history>>

EnterToken ==
    /\ KeyIn("InviteToken")
    /\ mode.valid
    /\ AnswerFor("Join")

ConfirmForget ==
    /\ KeyIn("ConfirmForget")
    /\ AnswerFor("ForgetCredential")
------------------------------------------------------------------------------
(* run_interactive between two lobbies. *)

\* What the action comes to: a token forgotten, perhaps one saved, perhaps a
\* group created
ComeBack ==
    /\ screen = "away"
    /\ action.name # "Quit"
    /\ CASE action.name = "ForgetCredential" ->
              saved' = saved \ {action.group} /\ UNCHANGED made
         [] action.name = "Join" ->
              saved' \in {saved, saved \cup {action.group}} /\ UNCHANGED made
         [] action.name = "Create" ->
              \/ UNCHANGED <<made, saved>>
              \/ \E g \in Group \ made :
                    /\ GatewayOf[g] = action.gateway
                    /\ made' = made \cup {g}
                    /\ saved' = saved \cup {g}
         [] OTHER -> \* a group joined by address is one of those that exist
              UNCHANGED <<made, saved>>
    /\ Opened
    /\ UNCHANGED quiet

\* Another user creates a group.
CreateElsewhere ==
    /\ ~quiet
    /\ \E g \in Group \ made : made' = made \cup {g}
    /\ UNCHANGED <<quiet, saved, screen, action, app, search, history>>

GoQuiet ==
    /\ ~quiet
    /\ quiet' = TRUE
    /\ UNCHANGED <<made, saved, screen, action, app, search, history>>

Loop == ReceiveFound \/ ReceiveFailed \/ StartSearch
Beside == Listen \/ ListenFails \/ Inspect
Keys ==
    \/ Up \/ Down \/ Enter \/ AskForget \/ AskText \/ Quit \/ Type \/ Cancel
    \/ EnterGroupName \/ EnterAddress \/ EnterNickname \/ EnterAccess
    \/ EnterToken \/ ConfirmForget

LobbyNext == Loop \/ Beside \/ Keys \/ ComeBack \/ CreateElsewhere \/ GoQuiet

LobbySpec == LobbyInit /\ [][LobbyNext]_lobbyVars

\* The search task runs, and select! takes every branch that stays ready
\* (tokio picks among the ready ones at random).  Nothing is assumed of keys.
LobbyFairSpec == LobbySpec /\ WF_lobbyVars(Listen) /\ WF_lobbyVars(Inspect) /\ WF_lobbyVars(ReceiveFound)
                 /\ WF_lobbyVars(ReceiveFailed) /\ WF_lobbyVars(StartSearch)
------------------------------------------------------------------------------

\* The cursor is on a group of the list whenever there is one: the key handlers
\* index the list with it unchecked, and every search may make the list shorter
\* (set_discovery, handle_key).
CursorInList == LobbyTypeOK /\ selected <= Last0

\* What leaves the lobby is for the group that was on the screen when the user
\* asked for it (a token that is forgotten was saved), and no index is past the
\* end of the list, unless a search has put another group in its place, or none,
\* while a dialog was open that keeps the index (InviteToken, ConfirmForget:
\* groups[group_index]).
ActsOnShown ==
    /\ action.name \in {"Join", "ForgetCredential"} =>
          action.group = action.as \/ (Dialog /\ replaced)
    /\ action.name = "ForgetCredential" => action.group \in saved \/ replaced
    /\ screen = "panicked" => Dialog /\ replaced /\ shrunk

\* Once the network is quiet, a lobby that stays open comes to list exactly the
\* groups that exist, whatever was lost before: a failed search does not end
\* the searching, and neither R nor the interval can wedge it (run_lobby).
ListCatchesUp ==
    quiet ~> (screen # "lobby" \/ groups \in Listings(made))
==============================================================================
