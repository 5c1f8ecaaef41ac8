----------------------------- MODULE ChatDialogs -----------------------------
(***************************************************************************)
(* The dialogs of an administrator's chat screen (tui.rs, ChatOverlay):    *)
(* the pending join requests, the members of the group and those of a      *)
(* private room are lists that the gateway sends, and a key decides about  *)
(* the entry under the cursor.                                             *)
(*                                                                         *)
(* An answer opens its dialog whatever is on the screen.  Whether the user *)
(* may decide depends on one flag of the dialog, which is set by a request *)
(* and reset by any answer and by any error.                               *)
(*                                                                         *)
(* Each queue stands for everything in its direction.  The private room    *)
(* stays, and its table has the fixed members in it.                       *)
(***************************************************************************)
EXTENDS Naturals, FiniteSets, Sequences

CONSTANTS
    Member,          \* the members of the group, in the order of their names
    Fixed,           \* administrators, about whom nothing can be decided
    Request,         \* join requests, in the order they were made
    PageSize,        \* MEMBER_PAGE_SIZE
    RequestPageSize, \* JOIN_REQUEST_PAGE_SIZE
    QueueCapacity,   \* CLIENT_QUEUE_CAPACITY
    Dialogs          \* bound: the dialogs of which the user opens one set

Lists == {"requests", "members", "room"}

ASSUME DialogsAssumption ==
    /\ Member \subseteq Nat /\ Request \subseteq Nat
    /\ IsFiniteSet(Member) /\ IsFiniteSet(Request)
    /\ Fixed \subseteq Member
    /\ {PageSize, RequestPageSize, QueueCapacity} \subseteq Nat \ {0}
    /\ Dialogs \subseteq SUBSET (Lists \cup {"text", "rotate"})

VARIABLES
    tables,  \* the requests that are pending, and who but the fixed is active and in the room
    dialogs, \* those that this user opens
    calm,    \* history: from here on the user only refreshes and the store does not fail
    up,      \* requests on their way to the session's task
    down,    \* events on their way to the terminal
    overlay, \* ChatApp.overlay
    fate,    \* history: why an answer may come to a dialog that does not wait for one
    stale,   \* history: the tables have changed since a list was sent, or one was not sent
    walk     \* history: what a user who went down from the first page was sent

terminal == <<up, overlay>>
vars == <<tables, dialogs, calm, up, down, overlay, fate, stale, walk>>

Id == Member \cup Request
Entry == [id : Id, on : BOOLEAN]

\* "text" is CreateRoom, "token" IssuedCredentials or RotatedToken
Overlays ==
    [kind : {"none", "text", "token"}]
      \cup [kind : {"rotate"}, confirming : BOOLEAN]
      \cup [kind : Lists, entries : Seq(Entry), selected : Nat,
            loading : BOOLEAN, offset : Nat, more : BOOLEAN]
Closed == [kind |-> "none"]
IsList(o) == o.kind \in Lists

\* History: kept, the dialog that asked is still open; next, the request is the
\* next page of the list shown, and nothing else was awaited.
Requests ==
    [kind : {"list"}, of : Lists, offset : Nat, next : BOOLEAN, kept : BOOLEAN]
      \cup [kind : {"decide"}, of : Lists, id : Id, on : BOOLEAN, kept : BOOLEAN]
      \cup [kind : {"rotate", "other"}, kept : BOOLEAN]
Events ==
    [kind : {"list"}, of : Lists, entries : Seq(Entry), offset : Nat, more : BOOLEAN, kept : BOOLEAN]
      \cup [kind : {"rotated", "error"}, to : {"list", "decide", "rotate", "other"}, kept : BOOLEAN]

TypeOK ==
    /\ tables \in [pending : SUBSET Request, active : SUBSET Member, included : SUBSET Member]
    /\ dialogs \in Dialogs
    /\ {calm, stale} \subseteq BOOLEAN
    /\ up \in Seq(Requests) /\ Len(up) <= QueueCapacity
    /\ down \in Seq(Events) /\ Len(down) <= QueueCapacity
    /\ overlay \in Overlays
    /\ fate \subseteq {"asked again", "ended by another"}
    /\ walk \in [of : Lists, ids : SUBSET Id, more : BOOLEAN]

NoWalk == [of |-> "requests", ids |-> {}, more |-> TRUE]

\* A table that no dialog shows stays as it is.
Init ==
    /\ dialogs \in Dialogs
    /\ tables \in [pending : {Request},
                   active : IF dialogs \cap {"members", "room"} = {} THEN {{}} ELSE SUBSET (Member \ Fixed),
                   included : IF "room" \in dialogs THEN SUBSET (Member \ Fixed) ELSE {{}}]
    /\ calm = FALSE
    /\ up = <<>>
    /\ down = <<>>
    /\ overlay \in {Closed, [kind |-> "token"]}
    /\ fate = {}
    /\ stale = TRUE
    /\ walk = NoWalk

\* An answer that a dialog waits for is on its way.
AwaitedIn(requests, events) ==
    \/ \E i \in DOMAIN requests : requests[i].kind # "other"
    \/ \E i \in DOMAIN events : events[i].kind # "error" \/ events[i].to # "other"
Awaited == AwaitedIn(up, down)
------------------------------------------------------------------------------
(* The lists, as the store returns them. *)

Sorted(S) ==
    CHOOSE list \in [1..Cardinality(S) -> S] : \A i, j \in DOMAIN list : i < j => list[i] < list[j]

\* Those that are on come first.
Rows(S, on) ==
    [i \in 1..Cardinality(S) |->
        LET id == (Sorted(S \cap on) \o Sorted(S \ on))[i] IN [id |-> id, on |-> id \in on]]

PendingJoinRequests(t) == Rows(t.pending, t.pending)
GroupMembers(t) == Rows(Member, t.active \cup Fixed)
RoomMembers(t) == Rows(t.active \cup Fixed, t.included \cup Fixed)

RowsOf(of, t) ==
    CASE of = "requests" -> PendingJoinRequests(t)
      [] of = "members" -> GroupMembers(t)
      [] of = "room" -> RoomMembers(t)

\* variant: there is one more page only if two of its rows are there
HasMoreLate(of, rows, offset) == of # "requests" /\ Len(rows) > offset + PageSize + 1

\* LIMIT PageSize + 1 OFFSET offset; of the join requests there is one page
HasMore(of, rows, offset) == of # "requests" /\ Len(rows) > offset + PageSize

SizeOf(of) == IF of = "requests" THEN RequestPageSize ELSE PageSize
Lesser(a, b) == IF a < b THEN a ELSE b

Page(of, rows, offset) ==
    IF offset >= Len(rows) THEN <<>>
    ELSE SubSeq(rows, offset + 1, Lesser(Len(rows), offset + SizeOf(of)))

Ids(rows) == {rows[i].id : i \in DOMAIN rows}
------------------------------------------------------------------------------
(* The gateway: one request of the session after the other. *)

RoomInQueue == Len(down) < QueueCapacity

\* send_to_client: a full queue drops the event
Sends(event) == down' = IF RoomInQueue THEN Append(down, event) ELSE down

Takes(kind) ==
    /\ up # <<>>
    /\ Head(up).kind = kind
    /\ up' = Tail(up)

\* The list is read from the tables t.
SendsList(of, offset, next, t) ==
    LET rows == RowsOf(of, t)
        page == Page(of, rows, offset)
        more == HasMore(of, rows, offset)
    IN  /\ Sends([kind |-> "list", of |-> of, entries |-> page, offset |-> offset,
                  more |-> more, kept |-> Head(up).kept])
        /\ stale' = ~RoomInQueue
        /\ walk' = IF RoomInQueue /\ offset = 0
                   THEN [of |-> of, ids |-> Ids(page), more |-> more]
                   ELSE IF RoomInQueue /\ next /\ walk.of = of
                   THEN [of |-> of, ids |-> walk.ids \cup Ids(page), more |-> more]
                   ELSE NoWalk

SendsError ==
    /\ Sends([kind |-> "error", to |-> Head(up).kind, kept |-> Head(up).kept])
    /\ stale' = TRUE
    /\ walk' = NoWalk

SendsEntries(of) ==
    /\ Takes("list")
    /\ Head(up).of = of
    /\ SendsList(of, Head(up).offset, Head(up).next, tables)
    /\ UNCHANGED <<tables, dialogs, calm, overlay, fate>>

ListJoinRequests == SendsEntries("requests")
ListGroupMembers == SendsEntries("members")
ListRoomMembers == SendsEntries("room")

Marked(S, id, on) == IF on THEN S \cup {id} ELSE S \ {id}

\* Whether a decision changes a row, and what it makes of the tables
Changes(of, id, on) ==
    CASE of = "requests" -> id \in tables.pending
      [] of = "members" -> id \in Member \ Fixed
      [] of = "room" -> id \in tables.active \ Fixed /\ on # (id \in tables.included)

\* A decision is answered with the first page of the list it was made in.
Decision(of, changed) ==
    /\ Takes("decide")
    /\ Head(up).of = of
    /\ Changes(of, Head(up).id, Head(up).on)
    /\ tables' = changed
    /\ SendsList(of, 0, FALSE, changed)
    /\ UNCHANGED <<dialogs, calm, overlay, fate>>

DecideJoinRequest ==
    Decision("requests", [tables EXCEPT !.pending = @ \ {Head(up).id}])
SetMemberBanned ==
    Decision("members", [tables EXCEPT !.active = Marked(@, Head(up).id, Head(up).on)])
SetRoomMember ==
    Decision("room", [tables EXCEPT !.included = Marked(@, Head(up).id, Head(up).on)])

\* join_request_not_found, member_not_manageable, room_membership_unchanged, ...
NothingChanged ==
    /\ Takes("decide")
    /\ ~Changes(Head(up).of, Head(up).id, Head(up).on)
    /\ SendsError
    /\ UNCHANGED <<tables, dialogs, calm, overlay, fate>>

\* handle_rotate_group_token
RotateToken ==
    /\ Takes("rotate")
    /\ Sends([kind |-> "rotated", to |-> "rotate", kept |-> Head(up).kept])
    /\ UNCHANGED <<tables, dialogs, calm, overlay, fate, stale, walk>>

\* anything else that the user sent, with no answer that concerns a dialog
TakeOther ==
    /\ Takes("other")
    /\ UNCHANGED <<tables, dialogs, calm, down, overlay, fate, stale, walk>>

\* the store fails, or the session is over its rate limit
Refuse ==
    /\ ~calm
    /\ \E kind \in {"list", "decide", "rotate", "other"} : Takes(kind)
    /\ SendsError
    /\ UNCHANGED <<tables, dialogs, calm, overlay, fate>>

Flipped(S, x) == IF x \in S THEN S \ {x} ELSE S \cup {x}

\* another administrator decides, or a request is made
OthersDecide ==
    /\ ~calm
    /\ \/ /\ "requests" \in dialogs
          /\ \E r \in Request : tables' = [tables EXCEPT !.pending = Flipped(@, r)]
       \/ /\ dialogs \cap {"members", "room"} # {}
          /\ \E m \in Member \ Fixed : tables' = [tables EXCEPT !.active = Flipped(@, m)]
       \/ /\ "room" \in dialogs
          /\ \E m \in Member \ Fixed : tables' = [tables EXCEPT !.included = Flipped(@, m)]
    /\ stale' = TRUE
    /\ walk' = NoWalk
    /\ UNCHANGED <<dialogs, calm, up, down, overlay, fate>>

Serve ==
    \/ ListJoinRequests \/ ListGroupMembers \/ ListRoomMembers
    \/ DecideJoinRequest \/ SetMemberBanned \/ SetRoomMember \/ NothingChanged
    \/ RotateToken \/ TakeOther \/ Refuse
------------------------------------------------------------------------------
(* The terminal: events. *)

Receives(kind) ==
    /\ down # <<>>
    /\ Head(down).kind = kind

LastOf(entries) == IF entries = <<>> THEN 0 ELSE Len(entries) - 1

\* variant: the cursor stays where it was
SelectedAsBefore(entries) == IF overlay.kind = Head(down).of THEN overlay.selected ELSE 0

SelectedIn(entries) ==
    IF overlay.kind = Head(down).of THEN Lesser(overlay.selected, LastOf(entries)) ELSE 0

\* what is still to come for a dialog that is no longer there
Abandoned(s) == [i \in DOMAIN s |-> [s[i] EXCEPT !.kept = FALSE]]

\* A dialog replaces another: what the other waits for is abandoned.
Replaces(kind) ==
    IF overlay.kind = kind
    THEN /\ down' = Tail(down)
         /\ UNCHANGED up
    ELSE /\ down' = Abandoned(Tail(down))
         /\ up' = Abandoned(up)

\* An answer or an error ends the waiting, whatever it belongs to.
FateAfter(foreign) ==
    fate' = IF ~AwaitedIn(up, Tail(down)) THEN {}
            ELSE IF foreign THEN fate \cup {"ended by another"} ELSE fate

ReceivesList(of) ==
    /\ Receives("list")
    /\ Head(down).of = of
    /\ LET e == Head(down) IN
          overlay' = [kind |-> of, entries |-> e.entries, selected |-> SelectedIn(e.entries),
                      loading |-> FALSE, offset |-> e.offset, more |-> e.more]
    /\ Replaces(of)
    /\ FateAfter(~Head(down).kept)
    /\ UNCHANGED <<tables, dialogs, calm, stale, walk>>

ReceiveJoinRequests == ReceivesList("requests")
ReceiveGroupMembers == ReceivesList("members")
ReceiveRoomMembers == ReceivesList("room")
ReceiveList == ReceiveJoinRequests \/ ReceiveGroupMembers \/ ReceiveRoomMembers

\* persist_rotated_token, then GroupTokenRotated
ReceiveRotated ==
    /\ Receives("rotated")
    /\ overlay' = [kind |-> "token"]
    /\ IF overlay.kind = "rotate"
       THEN /\ down' = Tail(down)
            /\ UNCHANGED up
       ELSE Replaces("token")
    /\ FateAfter(FALSE)
    /\ UNCHANGED <<tables, dialogs, calm, stale, walk>>

ReceiveError ==
    /\ Receives("error")
    /\ overlay' = IF IsList(overlay) THEN [overlay EXCEPT !.loading = FALSE] ELSE overlay
    /\ down' = Tail(down)
    /\ FateAfter(Head(down).to = "other" \/ ~Head(down).kept)
    /\ UNCHANGED <<tables, dialogs, calm, up, stale, walk>>

Receive == ReceiveList \/ ReceiveRotated \/ ReceiveError
------------------------------------------------------------------------------
(* The terminal: keys. *)

HasRoom == Len(up) < QueueCapacity

\* run_chat: try_send, after the dialog was told to wait
Asks(request) ==
    /\ up' = IF HasRoom THEN Append(up, request) ELSE up
    /\ stale' = (stale \/ ~HasRoom)

ListRequest(of, offset, next) ==
    [kind |-> "list", of |-> of, offset |-> offset, next |-> next, kept |-> TRUE]

Opens(of) ==
    /\ ~calm
    /\ of \in dialogs
    /\ overlay = Closed
    /\ overlay' = [kind |-> of, entries |-> <<>>, selected |-> 0,
                   loading |-> TRUE, offset |-> 0, more |-> FALSE]
    /\ Asks(ListRequest(of, 0, FALSE))
    /\ UNCHANGED <<tables, dialogs, calm, down, fate, walk>>

OpenJoinRequests == Opens("requests") \* F4
OpenRoomMembers == Opens("room")      \* F5
OpenGroupMembers == Opens("members")  \* F6

\* F2, F7
OpenLocal ==
    /\ ~calm
    /\ overlay = Closed
    /\ overlay' \in {[kind |-> "text"], [kind |-> "rotate", confirming |-> FALSE]}
    /\ overlay'.kind \in dialogs
    /\ UNCHANGED <<tables, dialogs, calm, up, down, fate, stale, walk>>

\* Esc, or Enter on a token
Close ==
    /\ ~calm
    /\ overlay # Closed
    /\ overlay' = Closed
    /\ up' = Abandoned(up)
    /\ down' = Abandoned(down)
    /\ UNCHANGED <<tables, dialogs, calm, fate, stale, walk>>

\* a chat message, a new room, ...
SendOther ==
    /\ ~calm
    /\ overlay.kind \in {"none", "text"}
    /\ overlay' = Closed
    /\ Asks([kind |-> "other", kept |-> TRUE])
    /\ UNCHANGED <<tables, dialogs, calm, down, fate, walk>>

\* saturating_sub
Minus(a, b) == IF a < b THEN 0 ELSE a - b

\* Up, Down; the choice of a token has to be confirmed again
MoveCursor ==
    /\ ~calm
    /\ \/ /\ IsList(overlay)
          /\ overlay' \in
                { [overlay EXCEPT !.selected = Minus(@, 1)],
                  [overlay EXCEPT !.selected = Lesser(@ + 1, LastOf(overlay.entries))] }
       \/ /\ overlay.kind = "rotate"
          /\ overlay' = [overlay EXCEPT !.confirming = FALSE]
    /\ UNCHANGED <<tables, dialogs, calm, up, down, fate, stale, walk>>

\* variant: not while the answer to another request is awaited
MayRefreshIdle == ~overlay.loading

MayRefresh == TRUE

\* r, whether or not an answer is awaited
Refresh ==
    /\ IsList(overlay)
    /\ MayRefresh
    /\ overlay' = [overlay EXCEPT !.loading = TRUE]
    /\ Asks(ListRequest(overlay.kind, overlay.offset, FALSE))
    /\ fate' = IF Awaited THEN fate \cup {"asked again"} ELSE fate
    /\ UNCHANGED <<tables, dialogs, calm, down, walk>>

\* PageDown, PageUp
TurnTo(offset, next) ==
    /\ ~calm
    /\ ~overlay.loading
    /\ overlay' = [overlay EXCEPT !.loading = TRUE, !.selected = 0]
    /\ Asks(ListRequest(overlay.kind, offset, next))
    /\ UNCHANGED <<tables, dialogs, calm, down, fate, walk>>

PageDown ==
    /\ IsList(overlay)
    /\ overlay.more
    /\ TurnTo(overlay.offset + PageSize, ~Awaited)

PageUp ==
    /\ IsList(overlay)
    /\ overlay.offset > 0
    /\ TurnTo(Minus(overlay.offset, PageSize), FALSE)

\* variant: the dialog does not wait for the answer
WaitingNot(o) == o

Waiting(o) == [o EXCEPT !.loading = TRUE]

\* The user decides about the entry under the cursor.
Decides(of, ons(_)) ==
    /\ ~calm
    /\ overlay.kind = of
    /\ overlay.entries # <<>>
    /\ ~overlay.loading
    /\ LET entry == overlay.entries[overlay.selected + 1] IN
          \E on \in ons(entry) :
             Asks([kind |-> "decide", of |-> of, id |-> entry.id, on |-> on, kept |-> TRUE])
    /\ overlay' = Waiting(overlay)
    /\ UNCHANGED <<tables, dialogs, calm, down, fate, walk>>

\* what is asked for is named: not "toggle", but the opposite of what is shown
Opposite(entry) == IF entry.id \in Fixed THEN {} ELSE {~entry.on}

ApproveOrReject == Decides("requests", LAMBDA entry : BOOLEAN) \* Enter or a, d
BanOrUnban == Decides("members", Opposite)                     \* Enter or b
IncludeOrNot == Decides("room", Opposite)                      \* Enter or Space

\* Enter, then y as often as the user likes
Rotate ==
    /\ ~calm
    /\ overlay.kind = "rotate"
    /\ IF overlay.confirming
       THEN /\ Asks([kind |-> "rotate", kept |-> TRUE])
            /\ UNCHANGED overlay
       ELSE /\ overlay' = [overlay EXCEPT !.confirming = TRUE]
            /\ UNCHANGED <<up, stale>>
    /\ UNCHANGED <<tables, dialogs, calm, down, fate, walk>>

Settle ==
    /\ ~calm
    /\ calm' = TRUE
    /\ UNCHANGED <<tables, dialogs, up, down, overlay, fate, stale, walk>>

Next ==
    \/ Serve \/ OthersDecide
    \/ Receive
    \/ OpenJoinRequests \/ OpenRoomMembers \/ OpenGroupMembers
    \/ OpenLocal \/ Close \/ SendOther
    \/ MoveCursor \/ Refresh \/ PageDown \/ PageUp
    \/ ApproveOrReject \/ BanOrUnban \/ IncludeOrNot
    \/ Rotate
    \/ Settle

Spec == Init /\ [][Next]_vars

\* A user who has waited long enough refreshes.
RefreshInVain == Refresh /\ overlay.loading /\ ~Awaited

\* The session's task and the terminal's loop go on.
FairSpec == Spec /\ WF_vars(Serve) /\ WF_vars(Receive) /\ WF_vars(RefreshInVain)
------------------------------------------------------------------------------
(* Safety. *)

\* The entry under the cursor exists, so that a decision does not index past
\* the end of a list that has become shorter (tui.rs:1155).
CursorInList ==
    TypeOK /\ (IsList(overlay) /\ overlay.entries # <<>> => overlay.selected < Len(overlay.entries))

\* While the user may decide, the list stays as it is under the cursor: an
\* answer comes to a dialog that waits for it, except one that a closed dialog
\* left behind, that the user asked for twice, or whose waiting the answer or
\* the error of another request has ended (tui.rs:984).
StaysPut ==
    [][ ReceiveList /\ IsList(overlay) /\ ~overlay.loading
          => ~Head(down).kept \/ fate # {} ]_vars

\* A dialog opens without the user's doing, in the middle of what is typed or
\* over a token that is shown only once, only if it was closed while its
\* answer was awaited (tui.rs:898).
OnlyStraysIntrude ==
    [][ (ReceiveList \/ ReceiveRotated) /\ overlay'.kind # overlay.kind
          => \/ ~Head(down).kept
             \/ overlay.kind = "rotate" /\ overlay'.kind = "token" ]_vars

\* Who pages down from the first page until there is no more has been shown
\* every member, unless the table changed meanwhile (storage.rs:739).  Join
\* requests are not paged: those beyond the first page come up when it is decided
\* about.
CompleteWalk ==
    walk.of # "requests" /\ ~walk.more => walk.ids = Ids(RowsOf(walk.of, tables))

\* A list in which the user may decide is what the store holds, unless another
\* administrator has changed it, or an answer was an error or was dropped
\* (server.rs:950).
ShowsTruth ==
    IsList(overlay) /\ ~overlay.loading /\ ~Awaited /\ ~stale
      => overlay.entries = Page(overlay.kind, RowsOf(overlay.kind, tables), overlay.offset)

\* The lists are true and complete.
ListsAreTrue == CompleteWalk /\ ShowsTruth

\* Answers come to the dialog that waits for them (tui.rs:898-992).
AnswersFit == StaysPut /\ OnlyStraysIntrude

(* Liveness. *)

\* A dialog that waits in vain is not locked: r asks again (tui.rs:1145).
Recovers == calm ~> ~IsList(overlay) \/ ~overlay.loading
=============================================================================
