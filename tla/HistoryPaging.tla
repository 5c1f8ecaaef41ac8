---------------------------- MODULE HistoryPaging ----------------------------
(***************************************************************************)
(* One room as one terminal shows it: a bounded window of its messages,    *)
(* filled by the history that comes with Welcome or RoomJoined, by live    *)
(* messages at the end, and by older pages that PageUp asks the gateway    *)
(* for (tui.rs, server.rs handle_load_history, storage.rs history_before). *)
(*                                                                         *)
(* A page does not say which window it was asked for, and loading_history, *)
(* which keeps the user from asking twice, is set before the request is    *)
(* sent and reset by the answer.                                           *)
(*                                                                         *)
(* A message is its sequence number.  Messages are stored and broadcast in *)
(* one step: how commit and broadcast race is the subject of RoomChat.     *)
(***************************************************************************)
EXTENDS Naturals, FiniteSets, Sequences, SequencesExt, FiniteSetsExt

CONSTANTS
    Past,            \* bound: how many messages the room may start with
    MaxLog,          \* bound: messages of the room
    MaxNotices,      \* bound: members that come and go
    MaxItems,        \* MAX_UI_ITEMS, 1000 in the code
    HistoryCapacity, \* HISTORY_CAPACITY, 200 in the code
    Limit,           \* the messages of a page, 100 in the code
    QueueCapacity,   \* CLIENT_QUEUE_CAPACITY, 256 in the code, in either direction
    SizeOf,          \* the size of every message
    Budget           \* HISTORY_FRAME_BUDGET, which a single message may exceed

ASSUME HistoryAssumption ==
    /\ MaxLog \in Nat /\ MaxNotices \in Nat
    /\ Past \subseteq 0..MaxLog
    /\ {MaxItems, HistoryCapacity, Limit, QueueCapacity} \subseteq Nat \ {0}
    /\ HistoryCapacity <= MaxItems
    /\ SizeOf \in [1..MaxLog -> Nat] /\ Budget \in Nat

VARIABLES
    log,      \* the messages stored are 1..log
    notices,  \* members that came or went
    calm,     \* history: from here on nothing happens but PageUp, and the store does not fail
    general,  \* this is the room that cannot be left
    inRoom,   \* the room is in ClientHandle.joined_rooms
    joining,  \* join_room, between reading the history and the insertion
    up,       \* requests on their way to the session's task
    down,     \* the session's queue and the events on their way to the terminal
    joined,   \* RoomView.joined: the user can open the room
    items,    \* RoomView.items
    has_more, \* RoomView.has_more_history
    loading,  \* RoomView.loading_history
    lost,     \* history: messages not sent as they came, or wiped out, and in no history since
    moved,    \* history: the window has lost its first message while a page was awaited
    fate,     \* history: what has happened to the window
    stuck     \* history: why the page awaited does not come

view == <<joined, items, has_more, loading>>
ghost == <<moved, fate, stuck>>
gateway == <<general, inRoom, joining>>
vars == <<log, notices, calm, gateway, up, down, view, lost, ghost>>

NoticeItem == 0
NotJoining == [on |-> FALSE]
Message == 1..MaxLog

Requests == [kind : {"join", "leave"}] \cup [kind : {"history"}, before : Message]
Events ==
    [kind : {"notice", "left", "error"}]
      \cup [kind : {"chat"}, message : Message]
      \cup [kind : {"joined"}, history : Seq(Message)]
      \cup [kind : {"page"}, messages : Seq(Message), more : BOOLEAN]
Fates ==
    { "torn",    \* a page was put in front of another window than it was asked for
      "cut",     \* the first message went after has_more was last set
      "overshot" \* a page made the window longer than MaxItems
    }

TypeOK ==
    /\ log \in 0..MaxLog /\ notices \in 0..MaxNotices
    /\ {calm, general, inRoom, joined, has_more, loading, moved} \subseteq BOOLEAN
    /\ joining \in {NotJoining} \cup [on : {TRUE}, history : Seq(Message)]
    /\ up \in Seq(Requests) /\ Len(up) <= QueueCapacity
    /\ down \in Seq(Events) /\ Len(down) <= QueueCapacity
    /\ items \in Seq(Message \cup {NoticeItem})
    /\ lost \subseteq Message
    /\ fate \subseteq Fates
    /\ stuck \in {"no", "queue full", "refused", "answer lost"}
------------------------------------------------------------------------------
(* What the gateway reads. *)

Least(a, b) == IF a < b THEN a ELSE b
Most(a, b) == IF a > b THEN a ELSE b
MessagesFrom(first, last) == [i \in 1..(last + 1 - first) |-> first + i - 1]

Size(first, last) == MapThenSumSet(LAMBDA m : SizeOf[m], first..last)

\* variant: a message that exceeds the budget alone does not fit either
FitNone(first, last) ==
    MessagesFrom(Min({k \in first..last : Size(k, last) <= Budget} \cup {last + 1}), last)

\* Messages are selected from the newest on until one does not fit.
Fit(first, last) ==
    IF last < first
    THEN <<>>
    ELSE MessagesFrom(Min({last} \cup {k \in first..last : Size(k, last) <= Budget}), last)

History == Fit(Most(1, log + 1 - HistoryCapacity), log)

\* variant: the message that was named is in the page
HistoryUpTo(before) == Fit(Most(1, before + 1 - Limit), before)

\* variant: the oldest messages come first
HistoryFromStart(before) == Fit(1, Least(Limit, before - 1))

HistoryBefore(before) == Fit(Most(1, before - Limit), before - 1)

More(messages) == messages # <<>> /\ Head(messages) > 1
------------------------------------------------------------------------------
(* The window. *)

IsChat(item) == item # NoticeItem
HasChat(window) == \E i \in DOMAIN window : IsChat(window[i])

FirstChat(window) == window[SelectInSeq(window, IsChat)]

PushBounded(window, item) ==
    Append(IF Len(window) = MaxItems THEN Tail(window) ELSE window, item)

Sorted(S) ==
    CHOOSE list \in [1..Cardinality(S) -> S] : \A i, j \in DOMAIN list : i < j => list[i] < list[j]

\* The messages that the window has not, in their order
PushedInFront(window, messages) ==
    LET places == {i \in DOMAIN messages : messages[i] \notin ToSet(window)}
    IN  [i \in 1..Cardinality(places) |-> messages[Sorted(places)[i]]] \o window

\* A page is asked for, or on its way.
AwaitedIn(requests, events) ==
    \/ \E i \in DOMAIN requests : requests[i].kind = "history"
    \/ \E i \in DOMAIN events : events[i].kind = "page"
Awaited == AwaitedIn(up, down)

\* The terminal starts with the Welcome of general, or with a room to join.
Init ==
    /\ log \in Past
    /\ notices = 0
    /\ calm = FALSE
    /\ general \in BOOLEAN
    /\ inRoom = general
    /\ joining = NotJoining
    /\ up = <<>>
    /\ down = <<>>
    /\ joined = general
    /\ items = IF general THEN History ELSE <<>>
    /\ has_more = (general /\ More(History))
    /\ loading = FALSE
    /\ lost = IF general THEN {} ELSE 1..log
    /\ moved = FALSE
    /\ fate = {}
    /\ stuck = "no"
------------------------------------------------------------------------------
(* The gateway: messages of others, and the requests of this session one   *)
(* after the other.                                                        *)

RoomInQueue == Len(down) < QueueCapacity

\* send_to_client: a full queue drops the event
Sends(event) == down' = IF RoomInQueue THEN Append(down, event) ELSE down

Post ==
    /\ ~calm
    /\ log < MaxLog
    /\ log' = log + 1
    /\ IF inRoom
       THEN /\ Sends([kind |-> "chat", message |-> log + 1])
            /\ lost' = IF RoomInQueue THEN lost ELSE lost \cup {log + 1}
       ELSE /\ lost' = lost \cup {log + 1}
            /\ UNCHANGED down
    /\ UNCHANGED <<notices, calm, gateway, up, view, ghost>>

\* MemberJoined and MemberLeft become a line in general
Notice ==
    /\ ~calm
    /\ general
    /\ notices < MaxNotices
    /\ notices' = notices + 1
    /\ Sends([kind |-> "notice"])
    /\ UNCHANGED <<log, calm, gateway, up, view, lost, ghost>>

Takes(kind) ==
    /\ ~joining.on
    /\ up # <<>>
    /\ Head(up).kind = kind
    /\ up' = Tail(up)

ReadForJoin ==
    /\ Takes("join")
    /\ joining' = [on |-> TRUE, history |-> History]
    /\ UNCHANGED <<log, notices, calm, general, inRoom, down, view, lost, ghost>>

\* history_unavailable
RefuseJoin ==
    /\ ~calm
    /\ Takes("join")
    /\ Sends([kind |-> "error"])
    /\ UNCHANGED <<log, notices, calm, gateway, view, lost, ghost>>

InsertAndAnswer ==
    /\ joining.on
    /\ inRoom' = TRUE
    /\ joining' = NotJoining
    /\ Sends([kind |-> "joined", history |-> joining.history])
    /\ UNCHANGED <<log, notices, calm, general, up, view, lost, ghost>>

LeaveRoom ==
    /\ Takes("leave")
    /\ inRoom' = general
    /\ Sends([kind |-> IF general THEN "error" ELSE "left"])
    /\ UNCHANGED <<log, notices, calm, general, joining, view, lost, ghost>>

LoadHistory ==
    /\ Takes("history")
    /\ inRoom
    /\ Head(up).before > 1
    /\ LET page == HistoryBefore(Head(up).before)
       IN  Sends([kind |-> "page", messages |-> page, more |-> More(page)])
    /\ stuck' = IF RoomInQueue THEN stuck ELSE "answer lost"
    /\ UNCHANGED <<log, notices, calm, gateway, view, lost, moved, fate>>

\* invalid_history_request, room_not_joined, history_unavailable
RefuseHistory ==
    /\ Takes("history")
    /\ ~inRoom \/ Head(up).before <= 1 \/ ~calm
    /\ Sends([kind |-> "error"])
    /\ stuck' = "refused"
    /\ UNCHANGED <<log, notices, calm, gateway, view, lost, moved, fate>>

Serve ==
    \/ ReadForJoin \/ RefuseJoin \/ InsertAndAnswer
    \/ LeaveRoom
    \/ LoadHistory \/ RefuseHistory
------------------------------------------------------------------------------
(* The terminal: events. *)

Receives(kind) ==
    /\ down # <<>>
    /\ Head(down).kind = kind
    /\ down' = Tail(down)

Pushes(item) ==
    /\ items' = PushBounded(items, item)
    /\ IF HasChat(items) /\ ~(HasChat(items') /\ FirstChat(items') = FirstChat(items))
       THEN /\ moved' = (moved \/ Awaited)
            /\ fate' = fate \cup {"cut"}
       ELSE UNCHANGED <<moved, fate>>
    /\ UNCHANGED <<joined, has_more, loading, stuck>>

ReceiveChat ==
    /\ Receives("chat")
    /\ Pushes(Head(down).message)
    /\ UNCHANGED <<log, notices, calm, gateway, up, lost>>

ReceiveNotice ==
    /\ Receives("notice")
    /\ Pushes(NoticeItem)
    /\ UNCHANGED <<log, notices, calm, gateway, up, lost>>

IsMessage(event, m) == event.kind = "chat" /\ event.message = m

\* What came before RoomJoined and is newer than its history is wiped out.
ReceiveJoined ==
    /\ Receives("joined")
    /\ LET history == Head(down).history
       IN  /\ items' = history
           /\ has_more' = More(history)
           /\ lost' = {m \in 1..log : /\ history = <<>> \/ m > Last(history)
                                     /\ \A i \in 2..Len(down) : ~IsMessage(down[i], m)}
    /\ joined' = TRUE
    /\ loading' = FALSE
    /\ moved' = (moved \/ Awaited)
    /\ fate' = {}
    /\ UNCHANGED <<log, notices, calm, gateway, up, stuck>>

ReceiveLeft ==
    /\ Receives("left")
    /\ joined' = FALSE
    /\ UNCHANGED <<log, notices, calm, gateway, up, items, has_more, loading, lost, ghost>>

LoadingAfterPage == FALSE

ReceivePage ==
    /\ Receives("page")
    /\ items' = PushedInFront(items, Head(down).messages)
    /\ has_more' = Head(down).more
    /\ loading' = LoadingAfterPage
    /\ fate' = (fate \ {"cut"})
                 \cup {f \in {"torn"} : moved}
                 \cup {f \in {"overshot"} : Len(items') > MaxItems}
    /\ moved' = (moved /\ AwaitedIn(up, Tail(down)))
    /\ UNCHANGED <<log, notices, calm, gateway, up, joined, lost, stuck>>

\* An error resets the flag of a dialog, not loading_history.
ReceiveError ==
    /\ Receives("error")
    /\ UNCHANGED <<log, notices, calm, gateway, up, view, lost, ghost>>

Receive ==
    \/ ReceiveChat \/ ReceiveNotice
    \/ ReceiveJoined \/ ReceiveLeft
    \/ ReceivePage \/ ReceiveError
------------------------------------------------------------------------------
(* The terminal: keys.  The room can be opened while joined is TRUE. *)

\* run_chat: try_send on the connection's queue
Asks(request) == up' = IF Len(up) < QueueCapacity THEN Append(up, request) ELSE up

PageUp ==
    /\ joined
    /\ has_more
    /\ ~loading
    /\ HasChat(items)
    /\ loading' = TRUE
    /\ Asks([kind |-> "history", before |-> FirstChat(items)])
    /\ stuck' = IF Len(up) < QueueCapacity THEN "no" ELSE "queue full"
    /\ moved' = (moved /\ Awaited)
    /\ UNCHANGED <<log, notices, calm, gateway, down, joined, items, has_more, lost, fate>>

\* Ctrl+L: clear_active_view
Clear ==
    /\ ~calm
    /\ joined
    /\ items # <<>>
    /\ items' = <<>>
    /\ moved' = (moved \/ Awaited)
    /\ fate' = {"cut"}
    /\ UNCHANGED <<log, notices, calm, gateway, up, down, joined, has_more, loading, lost, stuck>>

\* Enter on a room that is not joined, as often as the user likes
JoinRoom ==
    /\ ~calm
    /\ ~joined
    /\ Asks([kind |-> "join"])
    /\ UNCHANGED <<log, notices, calm, gateway, down, view, lost, ghost>>

\* Delete on any room
DeleteRoom ==
    /\ ~calm
    /\ Asks([kind |-> "leave"])
    /\ UNCHANGED <<log, notices, calm, gateway, down, view, lost, ghost>>

Settle ==
    /\ ~calm
    /\ calm' = TRUE
    /\ UNCHANGED <<log, notices, gateway, up, down, view, lost, ghost>>

Next ==
    \/ Post \/ Notice
    \/ Serve
    \/ Receive
    \/ PageUp \/ Clear \/ JoinRoom \/ DeleteRoom
    \/ Settle

Spec == Init /\ [][Next]_vars

\* The session's task and the terminal's loop go on; the user keeps paging.
FairSpec == Spec /\ WF_vars(Serve) /\ WF_vars(Receive) /\ WF_vars(PageUp)
------------------------------------------------------------------------------
(* Safety. *)

Torn == "torn" \in fate
Ordered ==
    \A i, j \in DOMAIN items : i < j /\ IsChat(items[i]) /\ IsChat(items[j]) => items[i] < items[j]

\* Messages are shown in the order of the room and none twice, unless a page
\* came in front of a window it was not asked for (tui.rs:887).
Ascending == Ordered \/ Torn

\* A message missing between two that are shown is one the queue dropped or
\* that was stored while the room was not joined; paging leaves no gap, with
\* the one exception (tui.rs:887).
Contiguous ==
    Torn \/ \A i, j \in DOMAIN items :
               IsChat(items[i]) /\ IsChat(items[j]) => items[i]..items[j] \subseteq ToSet(items) \cup lost

\* Where the terminal offers nothing older, nothing older is left: the first
\* message shown is the room's first, the ones before never came, or the
\* window was cut at its front since (tui.rs:808, tui.rs:1725).
ReachesStart ==
    ~has_more /\ HasChat(items) /\ fate \cap {"cut", "torn"} = {}
      => 1..(FirstChat(items) - 1) \subseteq lost

\* The window is within MAX_UI_ITEMS until a page overshoots it; from then on
\* nothing trims it (tui.rs:1755).
WindowBound == Len(items) <= MaxItems \/ "overshot" \in fate

\* What is on the screen is one piece of the room, in order, without gaps and
\* within its bound, whatever joins, live messages and pages cross, with the
\* exceptions above (tui.rs:799-897).
WindowSound == TypeOK /\ Ascending /\ Contiguous /\ WindowBound

(* Liveness. *)

AtStart == HasChat(items) /\ FirstChat(items) = 1

\* Whoever keeps pressing PageUp sees the room from its first message on, if
\* the room is open, shows a message and offers older ones, unless a request
\* got stuck or the window is out of order (tui.rs:1456).
PagesToStart ==
    calm ~> \/ AtStart
            \/ ~joined \/ ~HasChat(items) \/ ~has_more
            \/ loading /\ stuck # "no"
            \/ ~Ordered
=============================================================================
