----------------------------- MODULE DirectChat -----------------------------
(***************************************************************************)
(* Private chat between two members of a group, with no gateway in between *)
(* (direct.rs), and the terminal's view of it (tui.rs).                    *)
(*                                                                         *)
(* Each peer runs one hub task, which owns its link and handles one command*)
(* or link event at a time, waiting for the whole dial when it opens a    *)
(* link; an accept task for each connection that comes in; and one link_io *)
(* task for each end of a link.  A wire stands for the queue of a link_io  *)
(* task and the TCP stream behind it.  A peer is one session: who leaves   *)
(* the group comes back under another session_id.                          *)
(*                                                                         *)
(* The queues of 64 and 256 entries are not bounded here.                  *)
(***************************************************************************)
EXTENDS Naturals, Sequences, FiniteSets

CONSTANTS
    Peer,      \* the two sessions
    Message,   \* message_id values
    NoMessage, \* also: PeerLeft in commands, end of stream on a wire
    MaxLinks,  \* bound: links in a behaviour
    Faults     \* whether the network may fail, sessions end, MemberJoined be late

ASSUME ConstantsAssumption ==
    /\ IsFiniteSet(Peer) /\ Cardinality(Peer) = 2
    /\ NoMessage \notin Message
    /\ MaxLinks \in Nat
    /\ Faults \in BOOLEAN

VARIABLES
    gone,     \* sessions that have ended
    known,    \* whether the hub has the other peer in its members
    roster,   \* whether the terminal has it in its members
    view,     \* the terminal's PrivateView
    inbox,    \* events on their way to the terminal
    commands, \* DirectCommands on their way to the hub
    sending,  \* the message whose Send command the hub is handling
    link,     \* the hub's entry in links
    events,   \* LinkEvents on their way to the hub
    io,       \* io[l][p]: the task of p at its end of link l
    wire,     \* wire[l][p]: what is on its way to p on link l
    links,    \* number of links opened so far
    sent,     \* history: what the user of p sent, in order
    shown,    \* history: what p's terminal showed, in order
    carried,  \* history: what p's hub put on its present link
    told      \* history: messages whose sender got an error or PrivateClosed

uiVars == <<roster, view, sent, shown>>
netVars == <<io, wire, links>>
vars == <<gone, known, roster, view, inbox, commands, sending, link, events, io,
          wire, links, sent, shown, carried, told>>

Other(p) == CHOOSE q \in Peer : q # p
Links == 1..MaxLinks

\* waiting: AwaitingReply with p itself or the other as initiator_session_id
Status == {"none", "mine", "theirs", "active"}
View == [status : Status, online : BOOLEAN]
NoView == [status |-> "absent", online |-> FALSE]

Link == [id : Links, role : {"initiator", "recipient"}, state : {"new", "awaiting", "active"}]
NoLink == [id |-> 0, role |-> "none", state |-> "new"]

Item == [type : {"joined", "left", "closed", "error", "chat"},
         msg : Message \cup {NoMessage}, status : Status]
Notice(type) == [type |-> type, msg |-> NoMessage, status |-> "none"]
Chat(m, status) == [type |-> "chat", msg |-> m, status |-> status]

Event == [type : {"connected", "message", "disconnected"}, id : Links,
          msg : Message \cup {NoMessage}]
LinkEvent(type, l, m) == [type |-> type, id |-> l, msg |-> m]

TypeOK ==
    /\ gone \subseteq Peer
    /\ known \in [Peer -> BOOLEAN]
    /\ roster \in [Peer -> BOOLEAN]
    /\ view \in [Peer -> View \cup {NoView}]
    /\ inbox \in [Peer -> Seq(Item)]
    /\ commands \in [Peer -> Seq(Message \cup {NoMessage})]
    /\ sending \in [Peer -> Message \cup {NoMessage}]
    /\ link \in [Peer -> Link \cup {NoLink}]
    /\ events \in [Peer -> Seq(Event)]
    /\ io \in [Links -> [Peer -> {"none", "hello", "up", "down"}]]
    /\ wire \in [Links -> [Peer -> Seq(Message \cup {NoMessage})]]
    /\ links \in 0..MaxLinks
    /\ sent \in [Peer -> Seq(Message)]
    /\ shown \in [Peer -> Seq(Message)]
    /\ carried \in [Peer -> SUBSET Message]
    /\ told \subseteq Message

Items(q) == {q[i] : i \in 1..Len(q)}
Sent == UNION {Items(sent[p]) : p \in Peer}

\* both know each other, or one was in the group first and learns of the other later
Init ==
    /\ gone = {}
    /\ \E newer \in Peer : known = [p \in Peer |-> ~Faults \/ p = newer]
    /\ roster = known
    /\ view = [p \in Peer |-> NoView]
    /\ inbox = [p \in Peer |-> <<>>]
    /\ commands = [p \in Peer |-> <<>>]
    /\ sending = [p \in Peer |-> NoMessage]
    /\ link = [p \in Peer |-> NoLink]
    /\ events = [p \in Peer |-> <<>>]
    /\ io = [l \in Links |-> [p \in Peer |-> "none"]]
    /\ wire = [l \in Links |-> [p \in Peer |-> <<>>]]
    /\ links = 0
    /\ sent = [p \in Peer |-> <<>>]
    /\ shown = [p \in Peer |-> <<>>]
    /\ carried = [p \in Peer |-> {}]
    /\ told = {}

-----------------------------------------------------------------------------
(* The terminal *)

\* Enter on a member: or_insert keeps a view that is there
OpenView(p) ==
    /\ p \notin gone
    /\ roster[p]
    /\ view[p] = NoView
    /\ view' = [view EXCEPT ![p] = [status |-> "none", online |-> TRUE]]
    /\ UNCHANGED <<gone, known, roster, inbox, commands, sending, link, events,
                   netVars, sent, shown, carried, told>>

\* the first message locks the view before the hub has seen it
UserSends(p, m) ==
    /\ p \notin gone
    /\ m \notin Sent
    /\ view[p] # NoView /\ view[p].online /\ view[p].status # "mine"
    /\ view' = [view EXCEPT ![p].status = IF @ = "none" THEN "mine" ELSE @]
    /\ commands' = [commands EXCEPT ![p] = Append(@, m)]
    /\ sent' = [sent EXCEPT ![p] = Append(@, m)]
    /\ UNCHANGED <<gone, known, roster, inbox, sending, link, events, netVars,
                   shown, carried, told>>

\* handle_server_event, handle_private_message
Shows(v, item) ==
    CASE item.type = "chat" -> [status |-> item.status, online |-> TRUE]
      [] item.type \in {"closed", "left"} /\ v # NoView -> [v EXCEPT !.online = FALSE]
      [] OTHER -> v

ReadInbox(p) ==
    /\ p \notin gone
    /\ inbox[p] # <<>>
    /\ LET item == Head(inbox[p])
       IN  /\ view' = [view EXCEPT ![p] = Shows(@, item)]
           /\ roster' = [roster EXCEPT ![p] =
                            item.type = "joined" \/ (@ /\ item.type # "left")]
           /\ shown' = IF item.type = "chat" THEN [shown EXCEPT ![p] = Append(@, item.msg)]
                       ELSE shown
    /\ inbox' = [inbox EXCEPT ![p] = Tail(@)]
    /\ UNCHANGED <<gone, known, commands, sending, link, events, netVars, sent, carried, told>>

-----------------------------------------------------------------------------
(* The gateway's notices, and sessions that end *)

\* MemberJoined; it may be dropped, and then this never happens
LearnPeer(p) ==
    /\ p \notin gone
    /\ ~known[p] /\ Other(p) \notin gone
    /\ known' = [known EXCEPT ![p] = TRUE]
    /\ inbox' = [inbox EXCEPT ![p] = Append(@, Notice("joined"))]
    /\ UNCHANGED <<gone, uiVars, commands, sending, link, events, netVars, carried, told>>

\* MemberLeft; PeerLeft overtakes what still is in the client's outgoing queue
ForgetPeer(p) ==
    /\ p \notin gone
    /\ known[p] /\ Other(p) \in gone
    /\ known' = [known EXCEPT ![p] = FALSE]
    /\ inbox' = [inbox EXCEPT ![p] = Append(@, Notice("left"))]
    /\ \E k \in 0..Len(commands[p]) :
          commands' = [commands EXCEPT ![p] =
              SubSeq(@, 1, k) \o <<NoMessage>> \o SubSeq(@, k + 1, Len(@))]
    /\ UNCHANGED <<gone, uiVars, sending, link, events, netVars, carried, told>>

(***************************************************************************)
(* The end of p's task on link l: the other end reads to the end of the    *)
(* stream, but what was still on its way may be lost.                      *)
(***************************************************************************)
Cut(l, p) ==
    /\ io' = [io EXCEPT ![l][p] = "down"]
    /\ \E k \in 0..Len(wire[l][Other(p)]) :
          wire' = [wire EXCEPT ![l] = [q \in Peer |->
                      IF q = p THEN <<>> ELSE Append(SubSeq(wire[l][q], 1, k), NoMessage)]]

\* the user leaves: the hub and its link_io tasks end with the session
Leave(p) ==
    LET live == {l \in Links : io[l][p] \in {"hello", "up"}}
        mine(q, f, empty) == [f EXCEPT ![q] = empty]
    IN  /\ Faults
        /\ gone = {}
        /\ gone' = {p}
        /\ io' = [l \in Links |-> [io[l] EXCEPT ![p] = IF l \in live THEN "down" ELSE @]]
        /\ wire' = [l \in Links |->
              IF l \in live
              THEN [q \in Peer |-> IF q = p THEN <<>> ELSE Append(wire[l][q], NoMessage)]
              ELSE wire[l]]
        /\ view' = mine(p, view, NoView)
        /\ inbox' = mine(p, inbox, <<>>)
        /\ commands' = mine(p, commands, <<>>)
        /\ sending' = mine(p, sending, NoMessage)
        /\ link' = mine(p, link, NoLink)
        /\ events' = mine(p, events, <<>>)
        /\ carried' = mine(p, carried, {})
        /\ UNCHANGED <<known, roster, links, sent, shown, told>>

-----------------------------------------------------------------------------
(* run_direct_hub: commands *)

\* the hub takes its next command or event
HubFree(p) == p \notin gone /\ sending[p] = NoMessage

TakesCommand(p) ==
    /\ HubFree(p)
    /\ commands[p] # <<>>
    /\ commands' = [commands EXCEPT ![p] = Tail(@)]

\* variant: an initiator may go on before the reply
AfterSendEager(k) ==
    CASE k.state = "new" /\ k.role = "initiator" -> [k EXCEPT !.state = "awaiting"]
      [] k.role = "recipient" /\ k.state = "awaiting" -> [k EXCEPT !.state = "active"]
      [] k.state = "active" \/ k.role = "initiator" -> k
      [] OTHER -> NoLink

\* the state after sending on link k; NoLink: it may not send
AfterSend(k) ==
    CASE k.role = "initiator" /\ k.state = "new" -> [k EXCEPT !.state = "awaiting"]
      [] k.role = "recipient" /\ k.state = "awaiting" -> [k EXCEPT !.state = "active"]
      [] k.state = "active" -> k
      [] OTHER -> NoLink

StatusOf(k) ==
    IF k.state = "active" THEN "active" ELSE IF k.role = "initiator" THEN "mine" ELSE "theirs"

\* an error about m, and about whatever else the link carried if it is gone
Fail(p, m, lost) ==
    /\ inbox' = [inbox EXCEPT ![p] = Append(@, Notice("error"))]
    /\ told' = told \cup {m} \cup lost

TakeSend(p) ==
    /\ TakesCommand(p)
    /\ Head(commands[p]) # NoMessage
    /\ sending' = [sending EXCEPT ![p] = Head(commands[p])]
    /\ UNCHANGED <<gone, known, uiVars, inbox, link, events, netVars, carried, told>>

\* no link: the other is no member, or the dial fails
DialFails(p) ==
    /\ p \notin gone
    /\ sending[p] # NoMessage /\ link[p] = NoLink
    /\ ~known[p] \/ Faults
    /\ Fail(p, sending[p], {})
    /\ sending' = [sending EXCEPT ![p] = NoMessage]
    /\ UNCHANGED <<gone, known, uiVars, commands, link, events, netVars, carried>>

\* no link: handshake and Hello succeed, and link_io starts
DialSucceeds(p) ==
    LET l == links + 1
    IN  /\ p \notin gone
        /\ sending[p] # NoMessage /\ link[p] = NoLink
        /\ known[p] /\ Other(p) \notin gone
        /\ links < MaxLinks
        /\ links' = l
        /\ io' = [io EXCEPT ![l] = [q \in Peer |-> IF q = p THEN "up" ELSE "hello"]]
        /\ link' = [link EXCEPT ![p] = [id |-> l, role |-> "initiator", state |-> "new"]]
        /\ UNCHANGED <<gone, known, uiVars, inbox, commands, sending, events, wire, carried, told>>

\* the link's state decides, then its queue takes the message or is closed
SendOnLink(p) ==
    LET m == sending[p]
        k == AfterSend(link[p])
        l == link[p].id
    IN  /\ p \notin gone
        /\ m # NoMessage /\ link[p] # NoLink
        /\ \/ /\ k = NoLink          \* wait for the reply, or not ready
              /\ Fail(p, m, {})
              /\ UNCHANGED <<link, wire, carried>>
           \/ /\ k # NoLink /\ io[l][p] = "up"
              /\ link' = [link EXCEPT ![p] = k]
              /\ wire' = [wire EXCEPT ![l][Other(p)] = Append(@, m)]
              /\ carried' = [carried EXCEPT ![p] = @ \cup {m}]
              /\ inbox' = [inbox EXCEPT ![p] = Append(@, Chat(m, StatusOf(k)))]
              /\ UNCHANGED told
           \/ /\ k # NoLink /\ io[l][p] = "down"
              /\ link' = [link EXCEPT ![p] = NoLink]
              /\ carried' = [carried EXCEPT ![p] = {}]
              /\ Fail(p, m, carried[p])
              /\ UNCHANGED wire
        /\ sending' = [sending EXCEPT ![p] = NoMessage]
        /\ UNCHANGED <<gone, known, uiVars, commands, events, io, links>>

\* variant: the terminal is not told
CloseLinkSilently(p) ==
    /\ link' = [link EXCEPT ![p] = NoLink]
    /\ carried' = [carried EXCEPT ![p] = {}]
    /\ UNCHANGED <<told, inbox>>

\* the entry is removed and the terminal gets PrivateClosed
CloseLink(p) ==
    /\ link' = [link EXCEPT ![p] = NoLink]
    /\ carried' = [carried EXCEPT ![p] = {}]
    /\ told' = told \cup carried[p]
    /\ inbox' = [inbox EXCEPT ![p] = Append(@, Notice("closed"))]

PeerLeft(p) ==
    /\ TakesCommand(p)
    /\ Head(commands[p]) = NoMessage
    /\ IF link[p] # NoLink THEN CloseLink(p) ELSE UNCHANGED <<link, carried, told, inbox>>
    /\ UNCHANGED <<gone, known, uiVars, sending, events, netVars>>

-----------------------------------------------------------------------------
(* run_direct_hub: link events *)

TakesEvent(p, type) ==
    /\ HubFree(p)
    /\ events[p] # <<>>
    /\ Head(events[p]).type = type
    /\ events' = [events EXCEPT ![p] = Tail(@)]

\* or_insert: a second link is dropped, and its sender with it
HubConnected(p) ==
    /\ TakesEvent(p, "connected")
    /\ link' = IF link[p] = NoLink
               THEN [link EXCEPT ![p] =
                        [id |-> Head(events[p]).id, role |-> "recipient", state |-> "new"]]
               ELSE link
    /\ UNCHANGED <<gone, known, uiVars, inbox, commands, sending, netVars, carried, told>>

\* variant: the opening message opens the conversation for both
AfterMessageOpen(k) ==
    CASE k.role = "recipient" /\ k.state = "new" -> [k EXCEPT !.state = "active"]
      [] k.role = "initiator" /\ k.state = "awaiting" -> [k EXCEPT !.state = "active"]
      [] k.state = "active" -> k
      [] OTHER -> NoLink

\* the state after a message came in on link k; NoLink: it is ignored
AfterMessage(k) ==
    CASE k.role = "recipient" /\ k.state = "new" -> [k EXCEPT !.state = "awaiting"]
      [] k.role = "initiator" /\ k.state = "awaiting" -> [k EXCEPT !.state = "active"]
      [] k.state = "active" -> k
      [] OTHER -> NoLink

HubMessage(p) ==
    LET event == Head(events[p])
        k == AfterMessage(link[p])
    IN  /\ TakesEvent(p, "message")
        /\ IF event.id = link[p].id /\ k # NoLink
           THEN /\ link' = [link EXCEPT ![p] = k]
                /\ inbox' = [inbox EXCEPT ![p] = Append(@, Chat(event.msg, StatusOf(k)))]
           ELSE UNCHANGED <<link, inbox>>
        /\ UNCHANGED <<gone, known, uiVars, commands, sending, netVars, carried, told>>

HubDisconnected(p) ==
    /\ TakesEvent(p, "disconnected")
    /\ IF Head(events[p]).id = link[p].id
       THEN CloseLink(p)
       ELSE UNCHANGED <<link, carried, told, inbox>>
    /\ UNCHANGED <<gone, known, uiVars, commands, sending, netVars>>

-----------------------------------------------------------------------------
(* accept_direct_link and link_io *)

\* variant: newest first
AddEventFirst(p, e) == events' = [events EXCEPT ![p] = <<e>> \o @]

AddEvent(p, e) == events' = [events EXCEPT ![p] = Append(@, e)]

\* Hello names a member: Connected goes to the hub, and link_io starts
Accept(p, l) ==
    /\ p \notin gone
    /\ io[l][p] = "hello"
    /\ known[p]
    /\ AddEvent(p, LinkEvent("connected", l, NoMessage))
    /\ io' = [io EXCEPT ![l][p] = "up"]
    /\ UNCHANGED <<gone, known, uiVars, inbox, commands, sending, link, wire, links, carried, told>>

\* the sender is not a member yet, or Hello did not come through
RefuseHello(p, l) ==
    /\ p \notin gone
    /\ io[l][p] = "hello"
    /\ ~known[p] \/ Faults
    /\ Cut(l, p)
    /\ UNCHANGED <<gone, known, uiVars, inbox, commands, sending, link, events, links, carried, told>>

\* a sender for the task's queue exists, in the hub's entry or in Connected
Held(p, l) ==
    \/ link[p].id = l
    \/ LinkEvent("connected", l, NoMessage) \in Items(events[p])

LinkReceives(p, l) ==
    /\ p \notin gone
    /\ io[l][p] = "up"
    /\ wire[l][p] # <<>> /\ Head(wire[l][p]) # NoMessage
    /\ AddEvent(p, LinkEvent("message", l, Head(wire[l][p])))
    /\ wire' = [wire EXCEPT ![l][p] = Tail(@)]
    /\ UNCHANGED <<gone, known, uiVars, inbox, commands, sending, link, io, links, carried, told>>

\* end of stream, no sender left, or (Faults) an error or more than 32 messages a second
LinkEnds(p, l) ==
    /\ p \notin gone
    /\ io[l][p] = "up"
    /\ \/ wire[l][p] # <<>> /\ Head(wire[l][p]) = NoMessage
       \/ ~Held(p, l)
       \/ Faults
    /\ Cut(l, p)
    /\ AddEvent(p, LinkEvent("disconnected", l, NoMessage))
    /\ UNCHANGED <<gone, known, uiVars, inbox, commands, sending, link, links, carried, told>>

-----------------------------------------------------------------------------

Hub(p) ==
    \/ TakeSend(p) \/ DialFails(p) \/ DialSucceeds(p) \/ SendOnLink(p) \/ PeerLeft(p)
    \/ HubConnected(p) \/ HubMessage(p) \/ HubDisconnected(p)

LinkTask(p, l) == Accept(p, l) \/ RefuseHello(p, l) \/ LinkReceives(p, l) \/ LinkEnds(p, l)

Next ==
    \E p \in Peer :
        \/ OpenView(p) \/ ReadInbox(p)
        \/ \E m \in Message : UserSends(p, m)
        \/ LearnPeer(p) \/ ForgetPeer(p) \/ Leave(p)
        \/ Hub(p)
        \/ \E l \in Links : LinkTask(p, l)

Spec == Init /\ [][Next]_vars

(***************************************************************************)
(* Tasks that can go on do so; a dial ends by its timeouts at the latest.     *)
(* The user need not send anything.                                        *)
(***************************************************************************)
FairSpec ==
    Spec /\ \A p \in Peer :
        /\ WF_vars(Hub(p)) /\ WF_vars(ReadInbox(p))
        /\ \A l \in Links : WF_vars(LinkTask(p, l))

-----------------------------------------------------------------------------
(* Properties *)

Shared(p) == link[p] # NoLink /\ link[p].id = link[Other(p)].id

\* a message of link l on its way to p's hub
Incoming(p, l) ==
    \/ \E i \in 1..Len(wire[l][p]) : wire[l][p][i] # NoMessage
    \/ \E e \in Items(events[p]) : e.type = "message" /\ e.id = l

(***************************************************************************)
(* Two hubs that hold the same link agree on it: one opened it, who has the*)
(* opening message has not got it from nowhere, and the conversation is    *)
(* never open at one end only, but for a reply that is on its way or lost  *)
(* with the link.                                                          *)
(***************************************************************************)
HubsAgree ==
    \A p \in Peer : Shared(p) /\ link[p].role = "initiator" =>
        LET k == link[Other(p)] IN
        /\ k.role = "recipient"
        /\ link[p].state = "active" => k.state = "active"
        /\ link[p].state = "awaiting" /\ k.state = "active" =>
              Incoming(p, k.id) \/ io[k.id][p] = "down" \/ io[k.id][Other(p)] = "down"

(***************************************************************************)
(* "The recipient drops a second opening message from a modified client":  *)
(* that branch of the hub, and its like, never drops what an unmodified    *)
(* client sent on the link that both hubs use.                             *)
(***************************************************************************)
HonestNeverDropped ==
    \A p \in Peer :
        /\ events[p] # <<>>
        /\ Head(events[p]).type = "message" /\ Head(events[p]).id = link[p].id
        => AfterMessage(link[p]) # NoLink

Place(p, m) == CHOOSE i \in 1..Len(sent[p]) : sent[p][i] = m

(***************************************************************************)
(* Each terminal shows no message twice, and the messages of one author in *)
(* the order in which they were written, over broken links and new ones;   *)
(* only a message whose author was told that it failed, or that the        *)
(* conversation closed, may still turn up, late.                           *)
(***************************************************************************)
AuthorOrder ==
    \A p, a \in Peer : \A i, j \in 1..Len(shown[p]) :
        i < j /\ {shown[p][i], shown[p][j]} \subseteq Items(sent[a]) =>
            \/ Place(a, shown[p][i]) < Place(a, shown[p][j])
            \/ shown[p][i] # shown[p][j] /\ {shown[p][i], shown[p][j]} \cap told # {}

Settled(p) ==
    /\ commands[p] = <<>> /\ sending[p] = NoMessage
    /\ inbox[p] = <<>> /\ events[p] = <<>>

(***************************************************************************)
(* The terminal locks a view when it sends, the hub decides later: once    *)
(* both have nothing more to handle, the view shows the link's state.      *)
(***************************************************************************)
ViewFollowsHub ==
    \A p \in Peer : Settled(p) /\ link[p].state # "new" =>
        view[p].online /\ view[p].status = StatusOf(link[p])

(***************************************************************************)
(* The user's message is shown to the other user, or the user is told that *)
(* it failed or that the conversation closed: it is never just gone,       *)
(* whatever two hubs that dial each other drop.                            *)
(***************************************************************************)
NeverJustGone ==
    \A p \in Peer : \A m \in Message :
        m \in Items(sent[p]) ~> (m \in Items(shown[Other(p)]) \/ m \in told \/ p \in gone)

Over(l, p) ==
    \/ io[l][p] \in {"none", "down"}
    \/ io[l][p] = "up" /\ wire[l][p] = <<>> /\ Held(p, l)

(***************************************************************************)
(* The same as an invariant, whatever fails: once no task has anything     *)
(* left to do, each message was shown to the other user or its author told.*)
(***************************************************************************)
NothingLost ==
    (\A p \in Peer : Settled(p) /\ \A l \in Links : Over(l, p)) =>
        \A p \in Peer \ gone :
            Items(sent[p]) \subseteq Items(shown[Other(p)]) \cup told

(***************************************************************************)
(* One conversation has one state: the hubs agree on the link they share,  *)
(* and each terminal shows its hub's state once nothing is under way       *)
(* (direct.rs:318, tui.rs:1525).                                           *)
(***************************************************************************)
StatesAgree == TypeOK /\ HubsAgree /\ ViewFollowsHub
=============================================================================
