----------------------------- MODULE GatewayLink -----------------------------
(***************************************************************************)
(* One connection of a client to a gateway, from TCP connect to its end:   *)
(* the handshake and its timeouts (client.rs, server.rs), the two loops    *)
(* that read and write frames (client.rs finish_connection, server.rs      *)
(* enter_group), the frames themselves (crypto.rs), the rate limiter, and  *)
(* what another session of the group sees of this one coming and going.    *)
(*                                                                         *)
(* A frame goes out in two writes, the length and the body, on a socket    *)
(* without Nagle's algorithm; it is read in two reads.  Both loops read in *)
(* a branch of select!, so that taking another branch in between drops the *)
(* length that has been read, and the next read takes two bytes of the     *)
(* body for a length: the reader has gone astray.  Both loops write in the *)
(* body of a branch, where they do not read, and with no timeout.          *)
(*                                                                         *)
(* The UI takes what the client's loop hands it sooner or later, so that a *)
(* full queue towards it is no more than slowness of that loop.  What      *)
(* joining a group means is in Membership, what becomes of a chat message  *)
(* in RoomChat, of a private one in DirectChat.                            *)
(***************************************************************************)
EXTENDS Naturals, Sequences

CONSTANTS
    GatewayMin, GatewayMax,     \* PROTOCOL_MIN and PROTOCOL_MAX of the gateway's build
    Scenarios,                  \* what the client is run for, and the bounds of that run
    WireCapacity,               \* writes that fit into the buffers of one direction
    QueueCapacity,              \* CLIENT_QUEUE_CAPACITY, the same on both sides
    MaxStrikes                  \* MAX_CONSECUTIVE_RATE_VIOLATIONS

ASSUME LinkAssumption ==
    /\ GatewayMin \in Nat /\ GatewayMax \in Nat /\ GatewayMin <= GatewayMax
    /\ \A s \in Scenarios :
          /\ s.user \in {"inspect", "chat", "send"}
          /\ s.min \in Nat /\ s.max \in Nat /\ s.min <= s.max \* the versions of the client's build
          /\ s.chats \in Nat    \* messages that the user sends
          /\ s.user = "send" => s.chats = 1 \* send_message sends one
          /\ s.news \in Nat     \* how early messages of others come, among those to the client
          /\ s.limit \in Nat \ {0} \* MAX_CLIENT_MESSAGES_PER_SECOND
          /\ s.witness \in BOOLEAN \* whether another session comes and watches
          /\ s.faults \in BOOLEAN  \* whether there are faults, kicks and private messages
    /\ WireCapacity \in Nat \ {0, 1}
    /\ QueueCapacity \in Nat \ {0}
    /\ MaxStrikes \in Nat \ {0}

VARIABLES
    scenario,    \* what the client is run for
    pc,          \* where each end is
    got,         \* what its reader has: "start" of a frame, its "head", or it is "astray"
    wire,        \* what is on its way to each end
    frame,       \* the message that it is writing
    net,         \* the network between them: "up", "reset", or "silent" (nothing gets through)
    version,     \* the version that was agreed on; 0: none yet
    ui,          \* the receiver of the client's events: "open" or "closed"
    queue,       \* messages to be written: outgoing of the client, outbound of the gateway
    sent,        \* how many each end has put into its queue
    arrived,     \* the numbers of the messages that each end has read, in order
    outcome,     \* what send_message reported
    stored,      \* messages of the client that the gateway has stored
    used, strikes, \* FixedWindowRateLimiter.used, consecutive_rate_violations
    overs,       \* history: of the last messages read, which were over the limit
    kicked,      \* a KickReason: "no", "sent", or "seen" by the session
    registered,  \* the session is in group.clients
    witness,     \* another session: [in group.clients, this one in its member list]
    told,        \* MemberJoined and MemberLeft in its queue
    causes       \* history: why a connection may end or a message be lost

clientVars == <<scenario, ui, outcome>>
transport == <<pc, got, wire, frame, net>>
traffic == <<queue, sent, arrived>>
gatewayVars == <<version, stored, used, strikes, overs, kicked>>
roster == <<registered, witness, told>>
vars == <<clientVars, transport, traffic, gatewayVars, roster, causes>>

End == {"client", "gateway"}
Peer(e) == IF e = "client" THEN "gateway" ELSE "client"

\* What is in a frame: "kind", and the number within its direction
Item(kind, n) == [kind |-> kind, n |-> n]
Items == [kind : {"chat", "news", "echo", "error", "kick"}, n : Nat]
Nothing == Item("error", 0)

\* On the wire: a part of a frame, or a message of the handshake, whose reader
\* does nothing else meanwhile
Handshake == {"noise1", "noise2", "noise3", "hello", "welcome", "selection", "group", "pending", "error"}
Parts == [part : {"head", "body"}, item : Items] \cup [part : Handshake]

InLoop == {"idle", "head", "body"}
Shaking == {"connect", "noise", "noise3", "hello", "select"}

\* A timeout, a refusal, the user leaving, the network or a kick, and a read that
\* was dropped midway, count as one.
Causes == {"named", "rate", "store", "full"}

TypeOK ==
    /\ scenario \in Scenarios
    /\ pc \in [End -> Shaking \cup InLoop \cup {"none", "enter", "leave", "left", "over"}]
    /\ got \in [End -> {"start", "head", "astray"}]
    /\ wire \in [End -> Seq(Parts)] /\ \A e \in End : Len(wire[e]) <= WireCapacity
    /\ frame \in [End -> Items]
    /\ net \in {"up", "reset", "silent"}
    /\ version \in 0..GatewayMax
    /\ ui \in {"open", "closed"}
    /\ queue \in [End -> Seq(Items)] /\ \A e \in End : Len(queue[e]) <= QueueCapacity
    /\ sent \in [End -> Nat]
    /\ arrived \in [End -> Seq(Nat)]
    /\ outcome \in {"none", "delivered", "failed"}
    /\ stored \subseteq 1..scenario.chats
    /\ used \in Nat /\ strikes \in 0..MaxStrikes
    /\ overs \in Seq(BOOLEAN)
    /\ kicked \in {"no", "sent", "seen"}
    /\ registered \in BOOLEAN
    /\ witness \in [here : BOOLEAN, sees : BOOLEAN]
    /\ told \in Seq({"joined", "left"}) /\ Len(told) <= QueueCapacity
    /\ causes \subseteq Causes

Init ==
    /\ scenario \in Scenarios
    /\ pc = [e \in End |-> IF e = "client" THEN "connect" ELSE "none"]
    /\ got = [e \in End |-> "start"]
    /\ wire = [e \in End |-> <<>>]
    /\ frame = [e \in End |-> Nothing]
    /\ net = "up"
    /\ version = 0
    /\ ui = "open"
    /\ queue = [e \in End |-> <<>>]
    /\ sent = [e \in End |-> 0]
    /\ arrived = [e \in End |-> <<>>]
    /\ outcome = "none"
    /\ stored = {}
    /\ used = 0 /\ strikes = 0 /\ overs = <<>>
    /\ kicked = "no"
    /\ registered = FALSE
    /\ witness = [here |-> FALSE, sees |-> FALSE]
    /\ told = <<>>
    /\ causes = {}
------------------------------------------------------------------------------
(* The handshake.  Its messages are written whole: the buffers are empty. *)

Goto(e, to) == pc' = [pc EXCEPT ![e] = to]
Because(cause) == causes' = causes \cup {cause}

\* A side in the handshake reads "expected" and answers; an end that is over
\* has dropped its socket.
Exchange(e, expected, answer, to) ==
    /\ net = "up"
    /\ wire[e] # <<>> /\ Head(wire[e]) = [part |-> expected]
    /\ wire' = [wire EXCEPT ![e] = Tail(@), ![Peer(e)] = @ \o [i \in DOMAIN answer |-> [part |-> answer[i]]]]
    /\ Goto(e, to)
    /\ UNCHANGED <<got, frame, net>>

\* TcpStream::connect, and the gateway's accept with a permit or without one
Connect ==
    /\ pc["client"] = "connect"
    /\ \/ /\ pc' = [e \in End |-> "noise"]
          /\ wire' = [wire EXCEPT !["gateway"] = <<[part |-> "noise1"]>>]
          /\ UNCHANGED causes
       \/ /\ pc' = [e \in End |-> "over"]
          /\ Because("named")
          /\ UNCHANGED wire
    /\ UNCHANGED <<clientVars, got, frame, net, traffic, gatewayVars, roster>>

\* A fingerprint that was given must be the gateway's.
ClientNoise ==
    /\ pc["client"] = "noise"
    /\ \/ /\ Exchange("client", "noise2", <<"noise3", "hello">>, "hello")
          /\ UNCHANGED causes
       \/ /\ Exchange("client", "noise2", <<"noise3">>, "over")
          /\ Because("named")
    /\ UNCHANGED <<clientVars, traffic, gatewayVars, roster>>

GatewayNoise ==
    /\ \/ pc["gateway"] = "noise" /\ Exchange("gateway", "noise1", <<"noise2">>, "noise3")
       \/ pc["gateway"] = "noise3" /\ Exchange("gateway", "noise3", <<>>, "hello")
    /\ UNCHANGED <<clientVars, traffic, gatewayVars, roster, causes>>

\* PROTOCOL_MAX.min(protocol_max)
Negotiated == IF GatewayMax < scenario.max THEN GatewayMax ELSE scenario.max

Hello ==
    /\ pc["gateway"] = "hello"
    /\ IF Negotiated < GatewayMin \/ Negotiated < scenario.min
       THEN /\ Exchange("gateway", "hello", <<"error">>, "over")
            /\ Because("named")
            /\ UNCHANGED version
       ELSE /\ Exchange("gateway", "hello", <<"welcome">>, "select")
            /\ version' = Negotiated
            /\ UNCHANGED causes
    /\ UNCHANGED <<clientVars, traffic, stored, used, strikes, overs, kicked, roster>>

\* An inspection ends here; so does a client that finds the version out of its
\* range (sanitize_server_message) or, without --group, not exactly one group.
ClientWelcome ==
    /\ pc["client"] = "hello"
    /\ \/ /\ scenario.user # "inspect" /\ version \in scenario.min..scenario.max
          /\ Exchange("client", "welcome", <<"selection">>, "select")
          /\ UNCHANGED causes
       \/ /\ Exchange("client", "welcome", <<>>, "over")
          /\ Because("named")
       \/ Exchange("client", "error", <<>>, "over") /\ UNCHANGED causes
    /\ UNCHANGED <<clientVars, traffic, gatewayVars, roster>>

\* The gateway takes the client in, registers its session and goes on to enter_group,
\* or answers with JoinPending or an error.
Selection ==
    /\ pc["gateway"] = "select"
    /\ \/ /\ Exchange("gateway", "selection", <<>>, "enter")
          /\ registered' = TRUE
          /\ UNCHANGED causes
       \/ /\ \E answer \in {"pending", "error"} : Exchange("gateway", "selection", <<answer>>, "over")
          /\ Because("named")
          /\ UNCHANGED registered
    /\ UNCHANGED <<clientVars, traffic, gatewayVars, witness, told>>

Told(event) ==
    IF witness.here /\ Len(told) < QueueCapacity THEN Append(told, event) ELSE told
MissesIt == witness.here /\ Len(told) >= QueueCapacity

\* Welcome, then MemberJoined to the others.  Rooms or history that cannot be
\* loaded, or a Welcome that cannot be written, end the session without a word.
EnterGroup ==
    /\ pc["gateway"] = "enter"
    /\ \/ /\ net # "reset"
          /\ wire' = [wire EXCEPT !["client"] = Append(@, [part |-> "group"])]
          /\ Goto("gateway", "idle")
          /\ told' = Told("joined")
          /\ causes' = causes \cup IF MissesIt THEN {"full"} ELSE {}
          /\ UNCHANGED registered
       \/ /\ Goto("gateway", "over")
          /\ registered' = FALSE
          /\ Because("store")
          /\ UNCHANGED <<wire, told>>
    /\ UNCHANGED <<clientVars, got, frame, net, traffic, gatewayVars, witness>>

ClientGroup ==
    /\ pc["client"] = "select"
    /\ \/ Exchange("client", "group", <<>>, "idle")
       \/ Exchange("client", "pending", <<>>, "over")
       \/ Exchange("client", "error", <<>>, "over")
    /\ UNCHANGED <<clientVars, traffic, gatewayVars, roster, causes>>

\* variant: the gateway waits for a hello for ever
NoHelloTimeout == Shaking \ {"hello"}

Timed == Shaking

\* CONNECT_TIMEOUT, HANDSHAKE_TIMEOUT, WELCOME_TIMEOUT, HELLO_TIMEOUT, GROUP_SELECTION_TIMEOUT
Timeout(e) ==
    /\ scenario.faults
    /\ pc[e] \in Timed
    /\ Goto(e, "over")
    /\ Because("named")
    /\ UNCHANGED <<clientVars, got, wire, frame, net, traffic, gatewayVars, roster>>
------------------------------------------------------------------------------
(* The loops.  An end that stops drops its socket. *)

Over(e) == pc[e] = "over"
Stop(e) == IF e = "client" THEN "over" ELSE "leave"

\* variant: a reader that loses what it has read ahead, even between two frames
AfterAnyBranch(state) == "astray"

\* Another branch of select! is taken: the future of the read is dropped.
AfterBranch(state) == IF state = "start" THEN "start" ELSE "astray"

Branch(e) ==
    /\ got' = [got EXCEPT ![e] = AfterBranch(@)]
    /\ causes' = causes \cup IF got[e] = "head" THEN {"named"} ELSE {}

\* outgoing_rx.recv() and outbound_rx.recv() with a message
TakeNext(e) ==
    /\ pc[e] = "idle"
    /\ queue[e] # <<>>
    /\ Goto(e, "head")
    /\ frame' = [frame EXCEPT ![e] = Head(queue[e])]
    /\ queue' = [queue EXCEPT ![e] = Tail(@)]
    /\ Branch(e)
    /\ UNCHANGED <<clientVars, wire, net, sent, arrived, gatewayVars, roster>>

\* A private message goes to the DirectManager, not on this connection.
TakePrivate ==
    /\ scenario.faults
    /\ pc["client"] = "idle"
    /\ scenario.user = "chat" /\ ui = "open"
    /\ Branch("client")
    /\ UNCHANGED <<clientVars, pc, wire, frame, net, traffic, gatewayVars, roster>>

\* kick_rx.changed(): an error is written, and the session ends
TakeKick ==
    /\ pc["gateway"] = "idle"
    /\ kicked = "sent"
    /\ kicked' = "seen"
    /\ Goto("gateway", "head")
    /\ frame' = [frame EXCEPT !["gateway"] = Item("kick", 0)]
    /\ Branch("gateway")
    /\ UNCHANGED <<clientVars, wire, net, traffic, version, stored, used, strikes, overs, roster>>

Room(e) == Len(wire[e]) < WireCapacity

\* variant: the writer is not flushed
PutUnflushed(e, part, item) ==
    wire' = IF part = "head" THEN [wire EXCEPT ![e] = Append(@, [part |-> part, item |-> item])] ELSE wire

Put(e, part, item) == wire' = [wire EXCEPT ![e] = Append(@, [part |-> part, item |-> item])]

\* A reset, or TCP gives up on what it cannot deliver.  Where an end has nothing
\* to send, silence is not noticed: there is no keep-alive.
Broken(e) == net = "reset" \/ (net = "silent" /\ wire[Peer(e)] # <<>>)

AfterKick == "leave"

\* write_raw_frame: the length, then the body
WriteHead(e) ==
    /\ pc[e] = "head" /\ net # "reset" /\ Room(Peer(e))
    /\ Put(Peer(e), "head", frame[e])
    /\ Goto(e, "body")
    /\ UNCHANGED <<clientVars, got, frame, net, traffic, gatewayVars, roster, causes>>

WriteBody(e) ==
    /\ pc[e] = "body" /\ net # "reset" /\ Room(Peer(e))
    /\ Put(Peer(e), "body", frame[e])
    /\ Goto(e, IF frame[e].kind = "kick" THEN AfterKick ELSE "idle")
    /\ frame' = [frame EXCEPT ![e] = Nothing]
    /\ UNCHANGED <<clientVars, got, net, traffic, gatewayVars, roster, causes>>

WriteFails(e) ==
    /\ pc[e] \in {"head", "body"}
    /\ Broken(e) \/ (net = "up" /\ Over(Peer(e)))
    /\ Goto(e, Stop(e))
    /\ UNCHANGED <<clientVars, got, wire, frame, net, traffic, gatewayVars, roster, causes>>

\* read_raw_frame
ReadHead(e) ==
    /\ pc[e] = "idle" /\ net = "up"
    /\ got[e] = "start"
    /\ wire[e] # <<>>
    /\ got' = [got EXCEPT ![e] = "head"]
    /\ wire' = [wire EXCEPT ![e] = Tail(@)]
    /\ UNCHANGED <<clientVars, pc, frame, net, traffic, gatewayVars, roster, causes>>

ReadsBody(e) ==
    /\ pc[e] = "idle" /\ net = "up"
    /\ got[e] = "head"
    /\ wire[e] # <<>>
    /\ got' = [got EXCEPT ![e] = "start"]
    /\ wire' = [wire EXCEPT ![e] = Tail(@)]
    /\ UNCHANGED <<frame, net>>

\* variant: a frame that cannot be decrypted is skipped
SkipUnreadable(e) == {"astray", "start"}

\* What two bytes of ciphertext say is a length too long, or one of bytes that
\* the reader then swallows; what it has then cannot be decrypted.
AfterStray(e) == {"astray", "fail"}

ReadStray(e) ==
    /\ pc[e] = "idle" /\ net = "up"
    /\ got[e] = "astray"
    /\ wire[e] # <<>>
    /\ wire' = [wire EXCEPT ![e] = Tail(@)]
    /\ \E o \in AfterStray(e) :
          IF o = "fail" THEN Goto(e, Stop(e)) /\ UNCHANGED got
                        ELSE got' = [got EXCEPT ![e] = o] /\ UNCHANGED pc
    /\ UNCHANGED <<clientVars, frame, net, traffic, gatewayVars, roster, causes>>

\* End of stream once all is read; a reset when the peer left something unread
ReadFails(e) ==
    /\ pc[e] \in (Shaking \ {"connect"}) \cup {"idle"}
    /\ \/ Broken(e)
       \/ net = "up" /\ Over(Peer(e)) /\ (wire[e] = <<>> \/ wire[Peer(e)] # <<>>)
    /\ Goto(e, IF pc[e] = "idle" THEN Stop(e) ELSE "over")
    /\ UNCHANGED <<clientVars, got, wire, frame, net, traffic, gatewayVars, roster, causes>>

\* The connection is reset, one of the two processes ends, or nothing more gets through.
Cut ==
    /\ scenario.faults
    /\ net = "up"
    /\ pc["client"] \notin {"connect", "over"}
    /\ net' \in {"reset", "silent"}
    /\ Because("named")
    /\ UNCHANGED <<clientVars, pc, got, wire, frame, traffic, gatewayVars, roster>>
------------------------------------------------------------------------------
(* The client: run_chat, or send_message, and the loop of finish_connection. *)

\* try_send; a full queue is reported and nothing is sent
SendChat ==
    /\ pc["client"] \in InLoop
    /\ ui = "open" /\ outcome = "none"
    /\ sent["client"] < scenario.chats
    /\ Len(queue["client"]) < QueueCapacity
    /\ sent' = [sent EXCEPT !["client"] = @ + 1]
    /\ queue' = [queue EXCEPT !["client"] = Append(@, Item("chat", sent["client"] + 1))]
    /\ UNCHANGED <<clientVars, transport, arrived, gatewayVars, roster, causes>>

\* Esc in the chat
CloseChat ==
    /\ scenario.user = "chat"
    /\ pc["client"] \in InLoop /\ ui = "open"
    /\ ui' = "closed"
    /\ Because("named")
    /\ UNCHANGED <<scenario, outcome, transport, traffic, gatewayVars, roster>>

\* The 8 seconds of send_message are over.
SendTimesOut ==
    /\ scenario.user = "send"
    /\ ui = "open" /\ sent["client"] = 1 /\ outcome = "none"
    /\ ui' = "closed" /\ outcome' = "failed"
    /\ Because("named")
    /\ UNCHANGED <<scenario, transport, traffic, gatewayVars, roster>>

\* variant: any chat message counts as the echo
AnyChat(item) == item.kind \in {"echo", "news"}

IsEcho(item) == item.kind = "echo"

\* What send_message makes of an event, after which it returns
Waits(item) == scenario.user = "chat" \/ outcome # "none" \/ (~IsEcho(item) /\ item.kind \notin {"error", "kick"})
Reports(item) ==
    IF Waits(item) THEN UNCHANGED <<outcome, ui>>
    ELSE /\ ui' = "closed"
         /\ outcome' = IF IsEcho(item) THEN "delivered" ELSE "failed"

ClientReads ==
    /\ ReadsBody("client")
    /\ LET item == Head(wire["client"]).item IN
         IF ui = "closed"
         THEN /\ Goto("client", "over")
              /\ UNCHANGED <<ui, outcome, arrived>>
         ELSE /\ Reports(item)
              /\ arrived' = [arrived EXCEPT !["client"] = IF item.kind = "kick" THEN @ ELSE Append(@, item.n)]
              /\ UNCHANGED pc
    /\ causes' = causes \cup IF ui' = "closed" THEN {"named"} ELSE {}
    /\ UNCHANGED <<scenario, queue, sent, gatewayVars, roster>>

\* The UI is gone and what it had sent is written.
ClientCloses ==
    /\ pc["client"] = "idle"
    /\ ui = "closed" /\ queue["client"] = <<>>
    /\ Goto("client", "over")
    /\ UNCHANGED <<clientVars, got, wire, frame, net, traffic, gatewayVars, roster, causes>>

\* ClientEvent::Disconnected
SendFails ==
    /\ scenario.user = "send"
    /\ Over("client") /\ ui = "open" /\ sent["client"] = 1
    /\ ui' = "closed" /\ outcome' = "failed"
    /\ UNCHANGED <<scenario, transport, traffic, gatewayVars, roster, causes>>
------------------------------------------------------------------------------
(* The gateway: enter_group. *)

\* send_to_client: try_send into the session's own queue
Post(kind) ==
    IF Len(queue["gateway"]) < QueueCapacity
    THEN /\ sent' = [sent EXCEPT !["gateway"] = @ + 1]
         /\ queue' = [queue EXCEPT !["gateway"] = Append(@, Item(kind, sent["gateway"] + 1))]
         /\ UNCHANGED causes
    ELSE /\ Because("full")
         /\ UNCHANGED <<queue, sent>>

Forgiven == 0

\* FixedWindowRateLimiter::allow, then the handler: the message is stored and
\* broadcast to all, its sender too, or refused
GatewayReads ==
    /\ ReadsBody("gateway")
    /\ LET item == Head(wire["gateway"]).item
           allowed == used < scenario.limit
       IN
         /\ arrived' = [arrived EXCEPT !["gateway"] = Append(@, item.n)]
         /\ overs' = Append(IF Len(overs) < MaxStrikes THEN overs ELSE Tail(overs), ~allowed)
         /\ used' = IF allowed THEN used + 1 ELSE used
         /\ strikes' = IF allowed THEN Forgiven ELSE strikes + 1
         /\ IF allowed
            THEN /\ \/ stored' = stored \cup {item.n} /\ Post("echo")
                    \/ stored' = stored /\ Post("error")
                 /\ UNCHANGED pc
            ELSE /\ UNCHANGED stored
                 /\ IF strikes' >= MaxStrikes
                    THEN Goto("gateway", "leave") /\ Because("rate") /\ UNCHANGED <<queue, sent>>
                    ELSE Post("error") /\ UNCHANGED pc
    /\ UNCHANGED <<clientVars, version, kicked, roster>>

\* A second has passed.  The window is renewed by the next message; where it still
\* has room that makes no difference.
NewWindow ==
    /\ pc["gateway"] \in InLoop
    /\ used >= scenario.limit
    /\ used' = 0
    /\ UNCHANGED <<clientVars, transport, traffic, version, stored, strikes, overs, kicked, roster, causes>>

\* broadcast to this session by another one
News ==
    /\ registered /\ pc["gateway"] # "enter"
    /\ sent["gateway"] < scenario.news
    /\ Post("news")
    /\ UNCHANGED <<clientVars, transport, arrived, gatewayVars, roster>>

\* A ban or a rotation: kick.send
Kick ==
    /\ scenario.faults
    /\ registered /\ kicked = "no"
    /\ kicked' = "sent"
    /\ Because("named")
    /\ UNCHANGED <<clientVars, transport, traffic, version, stored, used, strikes, overs, roster>>

Remove ==
    /\ registered' = FALSE
    /\ UNCHANGED <<told, causes>>
Tell ==
    /\ told' = Told("left")
    /\ causes' = causes \cup IF MissesIt THEN {"full"} ELSE {}
    /\ UNCHANGED registered

\* variant: MemberLeft is sent before the session is out of group.clients
TellFirst(step) == (step = "leave" /\ Tell) \/ (step = "left" /\ Remove)

Farewell(step) == (step = "leave" /\ Remove) \/ (step = "left" /\ Tell)

\* After the loop: out of group.clients, then MemberLeft to the others; then the
\* socket is dropped.
Leave ==
    /\ pc["gateway"] \in {"leave", "left"}
    /\ Goto("gateway", IF pc["gateway"] = "leave" THEN "left" ELSE "over")
    /\ Farewell(pc["gateway"])
    /\ UNCHANGED <<clientVars, got, wire, frame, net, traffic, gatewayVars, witness>>
------------------------------------------------------------------------------
(* Another session of the group: members of its Welcome, and what it hears. *)

WitnessEnters ==
    /\ scenario.witness /\ ~witness.here
    /\ witness' = [here |-> TRUE, sees |-> registered]
    /\ UNCHANGED <<clientVars, transport, traffic, gatewayVars, registered, told, causes>>

\* handle_server_event: MemberJoined, MemberLeft
WitnessHears ==
    /\ told # <<>>
    /\ witness' = [witness EXCEPT !.sees = Head(told) = "joined"]
    /\ told' = Tail(told)
    /\ UNCHANGED <<clientVars, transport, traffic, gatewayVars, registered, causes>>

Entering == Connect \/ ClientNoise \/ GatewayNoise \/ Hello \/ ClientWelcome \/ Selection \/ EnterGroup \/ ClientGroup
Writing(e) == TakeNext(e) \/ WriteHead(e) \/ WriteBody(e) \/ WriteFails(e)
Reading(e) == ReadHead(e) \/ ReadStray(e) \/ ReadFails(e)
ClientLoop == ClientReads \/ ClientCloses \/ SendFails
GatewayLoop == GatewayReads \/ TakeKick \/ Leave
UserOrNet == TakePrivate \/ Cut \/ SendChat \/ CloseChat \/ SendTimesOut \/ NewWindow \/ News \/ Kick
Witness == WitnessEnters \/ WitnessHears

Next ==
    \/ Entering \/ ClientLoop \/ GatewayLoop \/ UserOrNet \/ Witness
    \/ \E e \in End : Timeout(e) \/ Writing(e) \/ Reading(e)

Spec == Init /\ [][Next]_vars

\* Both loops run, the timers expire, and select! takes each branch that stays
\* ready.  Every message is one of finitely many here, so that a branch that is
\* always ready again is in the end always ready, and weak fairness is enough.
FairSpec ==
    /\ Spec
    /\ WF_vars(Entering) /\ WF_vars(ClientReads) /\ WF_vars(ClientCloses)
    /\ WF_vars(GatewayReads) /\ WF_vars(TakeKick) /\ WF_vars(Leave)
    /\ \A e \in End : WF_vars(Timeout(e)) /\ WF_vars(Writing(e)) /\ WF_vars(Reading(e))
------------------------------------------------------------------------------

\* The two builds speak the newest version that both know (handle_client,
\* sanitize_server_message).
VersionIsBest ==
    LET common == (GatewayMin..GatewayMax) \cap (scenario.min..scenario.max) IN
      /\ version # 0 => version \in common /\ \A v \in common : v <= version
      /\ pc["client"] \in InLoop => version \in common

\* What an end has read is what the other has put into its queue, from the first
\* message on, none skipped and none twice: whatever select! drops, whatever a
\* stray reader reads, and however the connection ends (crypto.rs, both loops).
InOrder == \A e \in End : arrived[e] = [i \in 1..Len(arrived[e]) |-> i]

\* Nothing ends a connection or leads a reader astray but what has a name here: a
\* loop that is left alone goes on (both loops).
EndsForACause ==
    \/ causes # {}
    \/ \A e \in End : pc[e] \notin {"leave", "left", "over"} /\ got[e] # "astray"

\* send_message says delivered only of a message that was stored, and failed of
\* one that was stored only when something has gone wrong with the connection,
\* the queue or the time.
HonestSend ==
    /\ outcome = "delivered" => 1 \in stored
    /\ outcome = "failed" => 1 \notin stored \/ causes # {}

\* The limiter ends a session only for messages over the limit in a row
\* (consecutive_rate_violations).
RateEndsRunaways ==
    "rate" \in causes =>
        overs = [i \in 1..MaxStrikes |-> TRUE]

\* Another session that has heard all that was sent to it lists this one while it
\* is in the group and no longer when it has gone, unless its queue was full or
\* the session failed before its Welcome: then nobody is told (enter_group).
RosterAgrees ==
    witness.here /\ told = <<>> /\ "full" \notin causes =>
        /\ pc["gateway"] \in InLoop => witness.sees
        /\ Over("gateway") /\ "store" \notin causes => ~witness.sees

\* Each loop waits to write into full buffers that the other does not read.
Standstill ==
    /\ net = "up"
    /\ \A e \in End : pc[e] \in {"head", "body"} /\ ~Room(Peer(e))

\* No end stays in the handshake, whatever the network does: the gateway's 128
\* connections are not used up by clients that never get further (handle_client,
\* open_gateway, finish_connection).
HandshakeEnds ==
    (\E e \in End : pc[e] \in Shaking) ~> \A e \in End : pc[e] \notin Shaking

\* A message that was taken from the user gets to the gateway, or the connection
\* ends, except in a standstill, in silence or when the gateway's reader has gone
\* astray; of those no end hears anything (both loops).  A session that has been
\* banned or whose token was rotated ends, unless its loop is stuck in a write
\* (enter_group: kick_rx).
GetsThrough ==
    /\ sent["client"] > 0 ~>
          \/ arrived["gateway"] # <<>>
          \/ Over("client") \/ Over("gateway")
          \/ Standstill \/ net = "silent" \/ got["gateway"] = "astray"
    /\ kicked # "no" ~> Over("gateway") \/ Standstill \/ net = "silent"

\* The two ends have agreed on the version, and each has read what the other sent
\* (handle_client, crypto.rs).
EndsAgree == TypeOK /\ VersionIsBest /\ InOrder

\* A connection ends, is cut off for its rate, or has a message reported as failed,
\* only for a cause, and what is reported delivered is stored (both loops,
\* send_message).
FailsForACause == EndsForACause /\ RateEndsRunaways /\ HonestSend
==============================================================================
