--------------------------- MODULE GatewayLinkProofs ---------------------------
(***************************************************************************)
(* That the ends of a connection agree, that it fails only for a cause,    *)
(* and that another session's roster is right, for every scenario and      *)
(* every capacity.                                                         *)
(***************************************************************************)
EXTENDS GatewayLink, Integers, SequenceTheorems, TLAPS

-----------------------------------------------------------------------------
(* The inductive invariant *)

Leaving == {"leave", "left", "over"}

\* Hello has been answered with a version that suits both builds.
Agreed ==
    /\ version = Negotiated
    /\ GatewayMin <= version /\ scenario.min <= version

\* The ends are at these stages of the handshake, unless they are over, with these
\* messages on their way to the gateway and to the client.
At(c, g, toGateway, toClient) ==
    /\ pc["client"] \in {c, "over"} /\ pc["gateway"] \in {g, "over"}
    /\ wire["gateway"] = toGateway /\ wire["client"] = toClient
Saying(kind) == <<[part |-> kind]>>

Meeting ==
    \/ At("connect", "none", <<>>, <<>>)
    \/ At("noise", "noise", Saying("noise1"), <<>>)
    \/ At("noise", "noise3", <<>>, Saying("noise2"))
    \/ At("hello", "noise3", <<[part |-> "noise3"], [part |-> "hello"]>>, <<>>)
    \/ At("over", "noise3", Saying("noise3"), <<>>)
    \/ At("hello", "hello", Saying("hello"), <<>>)
    \/ At("over", "hello", <<>>, <<>>)
    \/ Agreed /\ At("hello", "select", <<>>, Saying("welcome"))
    \/ At("hello", "over", <<>>, Saying("error"))
    \/ Agreed /\ At("select", "select", Saying("selection"), <<>>)
    \/ At("over", "select", <<>>, <<>>)
    \/ Agreed /\ At("select", "enter", <<>>, <<>>)
    \/ At("select", "over", <<>>, Saying("pending"))
    \/ At("select", "over", <<>>, Saying("error"))

\* The session is in its group; the client may have Welcome still to read.
InRoom ==
    /\ Agreed
    /\ pc["client"] \in {"select", "over"} \cup InLoop
    /\ pc["gateway"] \in Leaving \cup InLoop
    /\ pc["client"] = "select" => wire["client"] # <<>> /\ wire["client"][1] = [part |-> "group"]
    /\ \A i \in 1..Len(wire["gateway"]) : wire["gateway"][i].part \in {"head", "body"}
    /\ \A i \in 1..Len(wire["client"]) :
          \/ wire["client"][i].part \in {"head", "body"}
          \/ i = 1 /\ pc["client"] \in {"select", "over"} /\ wire["client"][1] = [part |-> "group"]

\* Before its loop an end has sent and read no message.
Fresh ==
    \A e \in End :
        pc[e] \notin InLoop \cup Leaving =>
            sent[e] = 0 /\ queue[e] = <<>> /\ arrived[e] = <<>> /\ got[e] = "start"

IsItem(part) == part.part \in {"head", "body"}
IsKick(item) == item.kind = "kick"

\* The kick is the last that is written to the client; nobody else writes one.
Kicked ==
    /\ ~IsKick(frame["client"])
    /\ \A e \in End : \A i \in 1..Len(queue[e]) : ~IsKick(queue[e][i])
    /\ \A i \in 1..Len(wire["gateway"]) : IsItem(wire["gateway"][i]) => ~IsKick(wire["gateway"][i].item)
    /\ kicked = "seen" =>
          \/ pc["gateway"] \in Leaving
          \/ pc["gateway"] \in {"head", "body"} /\ IsKick(frame["gateway"])
    /\ IsKick(frame["gateway"]) => kicked = "seen"
    /\ \A i \in 1..Len(wire["client"]) :
          IsItem(wire["client"][i]) /\ IsKick(wire["client"][i].item) =>
              /\ kicked = "seen" /\ pc["gateway"] # "head"
              /\ \A k \in i..Len(wire["client"]) :
                    IsItem(wire["client"][k]) => IsKick(wire["client"][k].item)

\* Messages are numbered as they are put into the queue.
Numbered ==
    \A e \in End :
        /\ Len(queue[e]) <= sent[e]
        /\ \A i \in 1..Len(queue[e]) : queue[e][i].n = sent[e] - Len(queue[e]) + i
Taken(e) == sent[e] - Len(queue[e])

\* What has been read, or dropped, before the first part on the wire: a head, or
\* minus one as long as Welcome is there
Lead(e) == IF got[e] = "head" THEN 1 ELSE IF pc[e] = "select" THEN 0 - 1 ELSE 0

\* The parts on the way to e go on where e is: head and body of each message in turn.
Fits(e) ==
    \A i \in 1..Len(wire[e]) :
        IsItem(wire[e][i]) /\ ~IsKick(wire[e][i].item) =>
            2 * (wire[e][i].item.n - Len(arrived[e]))
                = i + Lead(e) + (IF wire[e][i].part = "head" THEN 1 ELSE 0)

\* The writer goes on where the parts on their way end.
Continues(e) ==
    LET p == Peer(e)
        written == Len(wire[e]) + Lead(e)
    IN  /\ pc[p] \in {"idle", "select"} => 2 * (Taken(p) - Len(arrived[e])) = written
        /\ pc[p] = "head" /\ ~IsKick(frame[p]) =>
              frame[p].n = Taken(p) /\ 2 * (Taken(p) - 1 - Len(arrived[e])) = written
        /\ pc[p] = "body" /\ ~IsKick(frame[p]) =>
              frame[p].n = Taken(p) /\ 2 * (Taken(p) - Len(arrived[e])) = written + 1

Reads(e) == pc[e] \in {"select"} \cup InLoop /\ got[e] # "astray"
Streams == InRoom => \A e \in End : Reads(e) => Fits(e) /\ Continues(e)

\* The client's messages are those that its user has sent.
Bounded ==
    /\ sent["client"] <= scenario.chats
    /\ frame["client"].n <= sent["client"]
    /\ \A i \in 1..Len(wire["gateway"]) :
          IsItem(wire["gateway"][i]) => wire["gateway"][i].item.n <= sent["client"]

\* An echo is of a message that is stored.
Echoed ==
    /\ \A i \in 1..Len(queue["gateway"]) : IsEcho(queue["gateway"][i]) => stored # {}
    /\ IsEcho(frame["gateway"]) => stored # {}
    /\ \A i \in 1..Len(wire["client"]) :
          IsItem(wire["client"][i]) /\ IsEcho(wire["client"][i].item) => stored # {}

\* What ends a connection has a cause.
Caused ==
    causes = {} =>
        /\ net = "up" /\ ui = "open" /\ kicked = "no"
        /\ \A i \in 1..Len(wire["client"]) : wire["client"][i].part \notin {"pending", "error"}

Reported ==
    /\ outcome # "none" => ui = "closed"
    /\ outcome = "failed" => causes # {}
    /\ outcome = "delivered" => stored # {} /\ scenario.user = "send"

\* The strikes are the last messages that were over the limit.
Counted ==
    /\ Len(overs) <= MaxStrikes /\ strikes <= Len(overs)
    /\ \A i \in 1..Len(overs) : Len(overs) - strikes < i => overs[i] = TRUE
    /\ strikes = MaxStrikes => pc["gateway"] \in Leaving
    /\ "rate" \in causes => pc["gateway"] \in Leaving

\* What the other session will show when it has heard all
WillSee == IF told = <<>> THEN witness.sees ELSE told[Len(told)] = "joined"

Listed ==
    /\ registered <=> (pc["gateway"] \in {"enter", "leave"} \cup InLoop)
    /\ ~witness.here => told = <<>>
    /\ witness.here /\ "full" \notin causes =>
          /\ pc["gateway"] \in {"leave"} \cup InLoop => WillSee
          /\ /\ pc["gateway"] \notin {"enter", "leave", "left"} \cup InLoop
             /\ pc["gateway"] = "over" => "store" \notin causes
             => ~WillSee
    /\ pc["gateway"] \notin InLoop \cup Leaving => told = <<>>

\* The gateway has accepted nothing before the client connects; the version was
\* agreed on; an inspection goes no further than Welcome.
Versions ==
    /\ pc["client"] = "connect" => pc["gateway"] = "none"
    /\ version # 0 => Agreed
    /\ pc["client"] \in {"select"} \cup InLoop => scenario.user # "inspect"

IInv ==
    /\ TypeOK /\ InOrder /\ (Meeting \/ InRoom) /\ Fresh /\ Versions
    /\ Kicked /\ Numbered /\ Streams /\ Bounded
    /\ EndsForACause /\ Caused /\ Echoed /\ Reported /\ RateEndsRunaways /\ Counted /\ Listed

-----------------------------------------------------------------------------
(* Facts about the data *)

LEMMA Ends ==
    /\ End = {"client", "gateway"}
    /\ Peer("client") = "gateway" /\ Peer("gateway") = "client"
    /\ \A e \in End : Peer(e) \in End /\ Peer(e) # e /\ Peer(Peer(e)) = e
  BY DEF End, Peer

\* A part of a frame has a message; the messages of the handshake are what they are.
LEMMA PartFacts ==
    /\ \A w \in Parts :
          /\ IsItem(w) => w.item \in Items
          /\ ~IsItem(w) => w.part \in Handshake /\ w = [part |-> w.part]
    /\ \A part \in {"head", "body"}, item \in Items :
          /\ [part |-> part, item |-> item] \in Parts /\ IsItem([part |-> part, item |-> item])
          /\ [part |-> part, item |-> item].part = part
          /\ [part |-> part, item |-> item].item = item
    /\ \A k \in Handshake :
          [part |-> k] \in Parts /\ [part |-> k].part = k /\ ~IsItem([part |-> k])
  BY DEF Parts, Items, Handshake, IsItem

LEMMA ItemFacts ==
    /\ \A i \in Items : i.n \in Nat
    /\ \A kind \in {"chat", "news", "echo", "error", "kick"}, n \in Nat :
          Item(kind, n) \in Items /\ Item(kind, n).kind = kind /\ Item(kind, n).n = n
    /\ Nothing \in Items /\ ~IsKick(Nothing) /\ ~IsEcho(Nothing) /\ Nothing.n = 0
  BY DEF Items, Item, Nothing, IsKick, IsEcho

\* A message of the handshake, alone on the wire or before another one
LEMMA SayingFacts ==
    /\ \A k \in Handshake :
          /\ Saying(k) \in Seq(Parts) /\ Len(Saying(k)) = 1 /\ Saying(k)[1] = [part |-> k]
          /\ Saying(k) # <<>> /\ Head(Saying(k)) = [part |-> k] /\ Tail(Saying(k)) = <<>>
    /\ \A k, l \in Handshake :
          LET both == <<[part |-> k], [part |-> l]>>
          IN  /\ both \in Seq(Parts) /\ Len(both) = 2
              /\ both # <<>> /\ Head(both) = [part |-> k] /\ Tail(both) = Saying(l)
    /\ <<>> \in Seq(Parts) /\ Len(<<>>) = 0 /\ \A s \in Seq(Parts) : <<>> \o s = s /\ s \o <<>> = s
<1>1. \A k \in Handshake : [part |-> k] \in Parts
  BY PartFacts
<1>2. <<>> \in Seq(Parts) /\ Len(<<>>) = 0 /\ \A s \in Seq(Parts) : <<>> \o s = s /\ s \o <<>> = s
  OBVIOUS
<1>3. ASSUME NEW k \in Handshake
      PROVE  /\ Saying(k) \in Seq(Parts) /\ Len(Saying(k)) = 1 /\ Saying(k)[1] = [part |-> k]
             /\ Saying(k) # <<>> /\ Head(Saying(k)) = [part |-> k] /\ Tail(Saying(k)) = <<>>
  BY <1>1 DEF Saying
<1>4. ASSUME NEW k \in Handshake, NEW l \in Handshake
      PROVE  LET both == <<[part |-> k], [part |-> l]>>
             IN  /\ both \in Seq(Parts) /\ Len(both) = 2
                 /\ both # <<>> /\ Head(both) = [part |-> k] /\ Tail(both) = Saying(l)
  BY <1>1 DEF Saying
<1>5. QED
  BY <1>2, <1>3, <1>4

\* e has read the first message on its way to it and goes to "to"; "rest" is on its
\* way to the peer.
Passed(e, to, rest) ==
    /\ wire' \in [End -> Seq(Parts)]
    /\ wire'[e] = Tail(wire[e]) /\ wire'[Peer(e)] = rest
    /\ pc' = [pc EXCEPT ![e] = to] /\ UNCHANGED <<got, frame, net>>

\* The first message is read and not answered.
LEMMA ExchangedNone ==
    ASSUME TypeOK, NEW e \in End, NEW expected, NEW to,
           Exchange(e, expected, <<>>, to)
    PROVE  /\ wire[e] # <<>> /\ Head(wire[e]) = [part |-> expected]
           /\ Passed(e, to, wire[Peer(e)])
<1> DEFINE A == [i \in DOMAIN <<>> |-> [part |-> <<>>[i]]]
<1>1. /\ wire \in [End -> Seq(Parts)] /\ pc \in [End -> Shaking \cup InLoop \cup {"none", "enter", "leave", "left", "over"}]
      /\ Peer(e) \in End /\ Peer(e) # e
  BY Ends DEF TypeOK
<1>2. A = <<>>
  BY DEF Saying
<1>3. wire[Peer(e)] \o <<>> = wire[Peer(e)] /\ wire[Peer(e)] \in Seq(Parts)
  BY <1>1, SayingFacts
<1>4. wire[e] # <<>> /\ Head(wire[e]) = [part |-> expected]
  BY DEF Exchange
<1>5. /\ wire' = [wire EXCEPT ![e] = Tail(wire[e]), ![Peer(e)] = wire[Peer(e)] \o A]
      /\ pc' = [pc EXCEPT ![e] = to] /\ UNCHANGED <<got, frame, net>>
  BY <1>1 DEF Exchange, Goto
<1>6. wire' = [wire EXCEPT ![e] = Tail(wire[e]), ![Peer(e)] = wire[Peer(e)]]
  BY <1>2, <1>3, <1>5
<1>7. Tail(wire[e]) \in Seq(Parts)
  BY <1>1, <1>4
<1>8. wire' \in [End -> Seq(Parts)] /\ wire'[e] = Tail(wire[e]) /\ wire'[Peer(e)] = wire[Peer(e)]
  BY <1>1, <1>3, <1>6, <1>7
<1>9. QED
  BY <1>4, <1>5, <1>8 DEF Passed

\* It is answered with one, and none was on its way to the peer.
LEMMA ExchangedOne ==
    ASSUME TypeOK, NEW e \in End, NEW expected, NEW k \in Handshake, NEW to,
           Exchange(e, expected, <<k>>, to), wire[Peer(e)] = <<>>
    PROVE  /\ wire[e] # <<>> /\ Head(wire[e]) = [part |-> expected]
           /\ Passed(e, to, Saying(k))
<1> DEFINE A == [i \in DOMAIN <<k>> |-> [part |-> <<k>>[i]]]
<1>1. /\ wire \in [End -> Seq(Parts)] /\ pc \in [End -> Shaking \cup InLoop \cup {"none", "enter", "leave", "left", "over"}]
      /\ Peer(e) \in End /\ Peer(e) # e
  BY Ends DEF TypeOK
<1>2. A = Saying(k)
  BY DEF Saying
<1>3. wire[Peer(e)] \o Saying(k) = Saying(k) /\ Saying(k) \in Seq(Parts)
  BY <1>1, SayingFacts
<1>4. wire[e] # <<>> /\ Head(wire[e]) = [part |-> expected]
  BY DEF Exchange
<1>5. /\ wire' = [wire EXCEPT ![e] = Tail(wire[e]), ![Peer(e)] = wire[Peer(e)] \o A]
      /\ pc' = [pc EXCEPT ![e] = to] /\ UNCHANGED <<got, frame, net>>
  BY <1>1 DEF Exchange, Goto
<1>6. wire' = [wire EXCEPT ![e] = Tail(wire[e]), ![Peer(e)] = Saying(k)]
  BY <1>2, <1>3, <1>5
<1>7. Tail(wire[e]) \in Seq(Parts)
  BY <1>1, <1>4
<1>8. wire' \in [End -> Seq(Parts)] /\ wire'[e] = Tail(wire[e]) /\ wire'[Peer(e)] = Saying(k)
  BY <1>1, <1>3, <1>6, <1>7
<1>9. QED
  BY <1>4, <1>5, <1>8 DEF Passed

\* It is answered with two.
LEMMA ExchangedTwo ==
    ASSUME TypeOK, NEW e \in End, NEW expected, NEW k \in Handshake, NEW l \in Handshake, NEW to,
           Exchange(e, expected, <<k, l>>, to), wire[Peer(e)] = <<>>
    PROVE  /\ wire[e] # <<>> /\ Head(wire[e]) = [part |-> expected]
           /\ Passed(e, to, <<[part |-> k], [part |-> l]>>)
<1> DEFINE A == [i \in DOMAIN <<k, l>> |-> [part |-> <<k, l>>[i]]]
<1>1. /\ wire \in [End -> Seq(Parts)] /\ pc \in [End -> Shaking \cup InLoop \cup {"none", "enter", "leave", "left", "over"}]
      /\ Peer(e) \in End /\ Peer(e) # e
  BY Ends DEF TypeOK
<1>2. A = <<[part |-> k], [part |-> l]>>
  BY DEF Saying
<1>3. wire[Peer(e)] \o <<[part |-> k], [part |-> l]>> = <<[part |-> k], [part |-> l]>> /\ <<[part |-> k], [part |-> l]>> \in Seq(Parts)
  BY <1>1, SayingFacts
<1>4. wire[e] # <<>> /\ Head(wire[e]) = [part |-> expected]
  BY DEF Exchange
<1>5. /\ wire' = [wire EXCEPT ![e] = Tail(wire[e]), ![Peer(e)] = wire[Peer(e)] \o A]
      /\ pc' = [pc EXCEPT ![e] = to] /\ UNCHANGED <<got, frame, net>>
  BY <1>1 DEF Exchange, Goto
<1>6. wire' = [wire EXCEPT ![e] = Tail(wire[e]), ![Peer(e)] = <<[part |-> k], [part |-> l]>>]
  BY <1>2, <1>3, <1>5
<1>7. Tail(wire[e]) \in Seq(Parts)
  BY <1>1, <1>4
<1>8. wire' \in [End -> Seq(Parts)] /\ wire'[e] = Tail(wire[e]) /\ wire'[Peer(e)] = <<[part |-> k], [part |-> l]>>
  BY <1>1, <1>3, <1>6, <1>7
<1>9. QED
  BY <1>4, <1>5, <1>8 DEF Passed

-----------------------------------------------------------------------------
(* The stages of the handshake *)

\* Who has something to read in the handshake, and what the peer has then.
LEMMA Stages ==
    ASSUME TypeOK, Meeting \/ InRoom
    PROVE  /\ pc["client"] = "connect" => At("connect", "none", <<>>, <<>>)
           /\ pc["client"] = "noise" /\ wire["client"] # <<>> =>
                 At("noise", "noise3", <<>>, Saying("noise2"))
           /\ pc["gateway"] = "noise" => At("noise", "noise", Saying("noise1"), <<>>)
           /\ pc["gateway"] = "noise3" /\ wire["gateway"] # <<>> =>
                 \/ At("hello", "noise3", <<[part |-> "noise3"], [part |-> "hello"]>>, <<>>)
                 \/ At("over", "noise3", Saying("noise3"), <<>>)
           /\ pc["gateway"] = "hello" /\ wire["gateway"] # <<>> =>
                 At("hello", "hello", Saying("hello"), <<>>)
           /\ pc["client"] = "hello" /\ wire["client"] # <<>> /\ Head(wire["client"]) = [part |-> "welcome"] =>
                 Agreed /\ At("hello", "select", <<>>, Saying("welcome"))
           /\ pc["client"] = "hello" /\ wire["client"] # <<>> /\ Head(wire["client"]) = [part |-> "error"] =>
                 At("hello", "over", <<>>, Saying("error"))
           /\ pc["gateway"] = "select" /\ wire["gateway"] # <<>> =>
                 Agreed /\ At("select", "select", Saying("selection"), <<>>)
           /\ pc["gateway"] = "enter" => Agreed /\ At("select", "enter", <<>>, <<>>)
           /\ pc["client"] = "select" /\ wire["client"] # <<>> /\ ~InRoom =>
                 /\ Head(wire["client"]) # [part |-> "group"]
                 /\ \E k \in {"pending", "error"} : At("select", "over", <<>>, Saying(k))
<1> DEFINE Rows ==
      /\ pc["client"] = "connect" => At("connect", "none", <<>>, <<>>)
      /\ pc["client"] = "noise" /\ wire["client"] # <<>> =>
            At("noise", "noise3", <<>>, Saying("noise2"))
      /\ pc["gateway"] = "noise" => At("noise", "noise", Saying("noise1"), <<>>)
      /\ pc["gateway"] = "noise3" /\ wire["gateway"] # <<>> =>
            \/ At("hello", "noise3", <<[part |-> "noise3"], [part |-> "hello"]>>, <<>>)
            \/ At("over", "noise3", Saying("noise3"), <<>>)
      /\ pc["gateway"] = "hello" /\ wire["gateway"] # <<>> =>
            At("hello", "hello", Saying("hello"), <<>>)
      /\ pc["gateway"] = "select" /\ wire["gateway"] # <<>> =>
            Agreed /\ At("select", "select", Saying("selection"), <<>>)
      /\ pc["gateway"] = "enter" => Agreed /\ At("select", "enter", <<>>, <<>>)
<1> DEFINE Answers ==
      /\ pc["client"] = "hello" /\ wire["client"] # <<>> /\ Head(wire["client"]) = [part |-> "welcome"] =>
            Agreed /\ At("hello", "select", <<>>, Saying("welcome"))
      /\ pc["client"] = "hello" /\ wire["client"] # <<>> /\ Head(wire["client"]) = [part |-> "error"] =>
            At("hello", "over", <<>>, Saying("error"))
      /\ pc["client"] = "select" /\ wire["client"] # <<>> /\ ~InRoom =>
            /\ Head(wire["client"]) # [part |-> "group"]
            /\ \E k \in {"pending", "error"} : At("select", "over", <<>>, Saying(k))
<1>1. Rows
  BY DEF Meeting, InRoom, At, InLoop, Leaving
<1>a. /\ \A k, l \in Handshake : [part |-> k] = [part |-> l] => k = l
      /\ \A k \in Handshake : Saying(k) # <<>> /\ Head(Saying(k)) = [part |-> k]
      /\ {"welcome", "error", "group", "pending"} \subseteq Handshake
  BY PartFacts, SayingFacts DEF Handshake
<1>2. Answers
  BY <1>a DEF Meeting, InRoom, At, InLoop, Leaving
<1>3. QED
  BY <1>1, <1>2

AnyStage == Meeting \/ InRoom

\* The handshake puts no message of the loops on its way.
Shuffled ==
    \/ wire' = wire
    \/ \A e \in End : \A i \in 1..Len(wire'[e]) : ~IsItem(wire'[e][i])
    \/ /\ ClientGroup /\ wire["client"] # <<>>
       /\ wire'["client"] = Tail(wire["client"]) /\ wire'["gateway"] = wire["gateway"]

\* The session is in the room from EnterGroup on.
StageNext == Meeting' \/ (InRoom' /\ (InRoom \/ EnterGroup))

\* Each message of the handshake leads from one stage to the next one.
LEMMA EnteringStages ==
    ASSUME TypeOK, AnyStage, Entering
    PROVE  StageNext /\ Shuffled /\ wire' \in [End -> Seq(Parts)] /\ \A e \in End : Len(wire'[e]) <= WireCapacity
<1> DEFINE Fine ==
      StageNext /\ Shuffled /\ wire' \in [End -> Seq(Parts)] /\ \A e \in End : Len(wire'[e]) <= WireCapacity
<1> DEFINE Brief == {<<>>, <<[part |-> "noise3"], [part |-> "hello"]>>}
                      \cup {Saying(k) : k \in Handshake}
<1>h. /\ "noise1" \in Handshake /\ "noise2" \in Handshake /\ "noise3" \in Handshake
      /\ "hello" \in Handshake /\ "welcome" \in Handshake /\ "selection" \in Handshake
      /\ "group" \in Handshake /\ "pending" \in Handshake /\ "error" \in Handshake
  BY DEF Handshake
<1>b. \A s \in Brief : s \in Seq(Parts) /\ Len(s) \in Nat /\ Len(s) <= 2
  <2>1. \A k \in Handshake : Saying(k) \in Seq(Parts) /\ Len(Saying(k)) = 1
    BY SayingFacts
  <2>2. <<[part |-> "noise3"], [part |-> "hello"]>> \in Seq(Parts)
    BY <1>h, SayingFacts
  <2>3. Len(<<[part |-> "noise3"], [part |-> "hello"]>>) = 2
    OBVIOUS
  <2>4. <<>> \in Seq(Parts) /\ Len(<<>>) = 0
    OBVIOUS
  <2>5. ASSUME NEW s \in Brief PROVE s \in Seq(Parts) /\ Len(s) \in Nat /\ Len(s) <= 2
    <3>1. CASE \E k \in Handshake : s = Saying(k)
      BY <2>1, <3>1
    <3>2. CASE s = <<>>
      BY <2>4, <3>2
    <3>3. CASE s = <<[part |-> "noise3"], [part |-> "hello"]>>
      BY <2>2, <2>3, <3>3
    <3>4. QED
      BY <2>5, <3>1, <3>2, <3>3
  <2>6. QED
    BY <2>5
<1>t. \A k \in Handshake : Tail(Saying(k)) = <<>>
  BY SayingFacts
<1>w. /\ wire \in [End -> Seq(Parts)] /\ \A e \in End : Len(wire[e]) <= WireCapacity
      /\ pc \in [End -> Shaking \cup InLoop \cup {"none", "enter", "leave", "left", "over"}]
      /\ "client" \in End /\ "gateway" \in End
      /\ WireCapacity \in Nat /\ WireCapacity >= 2
  BY LinkAssumption, Ends DEF TypeOK
<1>f. ASSUME wire' \in [End -> Seq(Parts)], wire'["gateway"] \in Brief, wire'["client"] \in Brief,
             StageNext
      PROVE  Fine
  <2>1. ASSUME NEW e \in End PROVE Len(wire'[e]) <= WireCapacity
    <3>1. e = "client" \/ e = "gateway"
      BY Ends
    <3>2. Len(wire'[e]) \in Nat /\ Len(wire'[e]) <= 2
      BY <1>f, <1>b, <3>1
    <3>3. QED
      BY <3>2, <1>w
  <2>2. ASSUME NEW e \in End PROVE \A i \in 1..Len(wire'[e]) : ~IsItem(wire'[e][i])
    <3>1. wire'[e] \in Brief
      BY <1>f, Ends
    <3>2. CASE \E k \in Handshake : wire'[e] = Saying(k)
      <4>1. PICK k \in Handshake : wire'[e] = Saying(k)
        BY <3>2
      <4>2. Len(Saying(k)) = 1 /\ Saying(k)[1] = [part |-> k]
        BY SayingFacts
      <4>3. ~IsItem([part |-> k])
        BY PartFacts
      <4>4. QED
        BY <4>1, <4>2, <4>3
    <3>3. CASE wire'[e] = <<>>
      BY <3>3
    <3>4. CASE wire'[e] = <<[part |-> "noise3"], [part |-> "hello"]>>
      BY <3>4, <1>h, PartFacts
    <3>5. QED
      BY <3>1, <3>2, <3>3, <3>4
  <2>3. Shuffled
    BY <2>2 DEF Shuffled
  <2>4. QED
    BY <2>1, <2>3, <1>f
<1>1. CASE Connect
  <2>1. At("connect", "none", <<>>, <<>>)
    BY <1>1, Stages DEF Connect, AnyStage
  <2>2. CASE wire' = [wire EXCEPT !["gateway"] = <<[part |-> "noise1"]>>] /\ pc' = [e \in End |-> "noise"]
    <3>1. /\ wire'["gateway"] = Saying("noise1") /\ wire'["client"] = <<>>
          /\ wire' \in [End -> Seq(Parts)]
      BY <2>1, <2>2, <1>w, <1>h, SayingFacts DEF At, Saying
    <3>2. At("noise", "noise", Saying("noise1"), <<>>)'
      BY <3>1, <2>2, <1>w DEF At, Saying
    <3>3. QED
      BY <3>1, <3>2, <1>f, <1>h DEF Meeting, StageNext
  <2>3. CASE UNCHANGED wire /\ pc' = [e \in End |-> "over"]
    <3>1. At("connect", "none", <<>>, <<>>)'
      BY <2>1, <2>3, <1>w DEF At
    <3>2. QED
      BY <3>1, <2>3, <1>w DEF Meeting, StageNext, Shuffled
  <2>4. QED
    BY <1>1, <2>2, <2>3 DEF Connect
<1>2. CASE ClientNoise
  <2>1. CASE Exchange("client", "noise2", <<"noise3", "hello">>, "hello")
    <3>1. At("noise", "noise3", <<>>, Saying("noise2"))
      BY <1>2, <2>1, Stages DEF Exchange, AnyStage, ClientNoise
    <3>2. Passed("client", "hello", <<[part |-> "noise3"], [part |-> "hello"]>>)
      BY <1>2, <2>1, <3>1, <1>h, ExchangedTwo, Ends DEF At
    <3>3. wire'["client"] = <<>> /\ wire'["gateway"] = <<[part |-> "noise3"], [part |-> "hello"]>>
      BY <3>1, <3>2, <1>h, <1>t, Ends DEF Passed, At
    <3>4. At("hello", "noise3", <<[part |-> "noise3"], [part |-> "hello"]>>, <<>>)'
      BY <3>1, <3>2, <3>3, <1>w DEF Passed, At
    <3>5. QED
      BY <3>2, <3>3, <3>4, <1>f, <1>h DEF Passed, Meeting, StageNext
  <2>2. CASE Exchange("client", "noise2", <<"noise3">>, "over")
    <3>1. At("noise", "noise3", <<>>, Saying("noise2"))
      BY <1>2, <2>2, Stages DEF Exchange, AnyStage, ClientNoise
    <3>2. Passed("client", "over", Saying("noise3"))
      BY <1>2, <2>2, <3>1, <1>h, ExchangedOne, Ends DEF At
    <3>3. wire'["client"] = <<>> /\ wire'["gateway"] = Saying("noise3")
      BY <3>1, <3>2, <1>h, <1>t, Ends DEF Passed, At
    <3>4. At("over", "noise3", Saying("noise3"), <<>>)'
      BY <3>1, <3>2, <3>3, <1>w DEF Passed, At
    <3>5. QED
      BY <3>2, <3>3, <3>4, <1>f, <1>h DEF Passed, Meeting, StageNext
  <2>3. QED
    BY <1>2, <2>1, <2>2 DEF ClientNoise
<1>3. CASE GatewayNoise
  <2>1. CASE pc["gateway"] = "noise" /\ Exchange("gateway", "noise1", <<"noise2">>, "noise3")
    <3>1. At("noise", "noise", Saying("noise1"), <<>>)
      BY <2>1, Stages DEF Exchange, AnyStage
    <3>2. Passed("gateway", "noise3", Saying("noise2"))
      BY <2>1, <3>1, <1>h, ExchangedOne, Ends DEF At
    <3>3. wire'["gateway"] = <<>> /\ wire'["client"] = Saying("noise2")
      BY <3>1, <3>2, <1>h, <1>t, Ends DEF Passed, At
    <3>4. At("noise", "noise3", <<>>, Saying("noise2"))'
      BY <3>1, <3>2, <3>3, <1>w DEF Passed, At
    <3>5. QED
      BY <3>2, <3>3, <3>4, <1>f, <1>h DEF Passed, Meeting, StageNext
  <2>2. CASE pc["gateway"] = "noise3" /\ Exchange("gateway", "noise3", <<>>, "hello")
    <3>1. \/ At("hello", "noise3", <<[part |-> "noise3"], [part |-> "hello"]>>, <<>>)
          \/ At("over", "noise3", Saying("noise3"), <<>>)
      BY <2>2, Stages DEF Exchange, AnyStage
    <3>2. Passed("gateway", "hello", wire["client"])
      BY <2>2, <1>h, ExchangedNone, Ends
    <3>3. wire'["client"] = <<>>
      BY <3>1, <3>2, Ends DEF Passed, At
    <3>4. CASE At("hello", "noise3", <<[part |-> "noise3"], [part |-> "hello"]>>, <<>>)
      <4>1. wire'["gateway"] = Saying("hello")
        BY <3>2, <3>4, <1>h, SayingFacts DEF Passed, At
      <4>2. At("hello", "hello", Saying("hello"), <<>>)'
        BY <3>2, <3>3, <3>4, <4>1, <1>w DEF Passed, At
      <4>3. QED
        BY <3>2, <3>3, <4>1, <4>2, <1>f, <1>h DEF Passed, Meeting, StageNext
    <3>5. CASE At("over", "noise3", Saying("noise3"), <<>>)
      <4>1. wire'["gateway"] = <<>>
        BY <3>2, <3>5, <1>h, <1>t DEF Passed, At
      <4>2. At("over", "hello", <<>>, <<>>)'
        BY <3>2, <3>3, <3>5, <4>1, <1>w DEF Passed, At
      <4>3. QED
        BY <3>2, <3>3, <4>1, <4>2, <1>f, <1>h DEF Passed, Meeting, StageNext
    <3>6. QED
      BY <3>1, <3>4, <3>5
  <2>3. QED
    BY <1>3, <2>1, <2>2 DEF GatewayNoise
<1>4. CASE Hello
  <2>1. CASE Exchange("gateway", "hello", <<"error">>, "over")
    <3>1. At("hello", "hello", Saying("hello"), <<>>)
      BY <1>4, <2>1, Stages DEF Exchange, AnyStage, Hello
    <3>2. Passed("gateway", "over", Saying("error"))
      BY <1>4, <2>1, <3>1, <1>h, ExchangedOne, Ends DEF At
    <3>3. wire'["gateway"] = <<>> /\ wire'["client"] = Saying("error")
      BY <3>1, <3>2, <1>h, <1>t, Ends DEF Passed, At
    <3>4. At("hello", "over", <<>>, Saying("error"))'
      BY <3>1, <3>2, <3>3, <1>w DEF Passed, At
    <3>5. QED
      BY <3>2, <3>3, <3>4, <1>f, <1>h DEF Passed, Meeting, StageNext
  <2>2. CASE /\ Exchange("gateway", "hello", <<"welcome">>, "select")
             /\ ~(Negotiated < GatewayMin \/ Negotiated < scenario.min) /\ version' = Negotiated
    <3>a. Agreed'
      <4>1. scenario \in Scenarios /\ scenario' = scenario
        BY <1>4 DEF Hello, clientVars, TypeOK
      <4>2. GatewayMax \in Nat /\ GatewayMin \in Nat /\ scenario.min \in Nat /\ scenario.max \in Nat
        BY <4>1, LinkAssumption
      <4>3. Negotiated' = Negotiated /\ Negotiated \in Nat
        BY <4>1, <4>2 DEF Negotiated
      <4>4. QED
        BY <2>2, <4>1, <4>2, <4>3 DEF Agreed
    <3>1. At("hello", "hello", Saying("hello"), <<>>)
      BY <1>4, <2>2, Stages DEF Exchange, AnyStage, Hello
    <3>2. Passed("gateway", "select", Saying("welcome"))
      BY <1>4, <2>2, <3>1, <1>h, ExchangedOne, Ends DEF At
    <3>3. wire'["gateway"] = <<>> /\ wire'["client"] = Saying("welcome")
      BY <3>1, <3>2, <1>h, <1>t, Ends DEF Passed, At
    <3>4. Agreed' /\ At("hello", "select", <<>>, Saying("welcome"))'
      BY <3>a, <3>1, <3>2, <3>3, <1>w DEF Passed, At
    <3>5. QED
      BY <3>2, <3>3, <3>4, <1>f, <1>h DEF Passed, Meeting, StageNext
  <2>3. QED
    BY <1>4, <2>1, <2>2 DEF Hello
<1>a. ASSUME Agreed, UNCHANGED <<version, scenario>> PROVE Agreed'
  BY <1>a DEF Agreed, Negotiated
<1>5. CASE ClientWelcome
  <2>a. Agreed => Agreed'
    BY <1>5, <1>a DEF ClientWelcome, clientVars, gatewayVars
  <2>1. CASE Exchange("client", "welcome", <<"selection">>, "select")
    <3>1. Agreed /\ At("hello", "select", <<>>, Saying("welcome"))
      BY <1>5, <2>1, Stages DEF Exchange, AnyStage, ClientWelcome
    <3>2. Passed("client", "select", Saying("selection"))
      BY <1>5, <2>1, <3>1, <1>h, ExchangedOne, Ends DEF At
    <3>3. wire'["client"] = <<>> /\ wire'["gateway"] = Saying("selection")
      BY <3>1, <3>2, <1>h, <1>t, Ends DEF Passed, At
    <3>4. Agreed' /\ At("select", "select", Saying("selection"), <<>>)'
      BY <2>a, <3>1, <3>2, <3>3, <1>w DEF Passed, At
    <3>5. QED
      BY <3>2, <3>3, <3>4, <1>f, <1>h DEF Passed, Meeting, StageNext
  <2>2. CASE Exchange("client", "welcome", <<>>, "over")
    <3>1. At("hello", "select", <<>>, Saying("welcome"))
      BY <1>5, <2>2, Stages DEF Exchange, AnyStage, ClientWelcome
    <3>2. Passed("client", "over", wire["gateway"])
      BY <2>2, <1>h, ExchangedNone, Ends
    <3>3. wire'["client"] = <<>> /\ wire'["gateway"] = <<>>
      BY <3>1, <3>2, <1>h, <1>t, Ends DEF Passed, At
    <3>4. At("over", "select", <<>>, <<>>)'
      BY <3>1, <3>2, <3>3, <1>w DEF Passed, At
    <3>5. QED
      BY <3>2, <3>3, <3>4, <1>f, <1>h DEF Passed, Meeting, StageNext
  <2>3. CASE Exchange("client", "error", <<>>, "over")
    <3>1. At("hello", "over", <<>>, Saying("error"))
      BY <1>5, <2>3, Stages DEF Exchange, AnyStage, ClientWelcome
    <3>2. Passed("client", "over", wire["gateway"])
      BY <2>3, <1>h, ExchangedNone, Ends
    <3>3. wire'["client"] = <<>> /\ wire'["gateway"] = <<>>
      BY <3>1, <3>2, <1>h, <1>t, Ends DEF Passed, At
    <3>4. At("over", "hello", <<>>, <<>>)'
      BY <3>1, <3>2, <3>3, <1>w DEF Passed, At
    <3>5. QED
      BY <3>2, <3>3, <3>4, <1>f, <1>h DEF Passed, Meeting, StageNext
  <2>4. QED
    BY <1>5, <2>1, <2>2, <2>3 DEF ClientWelcome
<1>6. CASE Selection
  <2>a. Agreed => Agreed'
    BY <1>6, <1>a DEF Selection, clientVars, gatewayVars
  <2>b. Agreed /\ At("select", "select", Saying("selection"), <<>>)
    BY <1>6, Stages DEF Exchange, AnyStage, Selection
  <2>1. CASE Exchange("gateway", "selection", <<>>, "enter")
    <3>1. Passed("gateway", "enter", wire["client"])
      BY <2>1, <1>h, ExchangedNone, Ends
    <3>2. wire'["client"] = <<>> /\ wire'["gateway"] = <<>>
      BY <2>b, <3>1, <1>h, <1>t, Ends DEF Passed, At
    <3>3. At("select", "enter", <<>>, <<>>)'
      BY <2>b, <3>1, <3>2, <1>w DEF Passed, At
    <3>4. QED
      BY <2>a, <2>b, <3>1, <3>2, <3>3, <1>f, <1>h DEF Passed, Meeting, StageNext
  <2>2. ASSUME NEW answer \in {"pending", "error"},
               Exchange("gateway", "selection", <<answer>>, "over")
        PROVE  Fine
    <3>1. Passed("gateway", "over", Saying(answer))
      BY <2>b, <2>2, <1>h, ExchangedOne, Ends DEF At
    <3>2. wire'["gateway"] = <<>> /\ wire'["client"] = Saying(answer)
      BY <2>b, <3>1, <1>h, <1>t, Ends DEF Passed, At
    <3>3. At("select", "over", <<>>, Saying(answer))'
      BY <2>b, <3>1, <3>2, <1>w DEF Passed, At, Saying
    <3>4. Meeting'
      BY <3>3, <2>2 DEF Meeting
    <3>5. QED
      BY <3>1, <3>2, <3>4, <2>2, <1>f, <1>h DEF Passed, StageNext
  <2>3. QED
    BY <1>6, <2>1, <2>2 DEF Selection
<1>7. CASE EnterGroup
  <2>a. Agreed => Agreed'
    BY <1>7, <1>a DEF EnterGroup, clientVars, gatewayVars
  <2>b. Agreed /\ At("select", "enter", <<>>, <<>>)
    BY <1>7, Stages DEF AnyStage, EnterGroup
  <2>1. CASE /\ wire' = [wire EXCEPT !["client"] = Append(@, [part |-> "group"])]
             /\ Goto("gateway", "idle")
    <3>1. Append(<<>>, [part |-> "group"]) = Saying("group")
      BY DEF Saying
    <3>2. /\ wire'["client"] = Saying("group") /\ wire'["gateway"] = <<>>
          /\ pc' = [pc EXCEPT !["gateway"] = "idle"]
      BY <2>b, <2>1, <3>1, <1>w DEF At, Goto
    <3>3. wire' \in [End -> Seq(Parts)]
      BY <2>b, <2>1, <3>1, <1>w, <1>h, SayingFacts DEF At
    <3>4. InRoom'
      <4>1. /\ pc'["gateway"] = "idle" /\ pc'["client"] \in {"select", "over"}
        BY <2>b, <3>2, <1>w DEF At
      <4>2. /\ Len(wire'["gateway"]) = 0
            /\ Len(wire'["client"]) = 1 /\ wire'["client"] # <<>>
            /\ wire'["client"][1] = [part |-> "group"]
        BY <3>2, <1>h, SayingFacts
      <4>3. QED
        BY <2>a, <2>b, <4>1, <4>2 DEF InRoom, InLoop, Leaving
    <3>5. QED
      BY <1>7, <3>2, <3>3, <3>4, <1>f, <1>h DEF StageNext
  <2>2. CASE UNCHANGED wire /\ Goto("gateway", "over")
    <3>1. At("select", "enter", <<>>, <<>>)'
      BY <2>b, <2>2, <1>w DEF At, Goto
    <3>2. QED
      BY <2>a, <2>b, <2>2, <3>1, <1>w DEF Meeting, StageNext, Shuffled
  <2>3. QED
    BY <1>7, <2>1, <2>2 DEF EnterGroup
<1>8. CASE ClientGroup
  <2>a. Agreed => Agreed'
    BY <1>8, <1>a DEF ClientGroup, clientVars, gatewayVars
  <2>1. PICK k \in {"group", "pending", "error"}, to \in {"idle", "over"} :
            Exchange("client", k, <<>>, to) /\ (k = "group" <=> to = "idle")
    BY <1>8 DEF ClientGroup
  <2>p. Passed("client", to, wire["gateway"]) /\ wire["client"] # <<>> /\ Head(wire["client"]) = [part |-> k]
    BY <2>1, <1>h, ExchangedNone, Ends
  <2>2. /\ wire["client"] # <<>> /\ Head(wire["client"]) = [part |-> k]
        /\ wire'["client"] = Tail(wire["client"]) /\ wire'["gateway"] = wire["gateway"]
        /\ wire' \in [End -> Seq(Parts)] /\ pc' = [pc EXCEPT !["client"] = to] /\ pc["client"] = "select"
    BY <2>p, <1>8, Ends DEF ClientGroup, Passed
  <2>3. wire["client"] \in Seq(Parts) /\ Len(wire["client"]) <= WireCapacity
    BY <1>w
  <2>4. wire' \in [End -> Seq(Parts)] /\ \A e \in End : Len(wire'[e]) <= WireCapacity
    <3>1. wire'["client"] \in Seq(Parts) /\ Len(wire'["client"]) <= WireCapacity
      BY <2>2, <2>3, <1>w
    <3>2. \A e \in End : wire'[e] \in Seq(Parts) /\ Len(wire'[e]) <= WireCapacity
      BY <3>1, <2>2, <1>w, Ends
    <3>3. QED
      BY <3>2, <2>2
  <2>s. Shuffled
    BY <1>8, <2>2 DEF Shuffled
  <2>5. CASE InRoom
    <3>1. wire["client"][1] = [part |-> "group"] /\ Head(wire["client"]) = wire["client"][1]
      BY <2>2, <2>3, <2>5 DEF InRoom
    <3>2. k = "group"
      BY <2>2, <3>1, <1>h, PartFacts
    <3>3. pc'["client"] = "idle" /\ pc'["gateway"] = pc["gateway"]
      BY <2>1, <2>2, <3>2, <1>w
    <3>4. \A i \in 1..Len(wire'["client"]) :
             /\ i + 1 \in 1..Len(wire["client"]) /\ wire'["client"][i] = wire["client"][i + 1]
      BY <2>2, <2>3
    <3>5. \A i \in 1..Len(wire'["client"]) : wire'["client"][i].part \in {"head", "body"}
      <4>1. \A j \in 1..Len(wire["client"]) : j # 1 => wire["client"][j].part \in {"head", "body"}
        BY <2>5 DEF InRoom
      <4>2. \A i \in 1..Len(wire'["client"]) : i + 1 # 1
        OBVIOUS
      <4>3. QED
        BY <3>4, <4>1, <4>2
    <3>6. InRoom'
      BY <2>a, <2>2, <2>5, <3>3, <3>5 DEF InRoom, InLoop
    <3>7. QED
      BY <2>4, <2>5, <2>s, <3>6 DEF StageNext
  <2>6. CASE ~InRoom
    <3>1. PICK l \in {"pending", "error"} : At("select", "over", <<>>, Saying(l))
      BY <2>2, <2>6, Stages DEF AnyStage
    <3>2. k # "group"
      BY <2>2, <2>6, Stages DEF AnyStage
    <3>3. wire'["client"] = <<>> /\ wire'["gateway"] = <<>> /\ to = "over"
      BY <2>1, <2>2, <3>1, <3>2, <1>h, <1>t DEF At
    <3>4. At("over", "select", <<>>, <<>>)'
      BY <2>2, <3>1, <3>3, <1>w DEF At
    <3>5. QED
      BY <2>4, <2>s, <3>4 DEF Meeting, StageNext
  <2>7. QED
    BY <2>5, <2>6
<1>9. QED
  BY <1>1, <1>2, <1>3, <1>4, <1>5, <1>6, <1>7, <1>8 DEF Entering

-----------------------------------------------------------------------------
(* Types, and where the ends are *)

\* e's reader takes a part, or something is written to e.
Takes(e) == wire[e] # <<>> /\ wire' = [wire EXCEPT ![e] = Tail(@)]
Gets(e, part, item) == wire' = [wire EXCEPT ![e] = Append(@, [part |-> part, item |-> item])]

LEMMA WireType ==
    ASSUME TypeOK, NEW e \in End
    PROVE  /\ Takes(e) => wire' \in [End -> Seq(Parts)] /\ \A f \in End : Len(wire'[f]) <= WireCapacity
           /\ \A part \in {"head", "body"}, item \in Items :
                 Gets(e, part, item) /\ Room(e) =>
                    wire' \in [End -> Seq(Parts)] /\ \A f \in End : Len(wire'[f]) <= WireCapacity
<1>1. wire \in [End -> Seq(Parts)] /\ \A f \in End : Len(wire[f]) <= WireCapacity
  BY DEF TypeOK
<1>2. WireCapacity \in Nat
  BY LinkAssumption
<1>3. ASSUME Takes(e)
      PROVE  wire' \in [End -> Seq(Parts)] /\ \A f \in End : Len(wire'[f]) <= WireCapacity
  <2>1. Tail(wire[e]) \in Seq(Parts) /\ Len(Tail(wire[e])) <= WireCapacity
    BY <1>1, <1>2, <1>3 DEF Takes
  <2>2. QED
    BY <1>1, <1>3, <2>1 DEF Takes
<1>4. ASSUME NEW part \in {"head", "body"}, NEW item \in Items, Gets(e, part, item), Room(e)
      PROVE  wire' \in [End -> Seq(Parts)] /\ \A f \in End : Len(wire'[f]) <= WireCapacity
  <2>1. [part |-> part, item |-> item] \in Parts
    BY <1>4 DEF Parts
  <2>p. PICK p \in Parts : p = [part |-> part, item |-> item]
    BY <2>1
  <2>s. Append(wire[e], p) \in Seq(Parts)
    BY <1>1
  <2>2. PICK w \in Seq(Parts) : w = Append(wire[e], p)
    BY <2>s
  <2>3. Len(w) <= WireCapacity
    BY <1>1, <1>2, <1>4, <2>1, <2>2 DEF Room
  <2>4. wire' = [wire EXCEPT ![e] = w]
    BY <1>4, <2>2, <2>p DEF Gets
  <2>5. QED
    BY <1>1, <2>3, <2>4
<1>5. QED
  BY <1>3, <1>4

\* What e reads when it has a head is the body of an item.
LEMMA BodyType ==
    ASSUME TypeOK, InRoom, NEW e \in End, ReadsBody(e)
    PROVE  /\ Takes(e) /\ wire[e][1] \in Parts /\ IsItem(wire[e][1])
           /\ Head(wire[e]) = wire[e][1] /\ Head(wire[e]).item \in Items
<1>1. wire[e] \in Seq(Parts) /\ wire[e] # <<>>
  BY DEF TypeOK, ReadsBody
<1>2. wire[e][1] \in Parts /\ Head(wire[e]) = wire[e][1] /\ 1 \in 1..Len(wire[e])
  BY <1>1
<1>3. pc[e] = "idle"
  BY DEF ReadsBody
<1>4. IsItem(wire[e][1])
  BY <1>2, <1>3, Ends DEF InRoom, IsItem
<1>5. QED
  BY <1>1, <1>2, <1>4, PartFacts DEF Takes, ReadsBody

LEMMA LoopInRoom ==
    ASSUME AnyStage
    PROVE  /\ pc["client"] \in InLoop => InRoom
           /\ pc["gateway"] \in InLoop \cup {"leave", "left"} => InRoom
  BY DEF AnyStage, Meeting, At, InLoop

\* A queue that takes a message, or gives one away, keeps its type and its bound.
LEMMA QueueType ==
    ASSUME TypeOK, NEW e \in End
    PROVE  /\ \A item \in Items :
                 Len(queue[e]) < QueueCapacity /\ queue' = [queue EXCEPT ![e] = Append(@, item)] =>
                    queue' \in [End -> Seq(Items)] /\ \A f \in End : Len(queue'[f]) <= QueueCapacity
           /\ queue[e] # <<>> /\ queue' = [queue EXCEPT ![e] = Tail(@)] =>
                 /\ Head(queue[e]) \in Items
                 /\ queue' \in [End -> Seq(Items)] /\ \A f \in End : Len(queue'[f]) <= QueueCapacity
<1>1. queue \in [End -> Seq(Items)] /\ \A f \in End : Len(queue[f]) <= QueueCapacity
  BY DEF TypeOK
<1>2. QueueCapacity \in Nat
  BY LinkAssumption
<1>3. ASSUME NEW item \in Items, Len(queue[e]) < QueueCapacity,
             queue' = [queue EXCEPT ![e] = Append(@, item)]
      PROVE  queue' \in [End -> Seq(Items)] /\ \A f \in End : Len(queue'[f]) <= QueueCapacity
  <2>1. Append(queue[e], item) \in Seq(Items) /\ Len(Append(queue[e], item)) <= QueueCapacity
    BY <1>1, <1>2, <1>3
  <2>2. QED
    BY <1>1, <1>3, <2>1
<1>4. ASSUME queue[e] # <<>>, queue' = [queue EXCEPT ![e] = Tail(@)]
      PROVE  /\ Head(queue[e]) \in Items
             /\ queue' \in [End -> Seq(Items)] /\ \A f \in End : Len(queue'[f]) <= QueueCapacity
  <2>1. Head(queue[e]) \in Items /\ Tail(queue[e]) \in Seq(Items) /\ Len(Tail(queue[e])) <= QueueCapacity
    BY <1>1, <1>2, <1>4
  <2>2. QED
    BY <1>1, <1>4, <2>1
<1>5. QED
  BY <1>3, <1>4

QueueIsFine == queue \in [End -> Seq(Items)] /\ \A f \in End : Len(queue[f]) <= QueueCapacity

\* A message of the gateway goes into the queue with the next number, or is lost.
LEMMA PostType ==
    ASSUME TypeOK, NEW kind \in {"news", "echo", "error"}, Post(kind)
    PROVE  /\ sent' \in [End -> Nat] /\ QueueIsFine' /\ causes' \subseteq Causes
<1>1. "gateway" \in End /\ sent \in [End -> Nat] /\ sent["gateway"] + 1 \in Nat
  BY Ends DEF TypeOK
<1>2. PICK item \in Items : item = Item(kind, sent["gateway"] + 1)
  BY <1>1, ItemFacts
<1>3. sent' = sent \/ sent' = [sent EXCEPT !["gateway"] = sent["gateway"] + 1]
  BY DEF Post
<1>4. sent' \in [End -> Nat]
  BY <1>1, <1>3
<1>5. CASE Len(queue["gateway"]) < QueueCapacity
  <2>1. queue' = [queue EXCEPT !["gateway"] = Append(@, item)] /\ UNCHANGED causes
    BY <1>2, <1>5 DEF Post
  <2>2. QED
    BY <1>1, <1>4, <1>5, <2>1, QueueType DEF QueueIsFine, TypeOK
<1>6. CASE ~(Len(queue["gateway"]) < QueueCapacity)
  <2>1. UNCHANGED queue /\ causes' = causes \cup {"full"}
    BY <1>6 DEF Post, Because
  <2>2. QueueIsFine'
    BY <2>1 DEF QueueIsFine, TypeOK
  <2>3. QED
    BY <1>4, <2>1, <2>2 DEF TypeOK, Causes
<1>7. QED
  BY <1>5, <1>6

\* The notices for the other session, and the reasons
LEMMA ToldType ==
    ASSUME TypeOK, NEW event \in {"joined", "left"}
    PROVE  /\ Told(event) \in Seq({"joined", "left"}) /\ Len(Told(event)) <= QueueCapacity
           /\ witness.here /\ ~MissesIt => Told(event) = Append(told, event)
           /\ MissesIt \/ ~witness.here => Told(event) = told
<1>1. told \in Seq({"joined", "left"}) /\ Len(told) \in Nat /\ Len(told) <= QueueCapacity
  BY DEF TypeOK
<1>2. QueueCapacity \in Nat
  BY LinkAssumption
<1>3. Append(told, event) \in Seq({"joined", "left"}) /\ Len(Append(told, event)) = Len(told) + 1
  BY <1>1
<1>4. QED
  BY <1>1, <1>2, <1>3 DEF Told, MissesIt

\* A message that has been read whole is the next one.
LEMMA ReadsNext ==
    ASSUME IInv, NEW e \in End, ReadsBody(e), ~IsKick(Head(wire[e]).item)
    PROVE  /\ Head(wire[e]).item.n = Len(arrived[e]) + 1
           /\ e = "gateway" => Head(wire[e]).item.n \in 1..scenario.chats
<1>1. TypeOK /\ InRoom /\ Reads(e)
  BY LoopInRoom, Ends DEF IInv, AnyStage, ReadsBody, Reads, InLoop
<1>2. Fits(e)
  BY <1>1 DEF IInv, Streams
<1>3. /\ wire[e][1] \in Parts /\ IsItem(wire[e][1]) /\ Head(wire[e]) = wire[e][1]
      /\ 1 \in 1..Len(wire[e])
      /\ Head(wire[e]).item \in Items /\ arrived[e] \in Seq(Nat)
  <2>1. wire[e] \in Seq(Parts) /\ wire[e] # <<>> /\ arrived[e] \in Seq(Nat)
    BY <1>1 DEF TypeOK, ReadsBody
  <2>2. 1 \in 1..Len(wire[e])
    BY <2>1
  <2>3. QED
    BY <1>1, <2>1, <2>2, BodyType
<1>4. PICK item \in Items : item = Head(wire[e]).item
  BY <1>3
<1>5. Lead(e) = 1
  BY DEF Lead, ReadsBody
<1>6. 2 * (item.n - Len(arrived[e])) = 1 + 1 + (IF wire[e][1].part = "head" THEN 1 ELSE 0)
  BY <1>2, <1>3, <1>4, <1>5 DEF Fits
<1>7. item.n \in Nat /\ Len(arrived[e]) \in Nat
  BY <1>3, ItemFacts
<1>8. item.n = Len(arrived[e]) + 1
  BY <1>6, <1>7
<1>9. ASSUME e = "gateway" PROVE item.n \in 1..scenario.chats
  <2>1. item.n <= sent["client"] /\ sent["client"] <= scenario.chats
    BY <1>3, <1>4, <1>9 DEF IInv, Bounded
  <2>2. sent["client"] \in Nat /\ scenario.chats \in Nat
    BY <1>1, LinkAssumption, Ends DEF TypeOK
  <2>3. QED
    BY <1>7, <1>8, <2>1, <2>2
<1>10. QED
  BY <1>4, <1>8, <1>9

\* Nothing in a step leaves its domain.
LEMMA TypeStep == IInv /\ [Next]_vars => TypeOK'
<1> SUFFICES ASSUME IInv, [Next]_vars PROVE TypeOK'
  OBVIOUS
<1>a. /\ TypeOK /\ AnyStage
      /\ "client" \in End /\ "gateway" \in End
      /\ Nothing \in Items
      /\ \A s \in Scenarios : s.chats \in Nat /\ s.min \in Nat /\ s.max \in Nat
      /\ GatewayMax \in Nat /\ QueueCapacity \in Nat /\ MaxStrikes \in Nat
  BY LinkAssumption, Ends, ItemFacts DEF IInv, AnyStage
<1> USE <1>a DEF Goto, Because
<1>1. ASSUME Entering PROVE TypeOK'
  <2>1. wire' \in [End -> Seq(Parts)] /\ \A e \in End : Len(wire'[e]) <= WireCapacity
    BY <1>1, EnteringStages
  <2> USE <2>1
  <2>2. CASE Connect
    <3>1. causes' \subseteq Causes
      BY <2>2 DEF Connect, TypeOK, Causes
    <3>2. pc' \in [End -> Shaking \cup InLoop \cup {"none", "enter", "leave", "left", "over"}]
      BY <2>2 DEF Connect, Shaking
    <3>3. QED
      BY <2>2, <3>1, <3>2 DEF TypeOK, Connect, clientVars, traffic, gatewayVars, roster, Shaking, Causes
  <2>3. CASE ClientNoise
    BY <2>3 DEF TypeOK, ClientNoise, Exchange, clientVars, traffic, gatewayVars, roster, Shaking, Causes
  <2>4. CASE GatewayNoise
    BY <2>4 DEF TypeOK, GatewayNoise, Exchange, clientVars, traffic, gatewayVars, roster, Shaking
  <2>5. CASE Hello
    <3>1. Negotiated \in 0..GatewayMax
      BY DEF TypeOK, Negotiated
    <3>2. QED
      BY <2>5, <3>1 DEF TypeOK, Hello, Exchange, clientVars, traffic, roster, Shaking, Causes
  <2>6. CASE ClientWelcome
    BY <2>6 DEF TypeOK, ClientWelcome, Exchange, clientVars, traffic, gatewayVars, roster, Shaking, Causes
  <2>7. CASE Selection
    BY <2>7 DEF TypeOK, Selection, Exchange, clientVars, traffic, gatewayVars, Causes
  <2>8. CASE EnterGroup
    <3>1. told' = told \/ told' = Told("joined")
      BY <2>8 DEF EnterGroup
    <3>2. told' \in Seq({"joined", "left"}) /\ Len(told') <= QueueCapacity
      BY <3>1, ToldType DEF TypeOK
    <3>3. causes' \subseteq Causes
      BY <2>8 DEF EnterGroup, TypeOK, Causes
    <3>4. QED
      BY <2>8, <3>2, <3>3 DEF TypeOK, EnterGroup, clientVars, traffic, gatewayVars, InLoop
  <2>9. CASE ClientGroup
    BY <2>9 DEF TypeOK, ClientGroup, Exchange, clientVars, traffic, gatewayVars, roster, InLoop
  <2>10. QED
    BY <1>1, <2>2, <2>3, <2>4, <2>5, <2>6, <2>7, <2>8, <2>9 DEF Entering
<1>2. ASSUME ClientLoop PROVE TypeOK'
  <2>1. CASE ClientReads
    <3>1. InRoom /\ ReadsBody("client")
      BY <2>1, LoopInRoom DEF ClientReads, ReadsBody, InLoop
    <3>2. PICK item \in Items : item = Head(wire["client"]).item
      BY <3>1, BodyType
    <3>3. wire' \in [End -> Seq(Parts)] /\ \A f \in End : Len(wire'[f]) <= WireCapacity
      BY <3>1, WireType DEF ReadsBody, Takes
    <3>4. arrived' \in [End -> Seq(Nat)]
      <4>1. item.n \in Nat
        BY ItemFacts
      <4>2. Append(arrived["client"], item.n) \in Seq(Nat)
        BY <4>1 DEF TypeOK
      <4>3. arrived' = arrived \/ arrived' = [arrived EXCEPT !["client"] = @]
              \/ arrived' = [arrived EXCEPT !["client"] = Append(arrived["client"], item.n)]
        BY <2>1, <3>2 DEF ClientReads
      <4>4. QED
        BY <4>2, <4>3 DEF TypeOK
    <3>5. causes' \subseteq Causes /\ ui' \in {"open", "closed"} /\ outcome' \in {"none", "delivered", "failed"}
      BY <2>1 DEF ClientReads, Reports, TypeOK, Causes
    <3>6. pc' \in [End -> Shaking \cup InLoop \cup {"none", "enter", "leave", "left", "over"}]
      BY <2>1 DEF ClientReads, TypeOK
    <3>7. got' \in [End -> {"start", "head", "astray"}] /\ UNCHANGED <<frame, net>>
      BY <3>1 DEF ReadsBody, TypeOK
    <3>8. UNCHANGED <<scenario, queue, sent, gatewayVars, roster>>
      BY <2>1 DEF ClientReads
    <3>9. QED
      BY <3>3, <3>4, <3>5, <3>6, <3>7, <3>8 DEF TypeOK, gatewayVars, roster
  <2>2. CASE ClientCloses
    BY <2>2 DEF TypeOK, ClientCloses, clientVars, traffic, gatewayVars, roster
  <2>3. CASE SendFails
    BY <2>3 DEF TypeOK, SendFails, transport, traffic, gatewayVars, roster
  <2>4. QED
    BY <1>2, <2>1, <2>2, <2>3 DEF ClientLoop
<1>3. ASSUME GatewayLoop PROVE TypeOK'
  <2>1. CASE GatewayReads
    <3>1. InRoom /\ ReadsBody("gateway")
      BY <2>1, LoopInRoom DEF GatewayReads, ReadsBody, InLoop
    <3>2. PICK item \in Items : item = Head(wire["gateway"]).item
      BY <3>1, BodyType
    <3>3. wire' \in [End -> Seq(Parts)] /\ \A f \in End : Len(wire'[f]) <= WireCapacity
      BY <3>1, WireType DEF ReadsBody, Takes
    <3>k. ~IsKick(item)
      <4>1. wire["gateway"] \in Seq(Parts) /\ wire["gateway"] # <<>>
        BY <3>1 DEF ReadsBody, TypeOK
      <4>2. 1 \in 1..Len(wire["gateway"])
        BY <4>1
      <4>3. IsItem(wire["gateway"][1]) /\ item = wire["gateway"][1].item
        BY <3>1, <3>2, BodyType
      <4>4. QED
        BY <4>2, <4>3 DEF IInv, Kicked
    <3>n. item.n \in 1..scenario.chats /\ item.n \in Nat
      BY <3>1, <3>2, <3>k, ReadsNext, ItemFacts
    <3>4. arrived' \in [End -> Seq(Nat)]
      <4>1. Append(arrived["gateway"], item.n) \in Seq(Nat)
        BY <3>n DEF TypeOK
      <4>2. arrived' = [arrived EXCEPT !["gateway"] = Append(arrived["gateway"], item.n)]
        BY <2>1, <3>2 DEF GatewayReads
      <4>3. QED
        BY <4>1, <4>2 DEF TypeOK
    <3>5. stored' \subseteq 1..scenario.chats
      BY <2>1, <3>2, <3>n DEF GatewayReads, TypeOK
    <3>6. overs' \in Seq(BOOLEAN)
      <4>1. overs \in Seq(BOOLEAN) /\ Len(overs) \in Nat /\ MaxStrikes > 0
        BY LinkAssumption DEF TypeOK
      <4>a. Len(overs) >= MaxStrikes => Tail(overs) \in Seq(BOOLEAN)
        <5>1. Len(overs) >= MaxStrikes => overs # <<>>
          BY <4>1
        <5>2. QED
          BY <4>1, <5>1
      <4>2. PICK before \in Seq(BOOLEAN) : before = IF Len(overs) < MaxStrikes THEN overs ELSE Tail(overs)
        <5>1. CASE Len(overs) < MaxStrikes
          BY <4>1, <5>1
        <5>2. CASE ~(Len(overs) < MaxStrikes)
          <6>1. Tail(overs) \in Seq(BOOLEAN)
            BY <4>1, <4>a, <5>2
          <6>2. QED
            BY <5>2, <6>1
        <5>3. QED
          BY <5>1, <5>2
      <4>3. PICK b \in BOOLEAN : overs' = Append(before, b)
        BY <2>1, <4>2 DEF GatewayReads
      <4>4. QED
        BY <4>2, <4>3
    <3>7. used' \in Nat /\ strikes' \in 0..MaxStrikes
      <4>1. strikes < MaxStrikes
        BY <3>1 DEF IInv, Counted, TypeOK, ReadsBody, Leaving
      <4>2. QED
        BY <2>1, <4>1 DEF GatewayReads, TypeOK, Forgiven
    <3>8. /\ sent' \in [End -> Nat]
          /\ queue' \in [End -> Seq(Items)] /\ \A f \in End : Len(queue'[f]) <= QueueCapacity
      <4>1. ASSUME NEW kind \in {"echo", "error"}, Post(kind)
            PROVE  /\ sent' \in [End -> Nat]
                   /\ queue' \in [End -> Seq(Items)] /\ \A f \in End : Len(queue'[f]) <= QueueCapacity
        <5>1. sent' \in [End -> Nat] /\ QueueIsFine'
          BY <4>1, PostType
        <5>2. QED
          BY <5>1 DEF QueueIsFine
      <4>2. UNCHANGED <<queue, sent>> \/ Post("echo") \/ Post("error")
        BY <2>1 DEF GatewayReads
      <4>3. QED
        BY <4>1, <4>2 DEF TypeOK
    <3>9. causes' \subseteq Causes /\ pc' \in [End -> Shaking \cup InLoop \cup {"none", "enter", "leave", "left", "over"}]
      BY <2>1 DEF GatewayReads, Post, TypeOK, Causes
    <3>10. got' \in [End -> {"start", "head", "astray"}] /\ UNCHANGED <<frame, net>>
      BY <3>1 DEF ReadsBody, TypeOK
    <3>11. UNCHANGED <<clientVars, version, kicked, roster>>
      BY <2>1 DEF GatewayReads
    <3>12. QED
      BY <3>3, <3>4, <3>5, <3>6, <3>7, <3>8, <3>9, <3>10, <3>11 DEF TypeOK, clientVars, roster
  <2>2. CASE TakeKick
    <3>1. Item("kick", 0) \in Items
      BY ItemFacts
    <3>2. QED
      BY <2>2, <3>1 DEF TypeOK, TakeKick, Branch, AfterBranch, clientVars, traffic, roster, InLoop, Causes
  <2>3. CASE Leave
    <3>1. told' = told \/ told' = Told("left")
      BY <2>3 DEF Leave, Farewell, Remove, Tell
    <3>2. told' \in Seq({"joined", "left"}) /\ Len(told') <= QueueCapacity
      BY <3>1, ToldType DEF TypeOK
    <3>3. causes' \subseteq Causes /\ registered' \in BOOLEAN
      BY <2>3 DEF Leave, Farewell, Remove, Tell, TypeOK, Causes
    <3>4. QED
      BY <2>3, <3>2, <3>3 DEF TypeOK, Leave, clientVars, traffic, gatewayVars
  <2>4. QED
    BY <1>3, <2>1, <2>2, <2>3 DEF GatewayLoop
<1>4. ASSUME UserOrNet PROVE TypeOK'
  <2>1. CASE TakePrivate
    BY <2>1 DEF TypeOK, TakePrivate, Branch, AfterBranch, clientVars, traffic, gatewayVars, roster, Causes
  <2>2. CASE Cut
    BY <2>2 DEF TypeOK, Cut, clientVars, traffic, gatewayVars, roster, Causes
  <2>3. CASE SendChat
    <3>1. Item("chat", sent["client"] + 1) \in Items
      BY ItemFacts DEF TypeOK
    <3>2. /\ queue' \in [End -> Seq(Items)] /\ \A f \in End : Len(queue'[f]) <= QueueCapacity
          /\ sent' \in [End -> Nat]
      BY <2>3, <3>1, QueueType DEF SendChat, TypeOK
    <3>3. QED
      BY <2>3, <3>2 DEF TypeOK, SendChat, clientVars, transport, gatewayVars, roster
  <2>4. CASE CloseChat
    BY <2>4 DEF TypeOK, CloseChat, transport, traffic, gatewayVars, roster, Causes
  <2>5. CASE SendTimesOut
    BY <2>5 DEF TypeOK, SendTimesOut, transport, traffic, gatewayVars, roster, Causes
  <2>6. CASE NewWindow
    BY <2>6 DEF TypeOK, NewWindow, clientVars, transport, traffic, roster
  <2>7. CASE News
    <3>1. sent' \in [End -> Nat] /\ QueueIsFine' /\ causes' \subseteq Causes
      BY <2>7, PostType DEF News
    <3>2. /\ queue' \in [End -> Seq(Items)] /\ \A f \in End : Len(queue'[f]) <= QueueCapacity
          /\ sent' \in [End -> Nat] /\ causes' \subseteq Causes
      BY <3>1 DEF QueueIsFine
    <3>3. QED
      BY <2>7, <3>2 DEF TypeOK, News, clientVars, transport, gatewayVars, roster
  <2>8. CASE Kick
    BY <2>8 DEF TypeOK, Kick, clientVars, transport, traffic, roster, Causes
  <2>9. QED
    BY <1>4, <2>1, <2>2, <2>3, <2>4, <2>5, <2>6, <2>7, <2>8 DEF UserOrNet
<1>5. ASSUME Witness PROVE TypeOK'
  <2>1. CASE WitnessEnters
    BY <2>1 DEF TypeOK, WitnessEnters, clientVars, transport, traffic, gatewayVars
  <2>2. CASE WitnessHears
    <3>1. Tail(told) \in Seq({"joined", "left"}) /\ Len(Tail(told)) <= QueueCapacity
      BY <2>2 DEF WitnessHears, TypeOK
    <3>2. QED
      BY <2>2, <3>1 DEF TypeOK, WitnessHears, clientVars, transport, traffic, gatewayVars
  <2>3. QED
    BY <1>5, <2>1, <2>2 DEF Witness
<1>6. ASSUME NEW e \in End, Timeout(e) PROVE TypeOK'
  BY <1>6 DEF TypeOK, Timeout, clientVars, traffic, gatewayVars, roster, Causes
<1>7. ASSUME NEW e \in End, Writing(e) PROVE TypeOK'
  <2>0. Peer(e) \in End /\ frame[e] \in Items
    BY Ends DEF TypeOK
  <2>1. CASE TakeNext(e)
    <3>1. /\ Head(queue[e]) \in Items
          /\ queue' \in [End -> Seq(Items)] /\ \A f \in End : Len(queue'[f]) <= QueueCapacity
      BY <2>1, QueueType DEF TakeNext
    <3>2. QED
      BY <2>1, <3>1 DEF TypeOK, TakeNext, Branch, AfterBranch, clientVars, gatewayVars, roster, InLoop, Causes
  <2>2. CASE WriteHead(e)
    <3>1. wire' \in [End -> Seq(Parts)] /\ \A f \in End : Len(wire'[f]) <= WireCapacity
      BY <2>0, <2>2, WireType DEF WriteHead, Put, Gets
    <3>2. QED
      BY <2>2, <3>1 DEF TypeOK, WriteHead, clientVars, traffic, gatewayVars, roster, InLoop
  <2>3. CASE WriteBody(e)
    <3>1. wire' \in [End -> Seq(Parts)] /\ \A f \in End : Len(wire'[f]) <= WireCapacity
      BY <2>0, <2>3, WireType DEF WriteBody, Put, Gets
    <3>2. QED
      BY <2>3, <3>1 DEF TypeOK, WriteBody, AfterKick, clientVars, traffic, gatewayVars, roster, InLoop
  <2>4. CASE WriteFails(e)
    BY <2>4 DEF TypeOK, WriteFails, Stop, clientVars, traffic, gatewayVars, roster
  <2>5. QED
    BY <1>7, <2>1, <2>2, <2>3, <2>4 DEF Writing
<1>8. ASSUME NEW e \in End, Reading(e) PROVE TypeOK'
  <2>1. CASE ReadHead(e)
    <3>1. wire' \in [End -> Seq(Parts)] /\ \A f \in End : Len(wire'[f]) <= WireCapacity
      BY <2>1, WireType DEF ReadHead, Takes
    <3>2. QED
      BY <2>1, <3>1 DEF TypeOK, ReadHead, clientVars, traffic, gatewayVars, roster
  <2>2. CASE ReadStray(e)
    <3>1. wire' \in [End -> Seq(Parts)] /\ \A f \in End : Len(wire'[f]) <= WireCapacity
      BY <2>2, WireType DEF ReadStray, Takes
    <3>2. QED
      BY <2>2, <3>1 DEF TypeOK, ReadStray, AfterStray, Stop, clientVars, traffic, gatewayVars, roster
  <2>3. CASE ReadFails(e)
    BY <2>3 DEF TypeOK, ReadFails, Stop, clientVars, traffic, gatewayVars, roster
  <2>4. QED
    BY <1>8, <2>1, <2>2, <2>3 DEF Reading
<1>9. CASE UNCHANGED vars
  BY <1>9 DEF TypeOK, vars, clientVars, transport, traffic, gatewayVars, roster
<1>10. QED
  BY <1>1, <1>2, <1>3, <1>4, <1>5, <1>6, <1>7, <1>8, <1>9 DEF Next

-----------------------------------------------------------------------------
(* Sequences that lose their first element or get another one *)

LEMMA TailAt ==
    ASSUME NEW S, NEW s \in Seq(S), s # <<>>
    PROVE  /\ Tail(s) \in Seq(S) /\ Len(Tail(s)) = Len(s) - 1 /\ Len(s) \in Nat \ {0}
           /\ Head(s) = s[1] /\ s[1] \in S /\ 1 \in 1..Len(s)
           /\ \A i \in 1..Len(Tail(s)) : i + 1 \in 1..Len(s) /\ Tail(s)[i] = s[i + 1]
  OBVIOUS

LEMMA AppendAt ==
    ASSUME NEW S, NEW s \in Seq(S), NEW x \in S
    PROVE  /\ Append(s, x) \in Seq(S) /\ Len(Append(s, x)) = Len(s) + 1 /\ Len(s) \in Nat
           /\ \A i \in 1..Len(Append(s, x)) :
                 \/ i \in 1..Len(s) /\ Append(s, x)[i] = s[i]
                 \/ i = Len(s) + 1 /\ Append(s, x)[i] = x
  OBVIOUS

-----------------------------------------------------------------------------
(* Where the ends are after a step *)

\* What a step in the room does with what is on its way
Conveys ==
    \/ wire' = wire
    \/ \E e \in End : Takes(e) /\ pc[e] = "idle"
    \/ \E e \in End, part \in {"head", "body"}, item \in Items : Gets(e, part, item)

LEMMA RoomKept ==
    ASSUME TypeOK, InRoom, Conveys, UNCHANGED <<version, scenario>>,
           pc'["client"] \in {"select", "over"} \cup InLoop,
           pc'["gateway"] \in Leaving \cup InLoop,
           pc'["client"] = "select" => pc["client"] = "select",
           pc["client"] \in {"select", "over"} => pc'["client"] \in {"select", "over"}
    PROVE  InRoom'
<1>1. Agreed'
  BY DEF InRoom, Agreed, Negotiated
<1>2. wire \in [End -> Seq(Parts)] /\ "client" \in End /\ "gateway" \in End
  BY Ends DEF TypeOK
<1>3. CASE wire' = wire
  BY <1>1, <1>3 DEF InRoom
<1>4. ASSUME NEW e \in End, Takes(e), pc[e] = "idle" PROVE InRoom'
  <2>1. PICK s \in Seq(Parts) : s = wire[e] /\ s # <<>>
    BY <1>2, <1>4 DEF Takes
  <2>2. wire'[e] = Tail(s) /\ \A f \in End : f # e => wire'[f] = wire[f]
    BY <1>2, <1>4, <2>1 DEF Takes
  <2>3. \A i \in 1..Len(s) : s[i].part \in {"head", "body"}
    <3>1. CASE e = "gateway"
      BY <2>1, <3>1 DEF InRoom
    <3>2. CASE e = "client"
      BY <1>4, <2>1, <3>2 DEF InRoom
    <3>3. QED
      BY <3>1, <3>2, Ends
  <2>4. \A i \in 1..Len(Tail(s)) : Tail(s)[i].part \in {"head", "body"}
    BY <2>1, <2>3, TailAt
  <2>5. CASE e = "gateway"
    BY <1>1, <1>2, <2>2, <2>4, <2>5 DEF InRoom
  <2>6. CASE e = "client"
    BY <1>1, <1>2, <1>4, <2>2, <2>4, <2>6 DEF InRoom
  <2>7. QED
    BY <2>5, <2>6, Ends
<1>5. ASSUME NEW e \in End, NEW part \in {"head", "body"}, NEW item \in Items, Gets(e, part, item)
      PROVE  InRoom'
  <2>1. PICK x \in Parts : x = [part |-> part, item |-> item] /\ x.part \in {"head", "body"}
    BY PartFacts
  <2>2. PICK s \in Seq(Parts) : s = wire[e]
    BY <1>2
  <2>3. wire'[e] = Append(s, x) /\ \A f \in End : f # e => wire'[f] = wire[f]
    BY <1>2, <1>5, <2>1, <2>2 DEF Gets
  <2>4. /\ \A i \in 1..Len(Append(s, x)) :
             \/ i \in 1..Len(s) /\ Append(s, x)[i] = s[i]
             \/ i = Len(s) + 1 /\ Append(s, x)[i] = x
        /\ s # <<>> => Append(s, x) # <<>> /\ Append(s, x)[1] = s[1]
    BY <2>1, AppendAt
  <2>5. CASE e = "gateway"
    <3>1. \A i \in 1..Len(wire'["gateway"]) : wire'["gateway"][i].part \in {"head", "body"}
      BY <2>1, <2>2, <2>3, <2>4, <2>5 DEF InRoom
    <3>2. QED
      BY <1>1, <1>2, <2>3, <2>5, <3>1 DEF InRoom
  <2>6. CASE e = "client"
    <3>1. pc'["client"] = "select" => wire'["client"] # <<>> /\ wire'["client"][1] = [part |-> "group"]
      BY <2>2, <2>3, <2>4, <2>6 DEF InRoom
    <3>2. ASSUME NEW i \in 1..Len(wire'["client"])
          PROVE  \/ wire'["client"][i].part \in {"head", "body"}
                 \/ i = 1 /\ pc'["client"] \in {"select", "over"} /\ wire'["client"][1] = [part |-> "group"]
      <4>1. CASE i \in 1..Len(s) /\ wire'["client"][i] = s[i]
        BY <2>2, <2>6, <4>1 DEF InRoom
      <4>2. CASE wire'["client"][i] = x
        BY <2>1, <4>2
      <4>3. QED
        BY <2>3, <2>4, <2>6, <3>2, <4>1, <4>2
    <3>3. wire'["gateway"] = wire["gateway"]
      BY <1>2, <2>3, <2>6
    <3>4. QED
      BY <1>1, <3>1, <3>2, <3>3 DEF InRoom
  <2>7. QED
    BY <2>5, <2>6, Ends
<1>6. QED
  BY <1>3, <1>4, <1>5 DEF Conveys

\* An end that is over leaves the other one where it is.
LEMMA StageEnded ==
    ASSUME TypeOK, AnyStage, NEW e \in End, pc' = [pc EXCEPT ![e] = "over"], UNCHANGED <<wire, version, scenario>>
    PROVE  StageNext
<1>1. /\ pc \in [End -> Shaking \cup InLoop \cup {"none", "enter", "leave", "left", "over"}]
      /\ "client" \in End /\ "gateway" \in End /\ (e = "client" \/ e = "gateway")
  BY Ends DEF TypeOK
<1>2. Agreed => Agreed'
  BY DEF Agreed, Negotiated
<1>3. CASE Meeting
  <2>1. ASSUME NEW c, NEW g, NEW v, NEW w, At(c, g, v, w) PROVE At(c, g, v, w)'
    BY <1>1, <2>1 DEF At
  <2>2. Meeting'
    BY <1>2, <1>3, <2>1 DEF Meeting, Saying
  <2>3. QED
    BY <2>2 DEF StageNext
<1>4. CASE InRoom
  <2>1. InRoom'
    BY <1>1, <1>4, RoomKept DEF InRoom, Conveys, Leaving
  <2>2. QED
    BY <1>4, <2>1 DEF StageNext
<1>5. QED
  BY <1>3, <1>4 DEF AnyStage

\* The ends stay in a stage of the handshake, or in the room.
LEMMA StageStep == IInv /\ [Next]_vars => StageNext
<1> SUFFICES ASSUME IInv, [Next]_vars PROVE StageNext
  OBVIOUS
<1>a. /\ TypeOK /\ AnyStage
      /\ "client" \in End /\ "gateway" \in End
      /\ pc \in [End -> Shaking \cup InLoop \cup {"none", "enter", "leave", "left", "over"}]
  BY Ends DEF IInv, AnyStage, TypeOK
<1>s. ASSUME UNCHANGED <<pc, wire, version, scenario>> PROVE StageNext
  BY <1>a, <1>s DEF AnyStage, StageNext, Meeting, InRoom, At, Agreed, Negotiated, Saying
\* An end that is in its loop goes on or leaves it.
<1>m. ASSUME NEW e \in End, NEW to \in InLoop \cup Leaving, pc' = [pc EXCEPT ![e] = to],
             pc[e] \in InLoop \/ (e = "gateway" /\ pc[e] \in {"leave", "left"}),
             e = "client" => to \in InLoop \cup {"over"},
             Conveys, UNCHANGED <<version, scenario>>
      PROVE  StageNext
  <2>1. InRoom
    BY <1>a, <1>m, LoopInRoom, Ends
  <2>2. CASE e = "client"
    <3>1. pc'["client"] = to /\ pc'["gateway"] = pc["gateway"]
      BY <1>a, <1>m, <2>2
    <3>2. pc["client"] \notin {"select", "over"}
      BY <1>m, <2>2 DEF InLoop
    <3>3. pc["gateway"] \in Leaving \cup InLoop
      BY <2>1 DEF InRoom
    <3>4. to # "select"
      BY <1>m, <2>2 DEF InLoop
    <3>5. InRoom'
      BY <1>a, <1>m, <2>1, <2>2, <3>1, <3>2, <3>3, <3>4, RoomKept
    <3>6. QED
      BY <2>1, <3>5 DEF StageNext
  <2>3. CASE e = "gateway"
    <3>1. pc'["gateway"] = to /\ pc'["client"] = pc["client"]
      BY <1>a, <1>m, <2>3
    <3>2. pc["client"] \in {"select", "over"} \cup InLoop
      BY <2>1 DEF InRoom
    <3>3. InRoom'
      BY <1>a, <1>m, <2>1, <3>1, <3>2, RoomKept
    <3>4. QED
      BY <2>1, <3>3 DEF StageNext
  <2>4. QED
    BY <2>2, <2>3, Ends
<1>k. ASSUME NEW e \in End, pc[e] \in InLoop, pc' = pc, Conveys, UNCHANGED <<version, scenario>>
      PROVE  StageNext
  <2>1. pc' = [pc EXCEPT ![e] = pc[e]]
    BY <1>a, <1>k
  <2>2. QED
    BY <1>k, <1>m, <2>1
<1>1. CASE Entering
  BY <1>a, <1>1, EnteringStages
<1>2. CASE ClientLoop
  <2>1. CASE ClientReads
    <3>1. /\ InRoom /\ ReadsBody("client") /\ UNCHANGED <<version, scenario>>
          /\ pc["client"] = "idle" /\ pc["client"] \in InLoop
      BY <1>a, <2>1, LoopInRoom DEF ClientReads, ReadsBody, InLoop, gatewayVars
    <3>2. Conveys
      BY <1>a, <3>1, BodyType DEF Conveys
    <3>3. pc' = pc \/ pc' = [pc EXCEPT !["client"] = "over"]
      BY <2>1 DEF ClientReads, Goto
    <3>4. QED
      BY <1>a, <1>k, <1>m, <3>1, <3>2, <3>3 DEF Leaving
  <2>2. CASE ClientCloses
    BY <1>a, <2>2, StageEnded DEF ClientCloses, Goto, gatewayVars, clientVars
  <2>3. CASE SendFails
    BY <1>s, <2>3 DEF SendFails, transport, gatewayVars
  <2>4. QED
    BY <1>2, <2>1, <2>2, <2>3 DEF ClientLoop
<1>3. CASE GatewayLoop
  <2>1. CASE GatewayReads
    <3>1. /\ InRoom /\ ReadsBody("gateway") /\ UNCHANGED <<version, scenario>>
          /\ pc["gateway"] = "idle" /\ pc["gateway"] \in InLoop
      BY <1>a, <2>1, LoopInRoom DEF GatewayReads, ReadsBody, InLoop, clientVars
    <3>2. Conveys
      BY <1>a, <3>1, BodyType DEF Conveys
    <3>3. pc' = pc \/ pc' = [pc EXCEPT !["gateway"] = "leave"]
      BY <2>1 DEF GatewayReads, Goto
    <3>4. QED
      BY <1>a, <1>k, <1>m, <3>1, <3>2, <3>3 DEF Leaving
  <2>2. CASE TakeKick
    BY <1>a, <1>m, <2>2 DEF TakeKick, Goto, Conveys, InLoop, clientVars
  <2>3. CASE Leave
    BY <1>a, <1>m, <2>3 DEF Leave, Goto, Conveys, Leaving, clientVars, gatewayVars
  <2>4. QED
    BY <1>3, <2>1, <2>2, <2>3 DEF GatewayLoop
<1>4. CASE UserOrNet
  BY <1>s, <1>4 DEF UserOrNet, TakePrivate, Cut, SendChat, CloseChat, SendTimesOut, NewWindow, News, Kick,
       clientVars, transport, gatewayVars
<1>5. CASE Witness
  BY <1>s, <1>5 DEF Witness, WitnessEnters, WitnessHears, clientVars, transport, gatewayVars
<1>6. ASSUME NEW e \in End, Timeout(e) PROVE StageNext
  BY <1>a, <1>6, StageEnded DEF Timeout, Goto, clientVars, gatewayVars
<1>7. ASSUME NEW e \in End, Writing(e) PROVE StageNext
  <2>0. Peer(e) \in End /\ frame[e] \in Items
    BY <1>a, Ends DEF TypeOK
  <2>1. CASE TakeNext(e)
    BY <1>m, <2>1 DEF TakeNext, Goto, Conveys, InLoop, clientVars, gatewayVars
  <2>2. CASE WriteHead(e)
    <3>1. Gets(Peer(e), "head", frame[e])
      BY <2>2 DEF WriteHead, Put, Gets
    <3>2. Conveys
      BY <2>0, <3>1 DEF Conveys
    <3>3. QED
      BY <1>m, <2>2, <3>2 DEF WriteHead, Goto, InLoop, clientVars, gatewayVars
  <2>3. CASE WriteBody(e)
    <3>1. Gets(Peer(e), "body", frame[e])
      BY <2>3 DEF WriteBody, Put, Gets
    <3>2. Conveys
      BY <2>0, <3>1 DEF Conveys
    <3>3. e = "client" => ~(frame[e].kind = "kick")
      BY DEF IInv, Kicked, IsKick
    <3>4. QED
      BY <1>m, <2>3, <3>2, <3>3 DEF WriteBody, AfterKick, Goto, InLoop, Leaving, clientVars, gatewayVars
  <2>4. CASE WriteFails(e)
    BY <1>m, <2>4 DEF WriteFails, Stop, Goto, Conveys, InLoop, Leaving, clientVars, gatewayVars
  <2>5. QED
    BY <1>7, <2>1, <2>2, <2>3, <2>4 DEF Writing
<1>8. ASSUME NEW e \in End, Reading(e) PROVE StageNext
  <2>1. CASE ReadHead(e)
    <3>1. Conveys /\ pc[e] \in InLoop
      BY <2>1 DEF ReadHead, Takes, Conveys, InLoop
    <3>2. QED
      BY <1>k, <2>1, <3>1 DEF ReadHead, clientVars, gatewayVars
  <2>2. CASE ReadStray(e)
    <3>1. Conveys /\ pc[e] \in InLoop
      BY <2>2 DEF ReadStray, Takes, Conveys, InLoop
    <3>2. pc' = pc \/ pc' = [pc EXCEPT ![e] = Stop(e)]
      BY <2>2 DEF ReadStray, Goto
    <3>3. UNCHANGED <<version, scenario>>
      BY <2>2 DEF ReadStray, clientVars, gatewayVars
    <3>4. QED
      BY <1>k, <1>m, <3>1, <3>2, <3>3 DEF Stop, Leaving
  <2>3. CASE ReadFails(e)
    <3>1. CASE pc[e] = "idle"
      BY <1>m, <2>3, <3>1 DEF ReadFails, Stop, Goto, Conveys, InLoop, Leaving, clientVars, gatewayVars
    <3>2. CASE pc[e] # "idle"
      BY <1>a, <2>3, <3>2, StageEnded DEF ReadFails, Goto, clientVars, gatewayVars
    <3>3. QED
      BY <3>1, <3>2
  <2>4. QED
    BY <1>8, <2>1, <2>2, <2>3 DEF Reading
<1>9. CASE UNCHANGED vars
  BY <1>s, <1>9 DEF vars, clientVars, transport, gatewayVars
<1>10. QED
  BY <1>1, <1>2, <1>3, <1>4, <1>5, <1>6, <1>7, <1>8, <1>9 DEF Next

-----------------------------------------------------------------------------
(* What an end does that is not in its loop *)

\* The part of a reader's and a writer's state that the loops alone change
Own(e) == <<sent[e], queue[e], arrived[e], got[e]>>
Begun(e) == pc[e] \in InLoop \cup Leaving

\* Only an end that has begun its loop sends or reads messages, and it never goes back.
LEMMA Outside ==
    ASSUME IInv, [Next]_vars, NEW e \in End
    PROVE  /\ ~Begun(e) => Own(e)' = Own(e)
           /\ Begun(e) => Begun(e)'
           /\ pc[e] \in Leaving => pc'[e] \in Leaving
<1> DEFINE Goal == /\ ~Begun(e) => Own(e)' = Own(e)
                   /\ Begun(e) => Begun(e)'
                   /\ pc[e] \in Leaving => pc'[e] \in Leaving
<1>a. /\ "client" \in End /\ "gateway" \in End /\ (e = "client" \/ e = "gateway") /\ "client" # "gateway"
      /\ \A g \in End : g = "client" \/ g = "gateway"
      /\ pc \in [End -> Shaking \cup InLoop \cup {"none", "enter", "leave", "left", "over"}]
      /\ got \in [End -> {"start", "head", "astray"}] /\ queue \in [End -> Seq(Items)]
      /\ sent \in [End -> Nat] /\ arrived \in [End -> Seq(Nat)]
  BY Ends DEF IInv, TypeOK
<1> USE <1>a DEF Begun, InLoop, Leaving
\* An end outside its loop leaves these alone; one that is in it stays there or stops.
<1>s. ASSUME UNCHANGED <<pc, traffic, got>> PROVE Goal
  BY <1>s DEF Own, traffic
<1>m. ASSUME NEW f \in End, NEW to, pc' = [pc EXCEPT ![f] = to],
             UNCHANGED <<traffic, got>>,
             Begun(f) => to \in InLoop \cup Leaving, pc[f] \in Leaving => to \in Leaving
      PROVE  Goal
  BY <1>m DEF Own, traffic
\* f is in its loop and changes only its own state.
<1>o. ASSUME NEW f \in End, NEW to \in InLoop \cup Leaving, pc' = [pc EXCEPT ![f] = to],
             pc[f] \in InLoop,
             \A g \in End : g # f => sent'[g] = sent[g] /\ queue'[g] = queue[g] /\ arrived'[g] = arrived[g]
                                       /\ got'[g] = got[g]
      PROVE  Goal
  <2>1. CASE e = f
    BY <1>o, <2>1
  <2>2. CASE e # f
    <3>1. pc'[e] = pc[e]
      BY <1>o, <2>2
    <3>2. Own(e)' = Own(e)
      BY <1>o, <2>2 DEF Own
    <3>3. QED
      BY <3>1, <3>2
  <2>3. QED
    BY <2>1, <2>2
<1>1. CASE Entering
  <2>1. UNCHANGED <<traffic, got>>
    BY <1>1 DEF Entering, Connect, ClientNoise, GatewayNoise, Hello, ClientWelcome, Selection, EnterGroup,
         ClientGroup, Exchange
  <2>2. CASE Connect
    <3>1. pc["client"] = "connect" /\ pc["gateway"] = "none"
      BY <2>2 DEF Connect, IInv, Versions
    <3>2. QED
      BY <2>1, <3>1 DEF Own, traffic
  <2>3. CASE ~Connect
    <3>1. \E f \in End, to \in Shaking \cup {"enter", "idle", "over"} :
             pc' = [pc EXCEPT ![f] = to] /\ ~Begun(f)
      BY <1>1, <2>3 DEF Entering, ClientNoise, GatewayNoise, Hello, ClientWelcome, Selection, EnterGroup,
           ClientGroup, Exchange, Goto, Shaking
    <3>2. QED
      BY <2>1, <3>1, <1>m
  <2>4. QED
    BY <2>2, <2>3
<1>2. CASE ClientLoop
  <2>1. CASE ClientReads
    <3>1. pc["client"] = "idle" /\ got' = [got EXCEPT !["client"] = "start"]
      BY <2>1 DEF ClientReads, ReadsBody
    <3>2. UNCHANGED <<queue, sent>>
      BY <2>1 DEF ClientReads
    <3>3. arrived'["gateway"] = arrived["gateway"]
      BY <2>1 DEF ClientReads
    <3>4. pc' = pc \/ pc' = [pc EXCEPT !["client"] = "over"]
      BY <2>1 DEF ClientReads, Goto
    <3>5. pc = [pc EXCEPT !["client"] = pc["client"]]
      OBVIOUS
    <3>6. PICK to \in {"idle", "over"} : pc' = [pc EXCEPT !["client"] = to]
      BY <3>1, <3>4, <3>5
    <3>7. \A g \in End : g # "client" => sent'[g] = sent[g] /\ queue'[g] = queue[g] /\ arrived'[g] = arrived[g]
                                       /\ got'[g] = got[g]
      BY <3>1, <3>2, <3>3
    <3>8. QED
      BY <1>o, <3>1, <3>6, <3>7
  <2>2. CASE ClientCloses
    BY <2>2, <1>m DEF ClientCloses, Goto
  <2>3. CASE SendFails
    BY <2>3, <1>s DEF SendFails, transport
  <2>4. QED
    BY <1>2, <2>1, <2>2, <2>3 DEF ClientLoop
<1>3. CASE GatewayLoop
  <2>1. CASE GatewayReads
    <3>1. pc["gateway"] = "idle" /\ got' = [got EXCEPT !["gateway"] = "start"]
      BY <2>1 DEF GatewayReads, ReadsBody
    <3>2. sent'["client"] = sent["client"] /\ queue'["client"] = queue["client"]
      BY <2>1 DEF GatewayReads, Post
    <3>3. arrived'["client"] = arrived["client"]
      BY <2>1 DEF GatewayReads
    <3>4. pc' = pc \/ pc' = [pc EXCEPT !["gateway"] = "leave"]
      BY <2>1 DEF GatewayReads, Goto
    <3>5. pc = [pc EXCEPT !["gateway"] = pc["gateway"]]
      OBVIOUS
    <3>6. PICK to \in {"idle", "leave"} : pc' = [pc EXCEPT !["gateway"] = to]
      BY <3>1, <3>4, <3>5
    <3>7. \A g \in End : g # "gateway" => sent'[g] = sent[g] /\ queue'[g] = queue[g] /\ arrived'[g] = arrived[g]
                                       /\ got'[g] = got[g]
      BY <3>1, <3>2, <3>3
    <3>8. QED
      BY <1>o, <3>1, <3>6, <3>7
  <2>2. CASE TakeKick
    BY <2>2, <1>o DEF TakeKick, Branch, Goto, traffic
  <2>3. CASE Leave
    BY <2>3, <1>m DEF Leave, Goto
  <2>4. QED
    BY <1>3, <2>1, <2>2, <2>3 DEF GatewayLoop
<1>4. CASE UserOrNet
  <2>1. CASE TakePrivate
    <3>1. pc' = [pc EXCEPT !["client"] = "idle"]
      BY <2>1 DEF TakePrivate
    <3>2. \A g \in End : g # "client" => sent'[g] = sent[g] /\ queue'[g] = queue[g] /\ arrived'[g] = arrived[g]
                                       /\ got'[g] = got[g]
      BY <2>1 DEF TakePrivate, Branch, traffic
    <3>3. pc["client"] = "idle"
      BY <2>1 DEF TakePrivate
    <3>4. QED
      BY <3>1, <3>2, <3>3, <1>o
  <2>2. CASE SendChat
    <3>1. pc' = [pc EXCEPT !["client"] = pc["client"]]
      BY <2>2 DEF SendChat, transport
    <3>2. QED
      BY <2>2, <3>1, <1>o DEF SendChat, transport
  <2>3. CASE News
    <3>1. registered /\ pc["gateway"] \in {"leave"} \cup InLoop
      BY <2>3 DEF News, IInv, Listed
    <3>2. sent'["client"] = sent["client"] /\ queue'["client"] = queue["client"]
      BY <2>3 DEF News, Post
    <3>3. QED
      BY <2>3, <3>1, <3>2 DEF News, transport, Own
  <2>4. CASE Cut \/ CloseChat \/ SendTimesOut \/ NewWindow \/ Kick
    BY <2>4, <1>s DEF Cut, CloseChat, SendTimesOut, NewWindow, Kick, transport
  <2>5. QED
    BY <1>4, <2>1, <2>2, <2>3, <2>4 DEF UserOrNet
<1>5. CASE Witness
  BY <1>s, <1>5 DEF Witness, WitnessEnters, WitnessHears, transport
<1>6. ASSUME NEW f \in End, Timeout(f) PROVE Goal
  BY <1>m, <1>6 DEF Timeout, Timed, Shaking, Goto
<1>7. ASSUME NEW f \in End, Writing(f) PROVE Goal
  <2>1. CASE TakeNext(f)
    BY <2>1, <1>o DEF TakeNext, Branch, Goto
  <2>2. CASE WriteHead(f)
    BY <2>2, <1>m DEF WriteHead, Goto
  <2>3. CASE WriteBody(f)
    BY <2>3, <1>m DEF WriteBody, AfterKick, Goto
  <2>4. CASE WriteFails(f)
    BY <2>4, <1>m DEF WriteFails, Stop, Goto
  <2>5. QED
    BY <1>7, <2>1, <2>2, <2>3, <2>4 DEF Writing
<1>8. ASSUME NEW f \in End, Reading(f) PROVE Goal
  <2>1. CASE ReadHead(f)
    <3>1. pc' = [pc EXCEPT ![f] = "idle"]
      BY <2>1 DEF ReadHead
    <3>2. QED
      BY <2>1, <3>1, <1>o DEF ReadHead, traffic
  <2>2. CASE ReadStray(f)
    <3>1. pc[f] = "idle" /\ UNCHANGED traffic
      BY <2>2 DEF ReadStray
    <3>2. \A g \in End : g # f => got'[g] = got[g]
      BY <2>2 DEF ReadStray
    <3>3. pc' = pc \/ pc' = [pc EXCEPT ![f] = Stop(f)]
      BY <2>2 DEF ReadStray, Goto
    <3>4. pc' = [pc EXCEPT ![f] = "idle"] \/ pc' = [pc EXCEPT ![f] = Stop(f)]
      BY <3>1, <3>3
    <3>5. QED
      BY <3>1, <3>2, <3>4, <1>o DEF Stop, traffic
  <2>3. CASE ReadFails(f)
    BY <2>3, <1>m DEF ReadFails, Stop, Shaking, Goto
  <2>4. QED
    BY <1>8, <2>1, <2>2, <2>3 DEF Reading
<1>9. CASE UNCHANGED vars
  BY <1>s, <1>9 DEF vars, transport
<1>10. QED
  BY <1>1, <1>2, <1>3, <1>4, <1>5, <1>6, <1>7, <1>8, <1>9 DEF Next

LEMMA FreshStep == IInv /\ [Next]_vars => Fresh'
<1> SUFFICES ASSUME IInv, [Next]_vars, NEW e \in End, pc'[e] \notin InLoop \cup Leaving
             PROVE  (sent[e] = 0 /\ queue[e] = <<>> /\ arrived[e] = <<>> /\ got[e] = "start")'
  BY DEF Fresh
<1>1. ~Begun(e) /\ Own(e)' = Own(e)
  BY Outside DEF Begun
<1>2. sent[e] = 0 /\ queue[e] = <<>> /\ arrived[e] = <<>> /\ got[e] = "start"
  BY <1>1 DEF IInv, Fresh, Begun
<1>3. QED
  BY <1>1, <1>2 DEF Own

\* The version is agreed on once, by Hello; only a chat or a sending goes on to a group.
LEMMA VersionsStep == IInv /\ [Next]_vars => Versions' /\ scenario' = scenario
<1> SUFFICES ASSUME IInv, [Next]_vars PROVE Versions' /\ scenario' = scenario
  OBVIOUS
<1>a. /\ TypeOK /\ Versions /\ "client" \in End /\ "gateway" \in End /\ "client" # "gateway"
      /\ pc \in [End -> Shaking \cup InLoop \cup {"none", "enter", "leave", "left", "over"}]
  BY Ends DEF IInv, TypeOK
<1> USE <1>a DEF InLoop
<1>s. ASSUME UNCHANGED <<version, scenario>>,
             pc'["client"] \in {"select"} \cup InLoop =>
                pc["client"] \in {"select"} \cup InLoop \/ scenario.user # "inspect",
             pc'["client"] = "connect" => pc["client"] = "connect" /\ pc'["gateway"] = pc["gateway"]
      PROVE  Versions' /\ scenario' = scenario
  BY <1>s DEF Versions, Agreed, Negotiated
<1>m. ASSUME UNCHANGED <<version, scenario>>, NEW e \in End, pc[e] # "none",
             \/ pc[e] \in InLoop /\ UNCHANGED pc
             \/ \E to \in {"head", "body", "idle"} : pc[e] \in InLoop /\ pc' = [pc EXCEPT ![e] = to]
             \/ \E to \in Leaving : pc' = [pc EXCEPT ![e] = to]
      PROVE  Versions' /\ scenario' = scenario
  <2>1. e = "client" \/ e = "gateway"
    BY Ends
  <2>2. pc'["client"] \in {"select"} \cup InLoop => pc["client"] \in {"select"} \cup InLoop
    BY <1>m, <2>1 DEF Leaving
  <2>3. pc'["client"] = "connect" => pc["client"] = "connect" /\ pc'["gateway"] = pc["gateway"]
    BY <1>m, <2>1 DEF Leaving, Versions
  <2>4. QED
    BY <1>m, <1>s, <2>2, <2>3
<1>1. CASE Entering
  <2>1. CASE Hello
    <3>1. /\ scenario' = scenario /\ pc'["client"] = pc["client"]
          /\ pc["gateway"] = "hello" /\ pc["client"] # "connect"
      BY <2>1 DEF Hello, Exchange, Goto, clientVars, Versions
    <3>2. CASE UNCHANGED version
      BY <3>1, <3>2, <1>s
    <3>3. CASE version' = Negotiated /\ ~(Negotiated < GatewayMin \/ Negotiated < scenario.min)
      <4>1. GatewayMax \in Nat /\ GatewayMin \in Nat /\ scenario.min \in Nat /\ scenario.max \in Nat
        BY LinkAssumption DEF TypeOK
      <4>2. Negotiated' = Negotiated /\ Negotiated \in Nat
        BY <3>1, <4>1 DEF Negotiated
      <4>3. Agreed'
        BY <3>1, <3>3, <4>1, <4>2 DEF Agreed
      <4>4. QED
        BY <3>1, <4>3 DEF Versions
    <3>4. QED
      BY <2>1, <3>2, <3>3 DEF Hello
  <2>2. CASE Connect \/ ClientNoise \/ GatewayNoise \/ ClientWelcome \/ Selection \/ EnterGroup \/ ClientGroup
    BY <2>2, <1>s DEF Versions, Connect, ClientNoise, GatewayNoise, ClientWelcome, Selection, EnterGroup, ClientGroup,
         Exchange, Goto, clientVars, gatewayVars
  <2>3. QED
    BY <1>1, <2>1, <2>2 DEF Entering
<1>2. CASE ClientLoop
  BY <1>2, <1>s DEF Versions, ClientLoop, ClientReads, ClientCloses, SendFails, ReadsBody, Goto, clientVars, transport, gatewayVars
<1>3. CASE GatewayLoop
  BY <1>3, <1>m DEF GatewayLoop, GatewayReads, ReadsBody, TakeKick, Leave, Leaving, Goto, clientVars, gatewayVars
<1>4. CASE UserOrNet
  BY <1>4, <1>s DEF Versions, UserOrNet, TakePrivate, Cut, SendChat, CloseChat, SendTimesOut, NewWindow, News, Kick,
       clientVars, transport, gatewayVars
<1>5. CASE Witness
  BY <1>s, <1>5 DEF Versions, Witness, WitnessEnters, WitnessHears, clientVars, transport, gatewayVars
<1>6. ASSUME NEW e \in End, Timeout(e) PROVE Versions' /\ scenario' = scenario
  BY <1>m, <1>6 DEF Timeout, Timed, Shaking, Leaving, Goto, clientVars, gatewayVars
<1>7. ASSUME NEW e \in End, Writing(e) PROVE Versions' /\ scenario' = scenario
  BY <1>m, <1>7 DEF Leaving, Writing, TakeNext, WriteHead, WriteBody, WriteFails, Stop, AfterKick, Goto, clientVars, gatewayVars
<1>8. ASSUME NEW e \in End, Reading(e) PROVE Versions' /\ scenario' = scenario
  BY <1>m, <1>8 DEF Leaving, Shaking, Reading, ReadHead, ReadStray, ReadFails, Stop, Goto, clientVars, gatewayVars
<1>9. CASE UNCHANGED vars
  BY <1>s, <1>9 DEF Versions, vars, clientVars, transport, gatewayVars
<1>10. QED
  BY <1>1, <1>2, <1>3, <1>4, <1>5, <1>6, <1>7, <1>8, <1>9 DEF Next

-----------------------------------------------------------------------------
(* How messages move: into the queue, into the frame, on their way *)

\* w puts a new message into its queue.
Adds(w, kind) ==
    /\ queue'[w] = Append(queue[w], Item(kind, sent[w] + 1))
    /\ sent'[w] = sent[w] + 1

LEMMA QueueSteps ==
    ASSUME IInv, [Next]_vars, NEW w \in End
    PROVE  \/ queue'[w] = queue[w] /\ sent'[w] = sent[w]
           \/ TakeNext(w)
           \/ w = "client" /\ Adds(w, "chat") /\ sent'[w] <= scenario.chats
           \/ /\ w = "gateway"
              /\ \E kind \in {"news", "echo", "error"} :
                    Adds(w, kind) /\ (kind = "echo" => stored' # {})
<1> DEFINE Goal ==
       \/ queue'[w] = queue[w] /\ sent'[w] = sent[w]
       \/ TakeNext(w)
       \/ w = "client" /\ Adds(w, "chat") /\ sent'[w] <= scenario.chats
       \/ /\ w = "gateway"
          /\ \E kind \in {"news", "echo", "error"} :
                Adds(w, kind) /\ (kind = "echo" => stored' # {})
<1>a. /\ "client" \in End /\ "gateway" \in End /\ (w = "client" \/ w = "gateway") /\ "client" # "gateway"
      /\ queue \in [End -> Seq(Items)] /\ sent \in [End -> Nat]
      /\ scenario.chats \in Nat
  BY Ends, LinkAssumption DEF IInv, TypeOK
<1>s. ASSUME UNCHANGED <<queue, sent>> PROVE Goal
  BY <1>s
\* What Post does to one end's queue
<1>p. ASSUME NEW kind \in {"news", "echo", "error"}, Post(kind), kind = "echo" => stored' # {}
      PROVE  Goal
  <2>1. CASE w = "client" \/ ~(Len(queue["gateway"]) < QueueCapacity)
    BY <1>a, <1>p, <2>1 DEF Post
  <2>2. CASE w = "gateway" /\ Len(queue["gateway"]) < QueueCapacity
    <3>1. Adds(w, kind)
      BY <1>a, <1>p, <2>2 DEF Post, Adds
    <3>2. QED
      BY <1>p, <2>2, <3>1
  <2>3. QED
    BY <1>a, <2>1, <2>2
<1>1. CASE Entering
  BY <1>1, <1>s DEF Entering, Connect, ClientNoise, GatewayNoise, Hello, ClientWelcome, Selection, EnterGroup,
       ClientGroup, traffic
<1>2. CASE ClientLoop
  BY <1>2, <1>s DEF ClientLoop, ClientReads, ClientCloses, SendFails, traffic
<1>3. CASE GatewayLoop
  <2>1. CASE GatewayReads
    <3>1. \/ UNCHANGED <<queue, sent>>
          \/ Post("echo") /\ stored' # {}
          \/ Post("error")
      BY <2>1 DEF GatewayReads
    <3>2. QED
      BY <3>1, <1>s, <1>p
  <2>2. CASE TakeKick \/ Leave
    BY <2>2, <1>s DEF TakeKick, Leave, traffic
  <2>3. QED
    BY <1>3, <2>1, <2>2 DEF GatewayLoop
<1>4. CASE UserOrNet
  <2>1. CASE SendChat
    <3>1. CASE w = "gateway"
      BY <1>a, <2>1, <3>1 DEF SendChat
    <3>2. CASE w = "client"
      <4>1. Adds(w, "chat")
        BY <1>a, <2>1, <3>2 DEF SendChat, Adds
      <4>2. sent'[w] <= scenario.chats
        BY <1>a, <2>1, <3>2 DEF SendChat
      <4>3. QED
        BY <3>2, <4>1, <4>2
    <3>3. QED
      BY <1>a, <3>1, <3>2
  <2>2. CASE News
    BY <2>2, <1>p DEF News
  <2>3. CASE TakePrivate \/ Cut \/ CloseChat \/ SendTimesOut \/ NewWindow \/ Kick
    BY <2>3, <1>s DEF TakePrivate, Cut, CloseChat, SendTimesOut, NewWindow, Kick, traffic
  <2>4. QED
    BY <1>4, <2>1, <2>2, <2>3 DEF UserOrNet
<1>5. CASE Witness
  BY <1>s, <1>5 DEF Witness, WitnessEnters, WitnessHears, traffic
<1>6. ASSUME NEW e \in End, Timeout(e) PROVE Goal
  BY <1>s, <1>6 DEF Timeout, traffic
<1>7. ASSUME NEW e \in End, Writing(e) PROVE Goal
  <2>1. CASE TakeNext(e)
    BY <1>a, <2>1 DEF TakeNext
  <2>2. CASE ~TakeNext(e)
    BY <1>7, <2>2, <1>s DEF Writing, WriteHead, WriteBody, WriteFails, traffic
  <2>3. QED
    BY <2>1, <2>2
<1>8. ASSUME NEW e \in End, Reading(e) PROVE Goal
  BY <1>s, <1>8 DEF Reading, ReadHead, ReadStray, ReadFails, traffic
<1>9. CASE UNCHANGED vars
  BY <1>s, <1>9 DEF vars, traffic
<1>10. QED
  BY <1>1, <1>2, <1>3, <1>4, <1>5, <1>6, <1>7, <1>8, <1>9 DEF Next

\* Only its own loop writes a frame of w, or takes up another one.
LEMMA FrameSteps ==
    ASSUME IInv, [Next]_vars, NEW w \in End
    PROVE  \/ frame'[w] = frame[w]
           \/ TakeNext(w) /\ frame'[w] = Head(queue[w]) /\ queue[w] # <<>> /\ pc'[w] = "head"
           \/ w = "gateway" /\ TakeKick /\ frame'[w] = Item("kick", 0)
           \/ WriteBody(w) /\ frame'[w] = Nothing
<1> DEFINE Goal ==
       \/ frame'[w] = frame[w]
       \/ TakeNext(w) /\ frame'[w] = Head(queue[w]) /\ queue[w] # <<>> /\ pc'[w] = "head"
       \/ w = "gateway" /\ TakeKick /\ frame'[w] = Item("kick", 0)
       \/ WriteBody(w) /\ frame'[w] = Nothing
<1>a. /\ "client" \in End /\ "gateway" \in End /\ (w = "client" \/ w = "gateway") /\ "client" # "gateway"
      /\ frame \in [End -> Items]
      /\ pc \in [End -> Shaking \cup InLoop \cup {"none", "enter", "leave", "left", "over"}]
  BY Ends DEF IInv, TypeOK
<1>s. ASSUME UNCHANGED frame PROVE Goal
  BY <1>s
<1>1. CASE Entering
  BY <1>1, <1>s DEF Entering, Connect, ClientNoise, GatewayNoise, Hello, ClientWelcome, Selection, EnterGroup,
       ClientGroup, Exchange
<1>2. CASE ClientLoop
  BY <1>2, <1>s DEF ClientLoop, ClientReads, ReadsBody, ClientCloses, SendFails, transport
<1>3. CASE GatewayLoop
  <2>1. CASE TakeKick
    BY <1>a, <2>1 DEF TakeKick
  <2>2. CASE GatewayReads \/ Leave
    BY <2>2, <1>s DEF GatewayReads, ReadsBody, Leave
  <2>3. QED
    BY <1>3, <2>1, <2>2 DEF GatewayLoop
<1>4. CASE UserOrNet
  BY <1>4, <1>s DEF UserOrNet, TakePrivate, Cut, SendChat, CloseChat, SendTimesOut, NewWindow, News, Kick, transport
<1>5. CASE Witness
  BY <1>s, <1>5 DEF Witness, WitnessEnters, WitnessHears, transport
<1>6. ASSUME NEW e \in End, Timeout(e) PROVE Goal
  BY <1>s, <1>6 DEF Timeout
<1>7. ASSUME NEW e \in End, Writing(e) PROVE Goal
  <2>1. CASE TakeNext(e)
    BY <1>a, <2>1 DEF TakeNext, Goto
  <2>2. CASE WriteBody(e)
    BY <1>a, <2>2 DEF WriteBody
  <2>3. CASE WriteHead(e) \/ WriteFails(e)
    BY <2>3, <1>s DEF WriteHead, WriteFails
  <2>4. QED
    BY <1>7, <2>1, <2>2, <2>3 DEF Writing
<1>8. ASSUME NEW e \in End, Reading(e) PROVE Goal
  BY <1>s, <1>8 DEF Reading, ReadHead, ReadStray, ReadFails
<1>9. CASE UNCHANGED vars
  BY <1>s, <1>9 DEF vars, transport
<1>10. QED
  BY <1>1, <1>2, <1>3, <1>4, <1>5, <1>6, <1>7, <1>8, <1>9 DEF Next

\* What is on its way to r is read from the front, and written to by its peer.
LEMMA WireSteps ==
    ASSUME IInv, [Next]_vars, NEW r \in End
    PROVE  \/ wire'[r] = wire[r]
           \/ wire[r] # <<>> /\ wire'[r] = Tail(wire[r])
           \/ WriteHead(Peer(r)) /\ wire'[r] = Append(wire[r], [part |-> "head", item |-> frame[Peer(r)]])
           \/ WriteBody(Peer(r)) /\ wire'[r] = Append(wire[r], [part |-> "body", item |-> frame[Peer(r)]])
           \/ \A i \in 1..Len(wire'[r]) : ~IsItem(wire'[r][i])
<1> DEFINE Goal ==
       \/ wire'[r] = wire[r]
       \/ wire[r] # <<>> /\ wire'[r] = Tail(wire[r])
       \/ WriteHead(Peer(r)) /\ wire'[r] = Append(wire[r], [part |-> "head", item |-> frame[Peer(r)]])
       \/ WriteBody(Peer(r)) /\ wire'[r] = Append(wire[r], [part |-> "body", item |-> frame[Peer(r)]])
       \/ \A i \in 1..Len(wire'[r]) : ~IsItem(wire'[r][i])
<1>a. /\ "client" \in End /\ "gateway" \in End /\ (r = "client" \/ r = "gateway") /\ "client" # "gateway"
      /\ \A e \in End : Peer(e) \in End /\ Peer(Peer(e)) = e
      /\ wire \in [End -> Seq(Parts)] /\ TypeOK /\ AnyStage
  BY Ends DEF IInv, TypeOK, AnyStage
<1>s. ASSUME UNCHANGED wire PROVE Goal
  BY <1>s
<1>t. ASSUME NEW e \in End, wire[e] # <<>>, wire' = [wire EXCEPT ![e] = Tail(@)] PROVE Goal
  BY <1>a, <1>t
<1>1. CASE Entering
  <2>1. Shuffled
    BY <1>a, <1>1, EnteringStages
  <2>2. QED
    BY <1>a, <2>1 DEF Shuffled
<1>2. CASE ClientLoop
  BY <1>a, <1>2, <1>s, <1>t DEF ClientLoop, ClientReads, ReadsBody, ClientCloses, SendFails, transport
<1>3. CASE GatewayLoop
  BY <1>a, <1>3, <1>s, <1>t DEF GatewayLoop, GatewayReads, ReadsBody, TakeKick, Leave
<1>4. CASE UserOrNet
  BY <1>4, <1>s DEF UserOrNet, TakePrivate, Cut, SendChat, CloseChat, SendTimesOut, NewWindow, News, Kick, transport
<1>5. CASE Witness
  BY <1>s, <1>5 DEF Witness, WitnessEnters, WitnessHears, transport
<1>6. ASSUME NEW e \in End, Timeout(e) PROVE Goal
  BY <1>s, <1>6 DEF Timeout
<1>7. ASSUME NEW e \in End, Writing(e) PROVE Goal
  <2>1. CASE TakeNext(e) \/ WriteFails(e)
    BY <2>1, <1>s DEF TakeNext, WriteFails
  <2>2. CASE WriteHead(e)
    BY <1>a, <2>2 DEF WriteHead, Put
  <2>3. CASE WriteBody(e)
    BY <1>a, <2>3 DEF WriteBody, Put
  <2>4. QED
    BY <1>7, <2>1, <2>2, <2>3 DEF Writing
<1>8. ASSUME NEW e \in End, Reading(e) PROVE Goal
  <2>1. CASE ReadFails(e)
    BY <2>1, <1>s DEF ReadFails
  <2>2. CASE ReadHead(e) \/ ReadStray(e)
    BY <2>2, <1>t DEF ReadHead, ReadStray
  <2>3. QED
    BY <1>8, <2>1, <2>2 DEF Reading
<1>9. CASE UNCHANGED vars
  BY <1>s, <1>9 DEF vars, transport
<1>10. QED
  BY <1>1, <1>2, <1>3, <1>4, <1>5, <1>6, <1>7, <1>8, <1>9 DEF Next

\* Every message in a queue, in a frame or on its way is one of Items.
LEMMA Parcels ==
    ASSUME TypeOK, NEW e \in End
    PROVE  /\ queue[e] \in Seq(Items) /\ Len(queue[e]) \in Nat /\ frame[e] \in Items /\ sent[e] \in Nat
           /\ \A i \in 1..Len(queue[e]) : queue[e][i] \in Items /\ queue[e][i].n \in Nat
           /\ wire[e] \in Seq(Parts) /\ Len(wire[e]) \in Nat
           /\ \A i \in 1..Len(wire[e]) : IsItem(wire[e][i]) => wire[e][i].item \in Items /\ wire[e][i].item.n \in Nat
<1>1. queue[e] \in Seq(Items) /\ frame[e] \in Items /\ sent[e] \in Nat /\ wire[e] \in Seq(Parts)
  BY DEF TypeOK
<1>2. \A i \in 1..Len(queue[e]) : queue[e][i] \in Items /\ queue[e][i].n \in Nat
  BY <1>1, ItemFacts
<1>3. \A i \in 1..Len(wire[e]) : wire[e][i] \in Parts
  BY <1>1
<1>4. \A i \in 1..Len(wire[e]) : IsItem(wire[e][i]) => wire[e][i].item \in Items /\ wire[e][i].item.n \in Nat
  BY <1>3, PartFacts, ItemFacts
<1>5. QED
  BY <1>1, <1>2, <1>4

\* The queue after a step, message by message
LEMMA QueueAt ==
    ASSUME IInv, [Next]_vars, NEW w \in End, NEW i \in 1..Len(queue'[w])
    PROVE  \/ \E j \in 1..Len(queue[w]) : queue'[w][i] = queue[w][j]
           \/ w = "client" /\ queue'[w][i] = Item("chat", sent[w] + 1)
           \/ /\ w = "gateway"
              /\ \E kind \in {"news", "echo", "error"} :
                    queue'[w][i] = Item(kind, sent[w] + 1) /\ (kind = "echo" => stored' # {})
<1>1. PICK q \in Seq(Items) : q = queue[w] /\ sent[w] \in Nat
  BY Parcels DEF IInv
<1>2. CASE queue'[w] = queue[w]
  BY <1>2
<1>3. CASE TakeNext(w)
  <2>1. q # <<>> /\ queue'[w] = Tail(q)
    BY <1>1, <1>3 DEF TakeNext, IInv, TypeOK
  <2>2. i + 1 \in 1..Len(q) /\ Tail(q)[i] = q[i + 1]
    BY <1>1, <2>1, TailAt
  <2>3. QED
    BY <1>1, <2>1, <2>2
<1>4. ASSUME NEW kind \in {"chat", "news", "echo", "error"}, Adds(w, kind)
      PROVE  (\E j \in 1..Len(queue[w]) : queue'[w][i] = queue[w][j]) \/ queue'[w][i] = Item(kind, sent[w] + 1)
  <2>1. PICK item \in Items : item = Item(kind, sent[w] + 1)
    BY <1>1, ItemFacts
  <2>2. queue'[w] = Append(q, item)
    BY <1>1, <1>4, <2>1 DEF Adds
  <2>3. \/ i \in 1..Len(q) /\ Append(q, item)[i] = q[i]
        \/ Append(q, item)[i] = item
    BY <1>1, <2>1, <2>2, AppendAt
  <2>4. QED
    BY <1>1, <2>1, <2>2, <2>3
<1>5. QED
  BY <1>2, <1>3, <1>4, QueueSteps

\* What is on its way after a step, part by part
LEMMA WireAt ==
    ASSUME IInv, [Next]_vars, NEW r \in End, NEW i \in 1..Len(wire'[r]), IsItem(wire'[r][i])
    PROVE  \/ \E j \in 1..Len(wire[r]) : wire'[r][i] = wire[r][j]
           \/ /\ WriteHead(Peer(r)) \/ WriteBody(Peer(r))
              /\ wire'[r][i].item = frame[Peer(r)]
<1>1. PICK s \in Seq(Parts) : s = wire[r] /\ frame[Peer(r)] \in Items
  BY Parcels, Ends DEF IInv
<1>2. CASE wire'[r] = s
  BY <1>1, <1>2
<1>3. CASE s # <<>> /\ wire'[r] = Tail(s)
  BY <1>1, <1>3, TailAt
<1>4. ASSUME NEW part \in {"head", "body"}, wire'[r] = Append(s, [part |-> part, item |-> frame[Peer(r)]])
      PROVE  \/ \E j \in 1..Len(wire[r]) : wire'[r][i] = wire[r][j]
             \/ wire'[r][i].item = frame[Peer(r)]
  <2>1. PICK x \in Parts : x = [part |-> part, item |-> frame[Peer(r)]] /\ x.item = frame[Peer(r)]
    BY <1>1, PartFacts
  <2>2. \/ i \in 1..Len(s) /\ Append(s, x)[i] = s[i]
        \/ Append(s, x)[i] = x
    BY <1>1, <1>4, <2>1, AppendAt
  <2>3. QED
    BY <1>1, <1>4, <2>1, <2>2
<1>5. QED
  BY <1>1, <1>2, <1>3, <1>4, WireSteps

LEMMA NumberedStep == IInv /\ [Next]_vars => Numbered'
<1> SUFFICES ASSUME IInv, [Next]_vars, NEW e \in End
             PROVE  /\ Len(queue'[e]) <= sent'[e]
                    /\ \A i \in 1..Len(queue'[e]) : queue'[e][i].n = sent'[e] - Len(queue'[e]) + i
  BY DEF Numbered
<1>1. PICK q \in Seq(Items) : q = queue[e]
  BY Parcels DEF IInv
<1>2. PICK n \in Nat : n = sent[e]
  BY Parcels DEF IInv
<1>3. Len(q) <= n /\ \A i \in 1..Len(q) : q[i].n = n - Len(q) + i
  BY <1>1, <1>2 DEF IInv, Numbered
<1>4. CASE queue'[e] = queue[e] /\ sent'[e] = sent[e]
  BY <1>1, <1>2, <1>3, <1>4
<1>5. CASE TakeNext(e)
  <2>1. q # <<>> /\ queue'[e] = Tail(q) /\ sent'[e] = n
    BY <1>1, <1>2, <1>5 DEF TakeNext, IInv, TypeOK
  <2>2. /\ Len(Tail(q)) = Len(q) - 1 /\ Len(q) \in Nat
        /\ \A i \in 1..Len(Tail(q)) : i + 1 \in 1..Len(q) /\ Tail(q)[i] = q[i + 1]
    BY <2>1, TailAt
  <2>3. QED
    BY <1>3, <2>1, <2>2
<1>6. ASSUME NEW kind \in {"chat", "news", "echo", "error"}, Adds(e, kind)
      PROVE  /\ Len(queue'[e]) <= sent'[e]
             /\ \A i \in 1..Len(queue'[e]) : queue'[e][i].n = sent'[e] - Len(queue'[e]) + i
  <2>1. PICK item \in Items : item = Item(kind, n + 1) /\ item.n = n + 1
    BY ItemFacts
  <2>2. queue'[e] = Append(q, item) /\ sent'[e] = n + 1
    BY <1>1, <1>2, <1>6, <2>1 DEF Adds
  <2>3. /\ Len(Append(q, item)) = Len(q) + 1 /\ Len(q) \in Nat
        /\ \A i \in 1..Len(Append(q, item)) :
              \/ i \in 1..Len(q) /\ Append(q, item)[i] = q[i]
              \/ i = Len(q) + 1 /\ Append(q, item)[i] = item
    BY AppendAt
  <2>4. QED
    BY <1>3, <2>1, <2>2, <2>3
<1>7. QED
  BY <1>4, <1>5, <1>6, QueueSteps

LEMMA BoundedStep == IInv /\ [Next]_vars => Bounded'
<1> SUFFICES ASSUME IInv, [Next]_vars PROVE Bounded'
  OBVIOUS
<1>1. /\ TypeOK /\ Bounded /\ "client" \in End /\ "gateway" \in End /\ Peer("gateway") = "client"
      /\ sent["client"] \in Nat /\ scenario' = scenario /\ scenario.chats \in Nat
      /\ frame["client"] \in Items /\ frame["client"].n \in Nat
  BY Ends, Parcels, ItemFacts, VersionsStep, LinkAssumption DEF IInv, TypeOK
<1>2. sent'["client"] \in Nat /\ sent["client"] <= sent'["client"] /\ sent'["client"] <= scenario.chats
  <2>1. sent'["client"] = sent["client"] \/ (sent'["client"] = sent["client"] + 1 /\ sent'["client"] <= scenario.chats)
    BY <1>1, QueueSteps DEF Adds, TakeNext
  <2>2. QED
    BY <1>1, <2>1 DEF Bounded
<1>3. frame'["client"].n <= sent'["client"]
  <2>1. CASE frame'["client"] = frame["client"]
    BY <1>1, <1>2, <2>1 DEF Bounded
  <2>2. CASE frame'["client"] = Head(queue["client"]) /\ queue["client"] # <<>>
    <3>1. PICK q \in Seq(Items) : q = queue["client"] /\ q # <<>>
      BY <1>1, <2>2, Parcels
    <3>2. Len(q) \in Nat \ {0} /\ Head(q) = q[1] /\ 1 \in 1..Len(q)
      BY <3>1, TailAt
    <3>3. q[1].n = sent["client"] - Len(q) + 1
      BY <1>1, <3>1, <3>2 DEF IInv, Numbered
    <3>4. QED
      BY <1>1, <1>2, <2>2, <3>1, <3>2, <3>3
  <2>3. CASE frame'["client"] = Nothing
    BY <1>2, <2>3, ItemFacts
  <2>4. QED
    BY <1>1, <2>1, <2>2, <2>3, FrameSteps
<1>4. ASSUME NEW i \in 1..Len(wire'["gateway"]), IsItem(wire'["gateway"][i])
      PROVE  wire'["gateway"][i].item.n <= sent'["client"]
  <2>1. CASE \E j \in 1..Len(wire["gateway"]) : wire'["gateway"][i] = wire["gateway"][j]
    <3>1. PICK j \in 1..Len(wire["gateway"]) : wire'["gateway"][i] = wire["gateway"][j]
      BY <2>1
    <3>2. PICK item \in Items : item = wire["gateway"][j].item /\ item.n \in Nat
      BY <1>1, <1>4, <3>1, Parcels
    <3>3. item.n <= sent["client"]
      BY <1>1, <1>4, <3>1, <3>2 DEF Bounded
    <3>4. QED
      BY <1>1, <1>2, <3>1, <3>2, <3>3
  <2>2. CASE wire'["gateway"][i].item = frame["client"]
    BY <1>1, <1>2, <2>2 DEF Bounded
  <2>3. QED
    BY <1>1, <1>4, <2>1, <2>2, WireAt
<1>5. QED
  BY <1>1, <1>2, <1>3, <1>4 DEF Bounded

-----------------------------------------------------------------------------
(* What only grows, and the kick *)

\* What has happened has happened.
LEMMA Growing ==
    ASSUME IInv, [Next]_vars
    PROVE  stored \subseteq stored' /\ causes \subseteq causes'
<1>s. ASSUME UNCHANGED <<stored, causes>> PROVE stored \subseteq stored' /\ causes \subseteq causes'
  BY <1>s
<1>1. CASE Entering
  BY <1>1 DEF Entering, Connect, ClientNoise, GatewayNoise, Hello, ClientWelcome, Selection, EnterGroup, ClientGroup,
       Because, gatewayVars
<1>2. CASE ClientLoop
  BY <1>2 DEF ClientLoop, ClientReads, ClientCloses, SendFails, gatewayVars
<1>3. CASE GatewayLoop
  BY <1>3 DEF GatewayLoop, GatewayReads, Post, TakeKick, Branch, Leave, Farewell, Remove, Tell, Because, gatewayVars
<1>4. CASE UserOrNet
  BY <1>4 DEF UserOrNet, TakePrivate, Branch, Cut, SendChat, CloseChat, SendTimesOut, NewWindow, News, Post, Kick,
       Because, gatewayVars
<1>5. CASE Witness
  BY <1>s, <1>5 DEF Witness, WitnessEnters, WitnessHears, gatewayVars
<1>6. ASSUME NEW e \in End, Timeout(e) PROVE stored \subseteq stored' /\ causes \subseteq causes'
  BY <1>6 DEF Timeout, Because, gatewayVars
<1>7. ASSUME NEW e \in End, Writing(e) PROVE stored \subseteq stored' /\ causes \subseteq causes'
  BY <1>7 DEF Writing, TakeNext, Branch, WriteHead, WriteBody, WriteFails, gatewayVars
<1>8. ASSUME NEW e \in End, Reading(e) PROVE stored \subseteq stored' /\ causes \subseteq causes'
  BY <1>s, <1>8 DEF Reading, ReadHead, ReadStray, ReadFails, gatewayVars
<1>9. CASE UNCHANGED vars
  BY <1>s, <1>9 DEF vars, gatewayVars
<1>10. QED
  BY <1>1, <1>2, <1>3, <1>4, <1>5, <1>6, <1>7, <1>8, <1>9 DEF Next

LEMMA EchoedStep == IInv /\ [Next]_vars => Echoed'
<1> SUFFICES ASSUME IInv, [Next]_vars PROVE Echoed'
  OBVIOUS
<1>1. /\ TypeOK /\ Echoed /\ "client" \in End /\ "gateway" \in End
      /\ Peer("client") = "gateway" /\ "client" # "gateway"
      /\ stored # {} => stored' # {}
  BY Ends, Growing DEF IInv
<1>2. \A n \in Nat : \A kind \in {"news", "echo", "error"} : IsEcho(Item(kind, n)) => kind = "echo"
  BY DEF IsEcho, Item
<1>3. ASSUME NEW i \in 1..Len(queue'["gateway"]), IsEcho(queue'["gateway"][i]) PROVE stored' # {}
  <2>1. sent["gateway"] + 1 \in Nat
    BY <1>1, Parcels
  <2>2. \/ \E j \in 1..Len(queue["gateway"]) : queue'["gateway"][i] = queue["gateway"][j]
        \/ \E kind \in {"news", "echo", "error"} :
               queue'["gateway"][i] = Item(kind, sent["gateway"] + 1) /\ (kind = "echo" => stored' # {})
    BY <1>1, QueueAt
  <2>3. QED
    BY <1>1, <1>2, <1>3, <2>1, <2>2 DEF Echoed
<1>4. IsEcho(frame'["gateway"]) => stored' # {}
  <2>1. queue["gateway"] # <<>> => Head(queue["gateway"]) = queue["gateway"][1] /\ 1 \in 1..Len(queue["gateway"])
    BY <1>1, Parcels
  <2>2. ~IsEcho(Item("kick", 0))
    BY DEF IsEcho, Item
  <2>3. \/ frame'["gateway"] = frame["gateway"]
        \/ frame'["gateway"] = Head(queue["gateway"]) /\ queue["gateway"] # <<>>
        \/ frame'["gateway"] = Item("kick", 0)
        \/ frame'["gateway"] = Nothing
    BY <1>1, FrameSteps
  <2>4. QED
    BY <1>1, <2>1, <2>2, <2>3, ItemFacts DEF Echoed
<1>5. ASSUME NEW i \in 1..Len(wire'["client"]), IsItem(wire'["client"][i]), IsEcho(wire'["client"][i].item)
      PROVE  stored' # {}
  BY <1>1, <1>5, WireAt DEF Echoed
<1>6. QED
  BY <1>3, <1>4, <1>5 DEF Echoed

\* A gateway that writes goes on with its frame, or ends; a kick is taken up once.
LEMMA GatewayWriting ==
    ASSUME IInv, [Next]_vars
    PROVE  /\ pc["gateway"] = "head" =>
                 \/ pc'["gateway"] \in {"head", "body"} /\ frame'["gateway"] = frame["gateway"]
                 \/ pc'["gateway"] = "leave"
           /\ pc["gateway"] = "body" =>
                 \/ pc'["gateway"] = "body" /\ frame'["gateway"] = frame["gateway"]
                 \/ pc'["gateway"] = "leave"
                 \/ pc'["gateway"] = "idle" /\ ~IsKick(frame["gateway"])
           /\ kicked' = "seen" => kicked = "seen" \/ TakeKick
           /\ kicked = "seen" => kicked' = "seen"
<1> DEFINE Goal ==
           /\ pc["gateway"] = "head" =>
                 \/ pc'["gateway"] \in {"head", "body"} /\ frame'["gateway"] = frame["gateway"]
                 \/ pc'["gateway"] = "leave"
           /\ pc["gateway"] = "body" =>
                 \/ pc'["gateway"] = "body" /\ frame'["gateway"] = frame["gateway"]
                 \/ pc'["gateway"] = "leave"
                 \/ pc'["gateway"] = "idle" /\ ~IsKick(frame["gateway"])
           /\ kicked' = "seen" => kicked = "seen" \/ TakeKick
           /\ kicked = "seen" => kicked' = "seen"
<1>a. /\ "client" \in End /\ "gateway" \in End /\ "client" # "gateway"
      /\ \A e \in End : e = "client" \/ e = "gateway"
      /\ pc \in [End -> Shaking \cup InLoop \cup {"none", "enter", "leave", "left", "over"}]
      /\ frame \in [End -> Items]
  BY Ends DEF IInv, TypeOK
<1>s. ASSUME pc'["gateway"] = pc["gateway"] /\ frame'["gateway"] = frame["gateway"],
             kicked' = "seen" <=> kicked = "seen" PROVE Goal
  BY <1>s
<1>n. ASSUME pc["gateway"] \notin {"head", "body"}, kicked' = kicked PROVE Goal
  BY <1>n
<1>1. CASE Entering
  <2>1. pc'["gateway"] = pc["gateway"] \/ pc["gateway"] \notin {"head", "body"}
    <3>1. CASE Connect
      BY <3>1 DEF Connect, IInv, Versions
    <3>2. CASE ~Connect
      BY <1>a, <1>1, <3>2 DEF Entering, ClientNoise, GatewayNoise, Hello, ClientWelcome, Selection, EnterGroup,
         ClientGroup, Exchange, Goto
    <3>3. QED
      BY <3>1, <3>2
  <2>2. UNCHANGED <<frame, kicked>>
    BY <1>1 DEF Entering, Connect, ClientNoise, GatewayNoise, Hello, ClientWelcome, Selection, EnterGroup,
       ClientGroup, Exchange, gatewayVars
  <2>3. QED
    BY <2>1, <2>2, <1>s, <1>n
<1>2. CASE ClientLoop
  BY <1>a, <1>2, <1>s DEF ClientLoop, ClientReads, ReadsBody, ClientCloses, SendFails, Goto, transport, gatewayVars
<1>3. CASE GatewayLoop
  <2>1. CASE GatewayReads
    BY <2>1, <1>n DEF GatewayReads, ReadsBody
  <2>2. CASE TakeKick
    BY <2>2 DEF TakeKick
  <2>3. CASE Leave
    BY <2>3, <1>n DEF Leave, gatewayVars
  <2>4. QED
    BY <1>3, <2>1, <2>2, <2>3 DEF GatewayLoop
<1>4. CASE UserOrNet
  BY <1>4, <1>s DEF UserOrNet, TakePrivate, Cut, SendChat, CloseChat, SendTimesOut, NewWindow, News, Kick,
       transport, gatewayVars
<1>5. CASE Witness
  BY <1>s, <1>5 DEF Witness, WitnessEnters, WitnessHears, transport, gatewayVars
<1>6. ASSUME NEW e \in End, Timeout(e) PROVE Goal
  <2>1. pc'["gateway"] = pc["gateway"] \/ pc["gateway"] \notin {"head", "body"}
    BY <1>a, <1>6 DEF Timeout, Timed, Shaking, Goto
  <2>2. UNCHANGED <<frame, kicked>>
    BY <1>6 DEF Timeout, gatewayVars
  <2>3. QED
    BY <2>1, <2>2, <1>s, <1>n
<1>7. ASSUME NEW e \in End, Writing(e) PROVE Goal
  <2>0. UNCHANGED kicked
    BY <1>7 DEF Writing, TakeNext, WriteHead, WriteBody, WriteFails, gatewayVars
  <2>1. CASE e = "client"
    BY <1>a, <1>7, <2>0, <2>1, <1>s DEF Writing, TakeNext, WriteHead, WriteBody, WriteFails, Goto
  <2>2. CASE e = "gateway"
    <3>1. CASE TakeNext(e)
      BY <2>0, <2>2, <3>1, <1>n DEF TakeNext
    <3>2. CASE WriteHead(e)
      BY <1>a, <2>0, <2>2, <3>2 DEF WriteHead, Goto
    <3>3. CASE WriteBody(e)
      BY <1>a, <2>0, <2>2, <3>3 DEF WriteBody, AfterKick, IsKick, Goto
    <3>4. CASE WriteFails(e)
      BY <1>a, <2>0, <2>2, <3>4 DEF WriteFails, Stop, Goto
    <3>5. QED
      BY <1>7, <3>1, <3>2, <3>3, <3>4 DEF Writing
  <2>3. QED
    BY <1>a, <2>1, <2>2
<1>8. ASSUME NEW e \in End, Reading(e) PROVE Goal
  <2>1. pc'["gateway"] = pc["gateway"] \/ pc["gateway"] \notin {"head", "body"}
    BY <1>a, <1>8 DEF Reading, ReadHead, ReadStray, ReadFails, Shaking, Goto
  <2>2. UNCHANGED <<frame, kicked>>
    BY <1>8 DEF Reading, ReadHead, ReadStray, ReadFails, gatewayVars
  <2>3. QED
    BY <2>1, <2>2, <1>s, <1>n
<1>9. CASE UNCHANGED vars
  BY <1>s, <1>9 DEF vars, transport, gatewayVars
<1>10. QED
  BY <1>1, <1>2, <1>3, <1>4, <1>5, <1>6, <1>7, <1>8, <1>9 DEF Next

LEMMA KickedStep == IInv /\ [Next]_vars => Kicked'
<1> SUFFICES ASSUME IInv, [Next]_vars PROVE Kicked'
  OBVIOUS
<1>1. /\ TypeOK /\ Kicked /\ "client" \in End /\ "gateway" \in End
      /\ Peer("client") = "gateway" /\ Peer("gateway") = "client" /\ "client" # "gateway"
      /\ pc \in [End -> Shaking \cup InLoop \cup {"none", "enter", "leave", "left", "over"}]
  BY Ends DEF IInv, TypeOK
<1>2. \A n \in Nat : /\ IsKick(Item("kick", n))
                     /\ \A kind \in {"chat", "news", "echo", "error"} : ~IsKick(Item(kind, n))
  BY DEF IsKick, Item
<1>h. \A e \in End : queue[e] # <<>> => Head(queue[e]) = queue[e][1] /\ ~IsKick(Head(queue[e]))
  <2>1. \A e \in End : queue[e] # <<>> => Head(queue[e]) = queue[e][1] /\ 1 \in 1..Len(queue[e])
    BY <1>1, Parcels
  <2>2. QED
    BY <1>1, <2>1 DEF Kicked
<1>3. ~IsKick(frame'["client"])
  BY <1>1, <1>h, FrameSteps, ItemFacts DEF Kicked
<1>4. ASSUME NEW e \in End, NEW i \in 1..Len(queue'[e]) PROVE ~IsKick(queue'[e][i])
  <2>1. sent[e] + 1 \in Nat
    BY <1>1, Parcels
  <2>2. \/ \E j \in 1..Len(queue[e]) : queue'[e][i] = queue[e][j]
        \/ \E kind \in {"chat", "news", "echo", "error"} : queue'[e][i] = Item(kind, sent[e] + 1)
    BY QueueAt
  <2>3. QED
    BY <1>1, <1>2, <2>1, <2>2 DEF Kicked
<1>5. ASSUME NEW i \in 1..Len(wire'["gateway"]), IsItem(wire'["gateway"][i])
      PROVE  ~IsKick(wire'["gateway"][i].item)
  BY <1>1, <1>5, WireAt DEF Kicked
<1>6. kicked' = "seen" =>
          \/ pc'["gateway"] \in Leaving
          \/ pc'["gateway"] \in {"head", "body"} /\ IsKick(frame'["gateway"])
  <2>1. CASE kicked' = "seen" /\ kicked = "seen"
    <3>1. pc["gateway"] \in Leaving \/ (pc["gateway"] \in {"head", "body"} /\ IsKick(frame["gateway"]))
      BY <1>1, <2>1 DEF Kicked
    <3>2. pc["gateway"] \in Leaving => pc'["gateway"] \in Leaving
      BY <1>1, Outside
    <3>3. QED
      BY <3>1, <3>2, GatewayWriting DEF Leaving
  <2>2. CASE TakeKick
    BY <1>1, <1>2, <2>2 DEF TakeKick, TypeOK, Goto
  <2>3. QED
    BY <2>1, <2>2, GatewayWriting
<1>7. IsKick(frame'["gateway"]) => kicked' = "seen"
  <2>1. CASE frame'["gateway"] = frame["gateway"]
    BY <1>1, <2>1, GatewayWriting DEF Kicked
  <2>2. CASE TakeKick
    BY <2>2 DEF TakeKick
  <2>3. CASE frame'["gateway"] = Nothing \/ (frame'["gateway"] = Head(queue["gateway"]) /\ queue["gateway"] # <<>>)
    BY <1>1, <1>h, <2>3, ItemFacts
  <2>4. QED
    BY <1>1, <2>1, <2>2, <2>3, FrameSteps
<1>8. ASSUME NEW i \in 1..Len(wire'["client"]), IsItem(wire'["client"][i]), IsKick(wire'["client"][i].item)
      PROVE  /\ kicked' = "seen" /\ pc'["gateway"] # "head"
             /\ \A k \in i..Len(wire'["client"]) :
                   IsItem(wire'["client"][k]) => IsKick(wire'["client"][k].item)
  <2>1. PICK s \in Seq(Parts) : s = wire["client"] /\ Len(s) \in Nat
    BY <1>1, Parcels
  <2>2. \A j \in 1..Len(s) : IsItem(s[j]) /\ IsKick(s[j].item) =>
            /\ kicked = "seen" /\ pc["gateway"] # "head"
            /\ \A k \in j..Len(s) : IsItem(s[k]) => IsKick(s[k].item)
    BY <1>1, <2>1 DEF Kicked
  \* A kick that was on its way before the step
  <2>3. ASSUME kicked = "seen", pc["gateway"] # "head" PROVE kicked' = "seen" /\ pc'["gateway"] # "head"
    <3>1. pc["gateway"] \in Leaving \/ (pc["gateway"] = "body" /\ IsKick(frame["gateway"]))
      BY <1>1, <2>3 DEF Kicked
    <3>2. pc["gateway"] \in Leaving => pc'["gateway"] \in Leaving
      BY <1>1, Outside
    <3>3. QED
      BY <2>3, <3>1, <3>2, GatewayWriting DEF Leaving
  <2>4. CASE wire'["client"] = s
    BY <1>8, <2>1, <2>2, <2>3, <2>4
  <2>5. CASE s # <<>> /\ wire'["client"] = Tail(s)
    <3>1. /\ Len(Tail(s)) = Len(s) - 1
          /\ \A k \in 1..Len(Tail(s)) : k + 1 \in 1..Len(s) /\ Tail(s)[k] = s[k + 1]
      BY <2>1, <2>5, TailAt
    <3>2. IsItem(s[i + 1]) /\ IsKick(s[i + 1].item) /\ i + 1 \in 1..Len(s)
      BY <1>8, <2>5, <3>1
    <3>3. \A k \in (i + 1)..Len(s) : IsItem(s[k]) => IsKick(s[k].item)
      BY <2>2, <3>2
    <3>4. \A k \in i..Len(Tail(s)) : k \in 1..Len(Tail(s)) /\ k + 1 \in (i + 1)..Len(s)
      BY <2>1, <2>5, <3>1
    <3>5. \A k \in i..Len(Tail(s)) : IsItem(Tail(s)[k]) => IsKick(Tail(s)[k].item)
      BY <3>1, <3>3, <3>4
    <3>6. QED
      BY <2>2, <2>3, <2>5, <3>2, <3>5
  <2>6. ASSUME NEW part \in {"head", "body"}, part = pc["gateway"],
               wire'["client"] = Append(s, [part |-> part, item |-> frame["gateway"]]),
               part = "head" => pc'["gateway"] = "body",
               part = "body" => pc'["gateway"] \in {"idle", "leave"}
        PROVE  /\ kicked' = "seen" /\ pc'["gateway"] # "head"
               /\ \A k \in i..Len(wire'["client"]) :
                     IsItem(wire'["client"][k]) => IsKick(wire'["client"][k].item)
    <3>1. PICK x \in Parts : x = [part |-> part, item |-> frame["gateway"]] /\ x.item = frame["gateway"] /\ IsItem(x)
      BY <1>1, PartFacts, Parcels
    <3>2. /\ Len(Append(s, x)) = Len(s) + 1
          /\ \A k \in 1..Len(Append(s, x)) :
                \/ k \in 1..Len(s) /\ Append(s, x)[k] = s[k]
                \/ k = Len(s) + 1 /\ Append(s, x)[k] = x
      BY AppendAt
    <3>3. CASE i \in 1..Len(s) /\ wire'["client"][i] = s[i]
      <4>1. kicked = "seen" /\ pc["gateway"] # "head" /\ \A k \in i..Len(s) : IsItem(s[k]) => IsKick(s[k].item)
        BY <1>8, <2>2, <3>3
      <4>2. IsKick(frame["gateway"])
        BY <1>1, <2>6, <4>1 DEF Kicked, Leaving
      <4>3. \A k \in i..Len(Append(s, x)) : IsItem(Append(s, x)[k]) => IsKick(Append(s, x)[k].item)
        <5>1. SUFFICES ASSUME NEW k \in i..Len(Append(s, x)), IsItem(Append(s, x)[k])
                       PROVE  IsKick(Append(s, x)[k].item)
          OBVIOUS
        <5>2. k \in 1..Len(Append(s, x)) /\ (k \in 1..Len(s) => k \in i..Len(s))
          BY <2>1, <3>2, <3>3
        <5>3. CASE k \in 1..Len(s) /\ Append(s, x)[k] = s[k]
          BY <4>1, <5>1, <5>2, <5>3
        <5>4. CASE Append(s, x)[k] = x
          BY <3>1, <4>2, <5>4
        <5>5. QED
          BY <3>2, <5>2, <5>3, <5>4
      <4>4. QED
        BY <2>3, <2>6, <3>1, <4>1, <4>3
    <3>4. CASE i = Len(s) + 1 /\ wire'["client"][i] = x
      <4>1. IsKick(frame["gateway"]) /\ kicked = "seen"
        BY <1>1, <1>8, <3>1, <3>4 DEF Kicked
      <4>2. \A k \in i..Len(Append(s, x)) : k = i
        BY <2>1, <3>2, <3>4
      <4>3. pc'["gateway"] # "head" /\ kicked' = "seen"
        BY <2>6, <4>1, GatewayWriting
      <4>4. QED
        BY <1>8, <2>6, <3>1, <4>2, <4>3
    <3>5. QED
      BY <1>8, <2>6, <3>1, <3>2, <3>3, <3>4
  <2>7. CASE WriteHead("gateway") /\ wire'["client"] = Append(s, [part |-> "head", item |-> frame["gateway"]])
    <3>1. pc["gateway"] = "head" /\ pc'["gateway"] = "body"
      BY <1>1, <2>7 DEF WriteHead, Goto
    <3>2. QED
      BY <2>6, <2>7, <3>1
  <2>8. CASE WriteBody("gateway") /\ wire'["client"] = Append(s, [part |-> "body", item |-> frame["gateway"]])
    <3>1. pc["gateway"] = "body" /\ pc'["gateway"] \in {"idle", "leave"}
      BY <1>1, <2>8 DEF WriteBody, AfterKick, Goto
    <3>2. QED
      BY <2>6, <2>8, <3>1
  <2>9. QED
    BY <1>1, <1>8, <2>1, <2>4, <2>5, <2>7, <2>8, WireSteps
<1>9. QED
  BY <1>3, <1>4, <1>5, <1>6, <1>7, <1>8 DEF Kicked

-----------------------------------------------------------------------------
(* Causes *)

\* No answer that ends the handshake is on its way.
Welcomed == \A i \in 1..Len(wire["client"]) : wire["client"][i].part \notin {"pending", "error"}

\* Where nothing has gone wrong, nothing ends.
LEMMA Uncaused ==
    ASSUME IInv, causes = {}
    PROVE  /\ net = "up" /\ ui = "open" /\ kicked = "no" /\ Welcomed
           /\ \A e \in End : pc[e] \notin Leaving /\ got[e] # "astray" /\ ~Over(e) /\ ~IsKick(frame[e])
           /\ \A e \in End : ~Broken(e)
<1>1. /\ net = "up" /\ ui = "open" /\ kicked = "no" /\ Welcomed
      /\ \A e \in End : pc[e] \notin Leaving /\ got[e] # "astray" /\ ~Over(e)
  BY DEF IInv, EndsForACause, Caused, Welcomed, Leaving, Over
<1>2. \A e \in End : ~IsKick(frame[e])
  BY <1>1, Ends DEF IInv, Kicked
<1>3. \A e \in End : ~Broken(e)
  BY <1>1 DEF Broken
<1>4. QED
  BY <1>1, <1>2, <1>3

\* What the client is told without a cause is no refusal.
LEMMA WelcomedStep ==
    ASSUME IInv, [Next]_vars, causes' = {}
    PROVE  Welcomed'
<1>1. /\ TypeOK /\ AnyStage /\ Welcomed /\ causes = {}
      /\ "client" \in End /\ "gateway" \in End /\ Peer("client") = "gateway" /\ Peer("gateway") = "client"
  BY Growing, Uncaused, Ends DEF IInv, AnyStage
<1>2. PICK s \in Seq(Parts) : s = wire["client"]
  BY <1>1, Parcels
<1>3. CASE wire'["client"] = s
  BY <1>1, <1>2, <1>3 DEF Welcomed
<1>4. CASE s # <<>> /\ wire'["client"] = Tail(s)
  <2>1. \A i \in 1..Len(Tail(s)) : i + 1 \in 1..Len(s) /\ Tail(s)[i] = s[i + 1]
    BY <1>4, TailAt
  <2>2. QED
    BY <1>1, <1>2, <1>4, <2>1 DEF Welcomed
<1>5. ASSUME NEW part \in {"head", "body"}, NEW item \in Items,
             wire'["client"] = Append(s, [part |-> part, item |-> item])
      PROVE  Welcomed'
  <2>1. PICK x \in Parts : x = [part |-> part, item |-> item] /\ x.part = part
    BY PartFacts
  <2>2. \A i \in 1..Len(Append(s, x)) :
            \/ i \in 1..Len(s) /\ Append(s, x)[i] = s[i]
            \/ Append(s, x)[i] = x
    BY AppendAt
  <2>3. QED
    BY <1>1, <1>2, <1>5, <2>1, <2>2 DEF Welcomed
<1>6. ASSUME NEW k \in Handshake \ {"pending", "error"}, wire'["client"] = Saying(k) PROVE Welcomed'
  <2>1. Len(Saying(k)) = 1 /\ Saying(k)[1].part = k
    BY SayingFacts, PartFacts
  <2>2. QED
    BY <1>6, <2>1 DEF Welcomed
<1>h. /\ "noise2" \in Handshake /\ "noise3" \in Handshake /\ "hello" \in Handshake /\ "noise1" \in Handshake
      /\ "welcome" \in Handshake /\ "group" \in Handshake /\ "selection" \in Handshake
  BY DEF Handshake
<1>n. causes' # causes \cup {"named"} /\ causes' # causes \cup {"store"}
  BY <1>1
\* e has read a message of the handshake and not answered it.
<1>r. ASSUME NEW e \in End, NEW expected, NEW to, Exchange(e, expected, <<>>, to) PROVE Welcomed'
  <2>1. Passed(e, to, wire[Peer(e)]) /\ wire[e] # <<>>
    BY <1>1, <1>r, ExchangedNone
  <2>2. (wire'["client"] = Tail(s) /\ s # <<>>) \/ wire'["client"] = s
    BY <1>1, <1>2, <2>1, Ends DEF Passed
  <2>3. QED
    BY <1>3, <1>4, <2>2
<1>7. CASE Entering
  <2>1. CASE Connect \/ ClientNoise \/ ClientWelcome
    <3>1. wire'["client"] = s \/ (s # <<>> /\ wire'["client"] = Tail(s))
      <4>1. CASE Connect
        BY <1>1, <1>2, <4>1, Ends DEF Connect, TypeOK
      <4>2. ASSUME NEW expected, NEW answer, NEW to, Exchange("client", expected, answer, to)
            PROVE  s # <<>> /\ wire'["client"] = Tail(s)
        BY <1>1, <1>2, <4>2, Ends DEF Exchange, TypeOK
      <4>3. QED
        BY <2>1, <4>1, <4>2 DEF ClientNoise, ClientWelcome
    <3>2. QED
      BY <1>3, <1>4, <3>1
  <2>2. CASE GatewayNoise
    <3>1. CASE pc["gateway"] = "noise" /\ Exchange("gateway", "noise1", <<"noise2">>, "noise3")
      <4>1. wire["client"] = <<>>
        BY <1>1, <3>1, Stages DEF AnyStage, At
      <4>2. Passed("gateway", "noise3", Saying("noise2"))
        BY <1>1, <1>h, <3>1, <4>1, ExchangedOne
      <4>3. QED
        BY <1>1, <1>6, <1>h, <4>2 DEF Passed
    <3>2. CASE Exchange("gateway", "noise3", <<>>, "hello")
      BY <1>1, <1>r, <3>2
    <3>3. QED
      BY <2>2, <3>1, <3>2 DEF GatewayNoise
  <2>3. CASE Hello
    <3>1. Exchange("gateway", "hello", <<"welcome">>, "select")
      BY <1>n, <2>3 DEF Hello, Because
    <3>2. wire["client"] = <<>>
      BY <1>1, <2>3, <3>1, Stages DEF AnyStage, At, Hello, Exchange
    <3>3. Passed("gateway", "select", Saying("welcome"))
      BY <1>1, <1>h, <3>1, <3>2, ExchangedOne
    <3>4. QED
      BY <1>1, <1>6, <1>h, <3>3 DEF Passed
  <2>4. CASE Selection
    <3>1. Exchange("gateway", "selection", <<>>, "enter")
      BY <1>n, <2>4 DEF Selection, Because
    <3>2. QED
      BY <1>1, <1>r, <3>1
  <2>5. CASE EnterGroup
    <3>1. wire["client"] = <<>>
      BY <1>1, <2>5, Stages DEF AnyStage, At, EnterGroup
    <3>2. wire'["client"] = Append(<<>>, [part |-> "group"])
      BY <1>1, <1>n, <2>5, <3>1 DEF EnterGroup, Because, TypeOK
    <3>3. Append(<<>>, [part |-> "group"]) = Saying("group")
      BY DEF Saying
    <3>4. QED
      BY <1>6, <1>h, <3>2, <3>3
  <2>6. CASE ClientGroup
    <3>1. \E k \in {"group", "pending", "error"}, to \in {"idle", "over"} : Exchange("client", k, <<>>, to)
      BY <2>6 DEF ClientGroup
    <3>2. QED
      BY <1>1, <1>r, <3>1
  <2>7. QED
    BY <1>7, <2>1, <2>2, <2>3, <2>4, <2>5, <2>6 DEF Entering
<1>8. CASE ~Entering
  <2>1. Conveys \/ wire' = wire
    <3>1. CASE ClientLoop
      BY <1>1, <3>1 DEF ClientLoop, ClientReads, ReadsBody, ClientCloses, SendFails, transport, Conveys, Takes
    <3>2. CASE GatewayLoop
      BY <1>1, <3>2 DEF GatewayLoop, GatewayReads, ReadsBody, TakeKick, Leave, Conveys, Takes
    <3>3. CASE UserOrNet
      BY <3>3 DEF UserOrNet, TakePrivate, Cut, SendChat, CloseChat, SendTimesOut, NewWindow, News, Kick, transport
    <3>4. CASE Witness
      BY <3>4 DEF Witness, WitnessEnters, WitnessHears, transport
    <3>5. ASSUME NEW e \in End, Timeout(e) \/ Writing(e) \/ Reading(e) PROVE Conveys \/ wire' = wire
      <4>0. Peer(e) \in End /\ frame[e] \in Items
        BY <1>1, Ends, Parcels
      <4>1. CASE WriteHead(e)
        <5>1. Gets(Peer(e), "head", frame[e])
          BY <4>1 DEF WriteHead, Put, Gets
        <5>2. QED
          BY <4>0, <5>1 DEF Conveys
      <4>2. CASE WriteBody(e)
        <5>1. Gets(Peer(e), "body", frame[e])
          BY <4>2 DEF WriteBody, Put, Gets
        <5>2. QED
          BY <4>0, <5>1 DEF Conveys
      <4>3. CASE ReadHead(e) \/ ReadStray(e)
        BY <4>3 DEF ReadHead, ReadStray, Conveys, Takes
      <4>4. CASE Timeout(e) \/ TakeNext(e) \/ WriteFails(e) \/ ReadFails(e)
        BY <4>4 DEF Timeout, TakeNext, WriteFails, ReadFails
      <4>5. QED
        BY <3>5, <4>1, <4>2, <4>3, <4>4 DEF Writing, Reading
    <3>6. CASE UNCHANGED vars
      BY <3>6 DEF vars, transport
    <3>7. QED
      BY <1>8, <3>1, <3>2, <3>3, <3>4, <3>5, <3>6 DEF Next
  <2>2. ASSUME NEW e \in End, Takes(e) PROVE Welcomed'
    <3>1. wire'["client"] = s \/ (s # <<>> /\ wire'["client"] = Tail(s))
      BY <1>1, <1>2, <2>2, Ends DEF Takes, TypeOK
    <3>2. QED
      BY <1>3, <1>4, <3>1
  <2>3. ASSUME NEW e \in End, NEW part \in {"head", "body"}, NEW item \in Items, Gets(e, part, item) PROVE Welcomed'
    <3>1. wire'["client"] = s \/ wire'["client"] = Append(s, [part |-> part, item |-> item])
      BY <1>1, <1>2, <2>3, Ends DEF Gets, TypeOK
    <3>2. QED
      BY <1>3, <1>5, <3>1
  <2>4. QED
    BY <1>2, <1>3, <2>1, <2>2, <2>3 DEF Conveys
<1>9. QED
  BY <1>7, <1>8

\* Nothing ends a connection without a cause, and what has gone wrong is a cause.
LEMMA CausesStep == IInv /\ [Next]_vars => EndsForACause' /\ Caused'
<1> SUFFICES ASSUME IInv, [Next]_vars, causes' = {}
             PROVE  /\ \A e \in End : pc'[e] \notin Leaving /\ got'[e] # "astray"
                    /\ net' = "up" /\ ui' = "open" /\ kicked' = "no"
  BY WelcomedStep DEF EndsForACause, Caused, Welcomed, Leaving
<1> DEFINE Goal ==
      /\ \A e \in End : pc'[e] \notin Leaving /\ got'[e] # "astray"
      /\ net' = "up" /\ ui' = "open" /\ kicked' = "no"
<1>1. /\ causes = {} /\ net = "up" /\ ui = "open" /\ kicked = "no" /\ Welcomed
      /\ \A e \in End : pc[e] \notin Leaving /\ got[e] # "astray" /\ ~Over(e) /\ ~IsKick(frame[e])
      /\ \A e \in End : ~Broken(e) /\ Peer(e) \in End
  BY Growing, Uncaused, Ends
<1>2. /\ pc \in [End -> Shaking \cup InLoop \cup {"none", "enter", "leave", "left", "over"}]
      /\ got \in [End -> {"start", "head", "astray"}] /\ TypeOK /\ AnyStage
      /\ "client" \in End /\ "gateway" \in End /\ \A e \in End : e = "client" \/ e = "gateway"
  BY Ends DEF IInv, TypeOK, AnyStage
<1>3. \A c \in Causes : causes' # causes \cup {c}
  OBVIOUS
<1>4. "named" \in Causes /\ "store" \in Causes /\ "rate" \in Causes
  BY DEF Causes
<1>s. ASSUME UNCHANGED <<pc, got, net, ui, kicked>> PROVE Goal
  BY <1>1, <1>s
<1>m. ASSUME NEW e \in End, NEW to, to \notin Leaving, pc' = [pc EXCEPT ![e] = to], UNCHANGED <<got, net, ui, kicked>>
      PROVE  Goal
  BY <1>1, <1>2, <1>m
\* e takes another branch, without losing what it has read.
<1>b. ASSUME NEW e \in End, Branch(e) PROVE \A f \in End : got'[f] # "astray"
  BY <1>1, <1>2, <1>b DEF Branch, AfterBranch
<1>5. CASE Entering
  <2>1. UNCHANGED <<got, net, ui, kicked>>
    BY <1>5 DEF Entering, Connect, ClientNoise, GatewayNoise, Hello, ClientWelcome, Selection, EnterGroup,
       ClientGroup, Exchange, clientVars, gatewayVars
  <2>r. ASSUME NEW k \in {"pending", "error"}, wire["client"] # <<>>, Head(wire["client"]) = [part |-> k] PROVE FALSE
    <3>1. Head(wire["client"]) = wire["client"][1] /\ 1 \in 1..Len(wire["client"])
      BY <1>2, <2>r, Parcels
    <3>2. [part |-> k].part = k
      OBVIOUS
    <3>3. QED
      BY <1>1, <2>r, <3>1, <3>2 DEF Welcomed
  <2>2. CASE Connect
    <3>1. pc' = [e \in End |-> "noise"]
      BY <1>3, <1>4, <2>2 DEF Connect, Because
    <3>2. QED
      BY <1>1, <2>1, <3>1 DEF Leaving
  <2>3. CASE ~Connect
    <3>1. \E e \in End, to \in Shaking \cup {"enter", "idle"} : pc' = [pc EXCEPT ![e] = to]
      <4>1. CASE ClientNoise
        BY <1>2, <1>3, <1>4, <4>1 DEF ClientNoise, Exchange, Goto, Because, Shaking
      <4>2. CASE GatewayNoise
        BY <1>2, <1>3, <1>4, <4>2 DEF GatewayNoise, Exchange, Goto, Because, Shaking
      <4>3. CASE Hello
        BY <1>2, <1>3, <1>4, <4>3 DEF Hello, Exchange, Goto, Because, Shaking
      <4>4. CASE ClientWelcome
        <5>1. ~Exchange("client", "error", <<>>, "over")
          BY <2>r DEF Exchange
        <5>2. Exchange("client", "welcome", <<"selection">>, "select")
          BY <1>3, <1>4, <4>4, <5>1 DEF ClientWelcome, Because
        <5>3. QED
          BY <1>2, <5>2 DEF Exchange, Goto, Shaking
      <4>5. CASE Selection
        BY <1>2, <1>3, <1>4, <4>5 DEF Selection, Exchange, Goto, Because, Shaking
      <4>6. CASE EnterGroup
        BY <1>2, <1>3, <1>4, <4>6 DEF EnterGroup, Goto, Because
      <4>7. CASE ClientGroup
        <5>1. ~Exchange("client", "error", <<>>, "over") /\ ~Exchange("client", "pending", <<>>, "over")
          BY <2>r DEF Exchange
        <5>2. Exchange("client", "group", <<>>, "idle")
          BY <4>7, <5>1 DEF ClientGroup
        <5>3. QED
          BY <1>2, <5>2 DEF Exchange, Goto
      <4>8. QED
        BY <1>5, <2>3, <4>1, <4>2, <4>3, <4>4, <4>5, <4>6, <4>7 DEF Entering
    <3>2. QED
      BY <1>m, <2>1, <3>1 DEF Shaking, Leaving
  <2>4. QED
    BY <2>2, <2>3
<1>6. CASE ClientLoop
  <2>1. CASE ClientReads
    <3>1. ui' = "open"
      BY <1>2, <1>4, <2>1 DEF ClientReads, TypeOK, Reports
    <3>2. UNCHANGED <<pc, net, kicked>> /\ got' = [got EXCEPT !["client"] = "start"]
      BY <1>1, <2>1 DEF ClientReads, ReadsBody, gatewayVars
    <3>3. QED
      BY <1>1, <1>2, <3>1, <3>2
  <2>2. CASE ClientCloses
    BY <1>1, <2>2 DEF ClientCloses
  <2>3. CASE SendFails
    BY <1>1, <1>2, <2>3 DEF SendFails
  <2>4. QED
    BY <1>6, <2>1, <2>2, <2>3 DEF ClientLoop
<1>7. CASE GatewayLoop
  <2>1. CASE GatewayReads
    <3>1. UNCHANGED <<pc, net, kicked, ui>> /\ got' = [got EXCEPT !["gateway"] = "start"]
      BY <1>3, <1>4, <2>1 DEF GatewayReads, ReadsBody, clientVars, Because
    <3>2. QED
      BY <1>1, <1>2, <3>1
  <2>2. CASE TakeKick
    BY <1>1, <2>2 DEF TakeKick
  <2>3. CASE Leave
    BY <1>1, <1>2, <2>3 DEF Leave, Leaving
  <2>4. QED
    BY <1>7, <2>1, <2>2, <2>3 DEF GatewayLoop
<1>8. CASE UserOrNet
  <2>1. CASE TakePrivate
    BY <1>1, <1>2, <1>b, <2>1 DEF TakePrivate, clientVars, gatewayVars
  <2>2. CASE SendChat \/ NewWindow \/ News
    BY <1>s, <2>2 DEF SendChat, NewWindow, News, clientVars, transport, gatewayVars
  <2>3. CASE Cut \/ CloseChat \/ SendTimesOut \/ Kick
    BY <1>3, <1>4, <2>3 DEF Cut, CloseChat, SendTimesOut, Kick, Because
  <2>4. QED
    BY <1>8, <2>1, <2>2, <2>3 DEF UserOrNet
<1>9. CASE Witness
  BY <1>s, <1>9 DEF Witness, WitnessEnters, WitnessHears, clientVars, transport, gatewayVars
<1>10. ASSUME NEW e \in End, Timeout(e) PROVE Goal
  BY <1>3, <1>4, <1>10 DEF Timeout, Because
<1>11. ASSUME NEW e \in End, Writing(e) PROVE Goal
  <2>0. UNCHANGED <<net, ui, kicked>>
    BY <1>11 DEF Writing, TakeNext, WriteHead, WriteBody, WriteFails, clientVars, gatewayVars
  <2>1. CASE TakeNext(e)
    <3>1. pc' = [pc EXCEPT ![e] = "head"] /\ \A f \in End : got'[f] # "astray"
      BY <1>b, <2>1 DEF TakeNext, Goto
    <3>2. QED
      BY <1>1, <1>2, <2>0, <3>1 DEF Leaving
  <2>2. CASE WriteHead(e)
    BY <1>m, <2>0, <2>2 DEF WriteHead, Goto, Leaving
  <2>3. CASE WriteBody(e)
    <3>1. pc' = [pc EXCEPT ![e] = "idle"] /\ UNCHANGED got
      BY <1>1, <2>3 DEF WriteBody, IsKick, Goto
    <3>2. QED
      BY <1>m, <2>0, <3>1 DEF Leaving
  <2>4. CASE WriteFails(e)
    BY <1>1, <2>4 DEF WriteFails
  <2>5. QED
    BY <1>11, <2>1, <2>2, <2>3, <2>4 DEF Writing
<1>12. ASSUME NEW e \in End, Reading(e) PROVE Goal
  <2>1. CASE ReadHead(e)
    BY <1>1, <1>2, <2>1 DEF ReadHead, clientVars, gatewayVars
  <2>2. CASE ReadStray(e) \/ ReadFails(e)
    BY <1>1, <2>2 DEF ReadStray, ReadFails
  <2>3. QED
    BY <1>12, <2>1, <2>2 DEF Reading
<1>13. CASE UNCHANGED vars
  BY <1>s, <1>13 DEF vars, clientVars, transport, gatewayVars
<1>14. QED
  BY <1>5, <1>6, <1>7, <1>8, <1>9, <1>10, <1>11, <1>12, <1>13 DEF Next

\* What send_message reports
LEMMA ReportedStep == IInv /\ [Next]_vars => Reported'
<1> SUFFICES ASSUME IInv, [Next]_vars PROVE Reported'
  OBVIOUS
<1>1. /\ TypeOK /\ AnyStage /\ Reported /\ Versions /\ EndsForACause /\ "client" \in End
      /\ scenario' = scenario /\ (stored # {} => stored' # {}) /\ (causes # {} => causes' # {})
      /\ scenario.user \in {"inspect", "chat", "send"}
  BY Growing, VersionsStep, Ends, LinkAssumption DEF IInv, AnyStage, TypeOK
<1>s. ASSUME UNCHANGED outcome, ui = "closed" => ui' = "closed" PROVE Reported'
  BY <1>1, <1>s DEF Reported
<1>2. CASE ClientReads
  <2>1. CASE UNCHANGED outcome
    BY <1>s, <1>2, <2>1 DEF ClientReads, Reports
  <2>2. CASE ~UNCHANGED outcome
    <3>1. PICK item : item = Head(wire["client"]).item
      OBVIOUS
    <3>2. /\ Reports(item) /\ ui # "closed" /\ ~Waits(item) /\ ui' = "closed"
          /\ outcome' = (IF IsEcho(item) THEN "delivered" ELSE "failed")
      BY <1>2, <2>2, <3>1 DEF ClientReads, Reports
    <3>3. scenario.user = "send"
      BY <1>1, <1>2, <3>2 DEF ClientReads, ReadsBody, Waits, Versions, InLoop
    <3>4. causes' # {}
      BY <1>2, <3>2 DEF ClientReads
    <3>5. IsEcho(item) => stored # {}
      <4>1. InRoom /\ ReadsBody("client")
        BY <1>1, <1>2, LoopInRoom DEF ClientReads, ReadsBody, InLoop
      <4>2. IsItem(wire["client"][1]) /\ item = wire["client"][1].item
        BY <1>1, <3>1, <4>1, BodyType
      <4>3. wire["client"] \in Seq(Parts) /\ wire["client"] # <<>>
        BY <1>1, <4>1, Parcels DEF ReadsBody
      <4>4. 1 \in 1..Len(wire["client"])
        BY <4>3
      <4>5. QED
        BY <4>2, <4>4 DEF IInv, Echoed
    <3>6. QED
      BY <1>1, <3>2, <3>3, <3>4, <3>5 DEF Reported
  <2>3. QED
    BY <2>1, <2>2
<1>3. CASE SendFails
  <2>1. causes # {}
    BY <1>1, <1>3 DEF SendFails, EndsForACause, Over
  <2>2. QED
    BY <1>1, <1>3, <2>1 DEF SendFails, Reported
<1>4. CASE SendTimesOut
  BY <1>4 DEF SendTimesOut, Because, Reported
<1>5. CASE CloseChat
  BY <1>s, <1>5 DEF CloseChat
<1>6. CASE UNCHANGED <<outcome, ui>>
  BY <1>s, <1>6
<1>7. QED
  <2>1. CASE Entering
    BY <1>6, <2>1 DEF Entering, Connect, ClientNoise, GatewayNoise, Hello, ClientWelcome, Selection, EnterGroup,
       ClientGroup, clientVars
  <2>2. CASE ClientLoop
    BY <1>2, <1>3, <1>6, <2>2 DEF ClientLoop, ClientCloses, clientVars
  <2>3. CASE GatewayLoop
    BY <1>6, <2>3 DEF GatewayLoop, GatewayReads, TakeKick, Leave, clientVars
  <2>4. CASE UserOrNet
    BY <1>4, <1>5, <1>6, <2>4 DEF UserOrNet, TakePrivate, Cut, SendChat, NewWindow, News, Kick, clientVars
  <2>5. CASE Witness
    BY <1>6, <2>5 DEF Witness, WitnessEnters, WitnessHears, clientVars
  <2>6. ASSUME NEW e \in End, Timeout(e) \/ Writing(e) \/ Reading(e) PROVE Reported'
    BY <1>6, <2>6 DEF Timeout, Writing, TakeNext, WriteHead, WriteBody, WriteFails, Reading, ReadHead, ReadStray,
       ReadFails, clientVars
  <2>7. CASE UNCHANGED vars
    BY <1>6, <2>7 DEF vars, clientVars
  <2>8. QED
    BY <2>1, <2>2, <2>3, <2>4, <2>5, <2>6, <2>7 DEF Next

-----------------------------------------------------------------------------
(* The limiter, and the other session *)

\* The gateway counts the messages over the limit, and ends at the last of them.
LEMMA CountedStep == IInv /\ [Next]_vars => Counted' /\ RateEndsRunaways'
<1> SUFFICES ASSUME IInv, [Next]_vars PROVE Counted' /\ RateEndsRunaways'
  OBVIOUS
<1>1. /\ TypeOK /\ Counted /\ RateEndsRunaways /\ "gateway" \in End
      /\ pc["gateway"] \in Leaving => pc'["gateway"] \in Leaving
      /\ overs \in Seq(BOOLEAN) /\ Len(overs) \in Nat
      /\ MaxStrikes \in Nat /\ MaxStrikes > 0 /\ strikes \in 0..MaxStrikes
      /\ pc \in [End -> Shaking \cup InLoop \cup {"none", "enter", "leave", "left", "over"}]
  BY Outside, Ends, LinkAssumption DEF IInv, TypeOK
<1>s. ASSUME UNCHANGED <<strikes, overs>>, "rate" \in causes' => "rate" \in causes
      PROVE  Counted' /\ RateEndsRunaways'
  <2>1. Counted'
    BY <1>1, <1>s DEF Counted
  <2>2. RateEndsRunaways'
    BY <1>1, <1>s DEF RateEndsRunaways
  <2>3. QED
    BY <2>1, <2>2
<1>2. CASE GatewayReads
  <2>1. /\ pc["gateway"] = "idle" /\ pc["gateway"] \notin Leaving /\ strikes < MaxStrikes /\ "rate" \notin causes
    BY <1>1, <1>2 DEF GatewayReads, ReadsBody, Counted, Leaving
  <2>2. CASE used < scenario.limit
    <3>1. overs' = Append(IF Len(overs) < MaxStrikes THEN overs ELSE Tail(overs), FALSE) /\ strikes' = 0
      BY <1>2, <2>2 DEF GatewayReads, Forgiven
    <3>2. "rate" \notin causes'
      BY <1>2, <2>1, <2>2 DEF GatewayReads, Post, Because
    <3>3. PICK before \in Seq(BOOLEAN) :
              before = (IF Len(overs) < MaxStrikes THEN overs ELSE Tail(overs)) /\ Len(before) < MaxStrikes
      <4>1. CASE Len(overs) < MaxStrikes
        BY <1>1, <4>1
      <4>2. CASE ~(Len(overs) < MaxStrikes)
        <5>1. overs # <<>> /\ Len(overs) = MaxStrikes
          BY <1>1, <4>2 DEF Counted
        <5>2. Tail(overs) \in Seq(BOOLEAN) /\ Len(Tail(overs)) < MaxStrikes
          BY <1>1, <5>1, TailAt
        <5>3. QED
          BY <4>2, <5>2
      <4>3. QED
        BY <4>1, <4>2
    <3>4. overs' = Append(before, FALSE)
      BY <3>1, <3>3
    <3>5. Len(overs') <= MaxStrikes /\ Len(overs') \in Nat
      BY <1>1, <3>3, <3>4
    <3>6. \A i \in 1..Len(overs') : ~(Len(overs') - strikes' < i)
      BY <3>1, <3>5
    <3>7. strikes' <= Len(overs') /\ strikes' # MaxStrikes
      BY <1>1, <3>1, <3>5
    <3>8. QED
      BY <3>2, <3>5, <3>6, <3>7 DEF Counted, RateEndsRunaways
  <2>3. CASE ~(used < scenario.limit)
    <3>1. /\ overs' = Append(IF Len(overs) < MaxStrikes THEN overs ELSE Tail(overs), TRUE)
          /\ strikes' = strikes + 1
      BY <1>2, <2>3 DEF GatewayReads
    <3>2. IF strikes' >= MaxStrikes THEN pc'["gateway"] = "leave"
          ELSE "rate" \notin causes'
      BY <1>1, <1>2, <2>1, <2>3 DEF GatewayReads, Post, Because, Goto
    <3>t. PICK t \in BOOLEAN : t = TRUE
      OBVIOUS
    <3>3. /\ overs' \in Seq(BOOLEAN) /\ Len(overs') \in Nat /\ Len(overs') <= MaxStrikes /\ strikes' <= Len(overs')
          /\ \A i \in 1..Len(overs') : Len(overs') - strikes' < i => overs'[i] = TRUE
      <4>1. CASE Len(overs) < MaxStrikes
        <5>1. overs' = Append(overs, t)
          BY <3>1, <3>t, <4>1
        <5>2. /\ Len(overs') = Len(overs) + 1 /\ overs' \in Seq(BOOLEAN)
              /\ \A i \in 1..Len(overs') :
                    \/ i \in 1..Len(overs) /\ overs'[i] = overs[i]
                    \/ i = Len(overs) + 1 /\ overs'[i] = t
          BY <1>1, <5>1, AppendAt
        <5>3. /\ strikes <= Len(overs)
              /\ \A i \in 1..Len(overs) : Len(overs) - strikes < i => overs[i] = TRUE
          BY <1>1 DEF Counted
        <5>4. ASSUME NEW i \in 1..Len(overs'), Len(overs') - strikes' < i PROVE overs'[i] = TRUE
          <6>1. CASE i \in 1..Len(overs) /\ overs'[i] = overs[i]
            BY <1>1, <3>1, <5>2, <5>3, <5>4, <6>1
          <6>2. CASE overs'[i] = t
            BY <3>t, <6>2
          <6>3. QED
            BY <5>2, <6>1, <6>2
        <5>5. /\ overs' \in Seq(BOOLEAN) /\ Len(overs') \in Nat /\ Len(overs') <= MaxStrikes
              /\ strikes' <= Len(overs')
          BY <1>1, <2>1, <3>1, <4>1, <5>2, <5>3
        <5>6. QED
          BY <5>4, <5>5
      <4>2. CASE ~(Len(overs) < MaxStrikes)
        <5>a. overs # <<>> /\ Len(overs) = MaxStrikes
          BY <1>1, <4>2 DEF Counted
        <5>b. overs' = Append(Tail(overs), TRUE)
          BY <3>1, <4>2
        <5>1. overs # <<>> /\ Len(overs) = MaxStrikes /\ overs' = Append(Tail(overs), t)
          BY <3>t, <5>a, <5>b
        <5>2. /\ Tail(overs) \in Seq(BOOLEAN) /\ Len(Tail(overs)) = MaxStrikes - 1
              /\ \A i \in 1..Len(Tail(overs)) : i + 1 \in 1..Len(overs) /\ Tail(overs)[i] = overs[i + 1]
          BY <1>1, <5>1, TailAt
        <5>3. /\ Len(overs') = MaxStrikes /\ overs' \in Seq(BOOLEAN)
              /\ \A i \in 1..Len(overs') :
                    \/ i \in 1..Len(Tail(overs)) /\ overs'[i] = Tail(overs)[i]
                    \/ i = Len(Tail(overs)) + 1 /\ overs'[i] = t
          BY <1>1, <5>1, <5>2, AppendAt
        <5>4. \A i \in 1..Len(overs) : Len(overs) - strikes < i => overs[i] = TRUE
          BY <1>1 DEF Counted
        <5>5. ASSUME NEW i \in 1..Len(overs'), Len(overs') - strikes' < i PROVE overs'[i] = TRUE
          <6>1. CASE i \in 1..Len(Tail(overs)) /\ overs'[i] = Tail(overs)[i]
            <7>1. i + 1 \in 1..Len(overs) /\ overs'[i] = overs[i + 1]
              BY <5>2, <6>1
            <7>2. Len(overs) - strikes < i + 1
              BY <1>1, <3>1, <5>1, <5>3, <5>5
            <7>3. QED
              BY <5>4, <7>1, <7>2
          <6>2. CASE overs'[i] = t
            BY <3>t, <6>2
          <6>3. QED
            BY <5>3, <6>1, <6>2
        <5>6. /\ overs' \in Seq(BOOLEAN) /\ Len(overs') \in Nat /\ Len(overs') <= MaxStrikes
              /\ strikes' <= Len(overs')
          BY <1>1, <2>1, <3>1, <5>3
        <5>7. QED
          BY <5>5, <5>6
      <4>3. QED
        BY <4>1, <4>2
    <3>4. Counted'
      BY <1>1, <2>1, <3>1, <3>2, <3>3 DEF Counted, Leaving
    <3>5. RateEndsRunaways'
      <4>1. SUFFICES ASSUME strikes' >= MaxStrikes PROVE overs' = [i \in 1..MaxStrikes |-> TRUE]
        BY <3>2 DEF RateEndsRunaways
      <4>2. Len(overs') = MaxStrikes /\ strikes' = MaxStrikes
        BY <1>1, <2>1, <3>1, <3>3, <4>1
      <4>3. \A i \in 1..MaxStrikes : overs'[i] = TRUE
        BY <1>1, <3>3, <4>2
      <4>4. overs' \in [1..MaxStrikes -> BOOLEAN]
        BY <3>3, <4>2
      <4>5. QED
        BY <4>3, <4>4
    <3>6. QED
      BY <3>4, <3>5
  <2>4. QED
    BY <2>2, <2>3
<1>3. CASE ~GatewayReads
  <2>1. "rate" \in causes' => "rate" \in causes
    <3>1. CASE Entering
      BY <3>1 DEF Entering, Connect, ClientNoise, GatewayNoise, Hello, ClientWelcome, Selection, EnterGroup, ClientGroup,
           Because
    <3>2. CASE ClientLoop
      BY <3>2 DEF ClientLoop, ClientReads, ClientCloses, SendFails
    <3>3. CASE GatewayLoop
      BY <1>3, <3>3 DEF GatewayLoop, TakeKick, Branch, Leave, Farewell, Remove, Tell
    <3>4. CASE UserOrNet
      BY <3>4 DEF UserOrNet, TakePrivate, Branch, Cut, SendChat, CloseChat, SendTimesOut, NewWindow, News, Post, Kick,
           Because
    <3>5. CASE Witness
      BY <3>5 DEF Witness, WitnessEnters, WitnessHears
    <3>6. ASSUME NEW e \in End, Timeout(e) \/ Writing(e) \/ Reading(e) PROVE "rate" \in causes' => "rate" \in causes
      BY <3>6 DEF Timeout, Because, Writing, TakeNext, Branch, WriteHead, WriteBody, WriteFails, Reading, ReadHead,
           ReadStray, ReadFails
    <3>7. CASE UNCHANGED vars
      BY <3>7 DEF vars
    <3>8. QED
      BY <3>1, <3>2, <3>3, <3>4, <3>5, <3>6, <3>7 DEF Next
  <2>2. UNCHANGED <<strikes, overs>>
    <3>1. CASE Entering
      BY <3>1 DEF Entering, Connect, ClientNoise, GatewayNoise, Hello, ClientWelcome, Selection, EnterGroup, ClientGroup,
           gatewayVars
    <3>2. CASE ClientLoop
      BY <3>2 DEF ClientLoop, ClientReads, ClientCloses, SendFails, gatewayVars
    <3>3. CASE GatewayLoop
      BY <1>3, <3>3 DEF GatewayLoop, TakeKick, Leave, gatewayVars
    <3>4. CASE UserOrNet
      BY <3>4 DEF UserOrNet, TakePrivate, Cut, SendChat, CloseChat, SendTimesOut, NewWindow, News, Kick, gatewayVars
    <3>5. CASE Witness
      BY <3>5 DEF Witness, WitnessEnters, WitnessHears, gatewayVars
    <3>6. ASSUME NEW e \in End, Timeout(e) \/ Writing(e) \/ Reading(e) PROVE UNCHANGED <<strikes, overs>>
      BY <3>6 DEF Timeout, Writing, TakeNext, WriteHead, WriteBody, WriteFails, Reading, ReadHead,
           ReadStray, ReadFails, gatewayVars
    <3>7. CASE UNCHANGED vars
      BY <3>7 DEF vars, gatewayVars
    <3>8. QED
      BY <3>1, <3>2, <3>3, <3>4, <3>5, <3>6, <3>7 DEF Next
  <2>3. QED
    BY <1>s, <2>1, <2>2
<1>4. QED
  BY <1>2, <1>3

\* The other session will show what it was told last.
LEMMA Tells ==
    ASSUME TypeOK, NEW event \in {"joined", "left"}, witness.here, ~MissesIt, told' = Told(event), witness' = witness
    PROVE  WillSee' <=> event = "joined"
<1>1. told' = Append(told, event) /\ told \in Seq({"joined", "left"})
  BY ToldType DEF TypeOK
<1>2. told' # <<>> /\ told'[Len(told')] = event
  BY <1>1
<1>3. QED
  BY <1>2 DEF WillSee

\* What the rest of a step may do to the roster
LEMMA ListedStep == IInv /\ [Next]_vars => Listed'
<1> SUFFICES ASSUME IInv, [Next]_vars PROVE Listed'
  OBVIOUS
<1>1. /\ TypeOK /\ Listed /\ causes \subseteq causes'
      /\ "client" \in End /\ "gateway" \in End /\ "client" # "gateway" /\ \A e \in End : e = "client" \/ e = "gateway"
      /\ pc \in [End -> Shaking \cup InLoop \cup {"none", "enter", "leave", "left", "over"}]
      /\ told \in Seq({"joined", "left"}) /\ witness \in [here : BOOLEAN, sees : BOOLEAN] /\ registered \in BOOLEAN
  BY Growing, Ends DEF IInv, TypeOK
<1> DEFINE Before == Shaking \cup {"none"}
<1> DEFINE Inside == {"leave"} \cup InLoop
<1>2. Before \cap Inside = {} /\ Before \cap {"enter", "left", "over"} = {} /\ Inside \cap {"enter", "left", "over"} = {}
  BY DEF Shaking, InLoop
\* Nobody comes, goes or is told of it.
<1>s. ASSUME UNCHANGED roster,
             \/ pc'["gateway"] = pc["gateway"]
             \/ pc["gateway"] \in Inside /\ pc'["gateway"] \in Inside
             \/ pc["gateway"] \in Before /\ pc'["gateway"] \in Before \cup {"over"}
      PROVE  Listed'
  <2>1. WillSee' <=> WillSee
    BY <1>s DEF WillSee, roster
  <2>2. registered' <=> (pc'["gateway"] \in {"enter", "leave"} \cup InLoop)
    BY <1>1, <1>2, <1>s DEF Listed, roster
  <2>3. ~witness'.here => told' = <<>>
    BY <1>1, <1>s DEF Listed, roster
  <2>4. pc'["gateway"] \notin InLoop \cup Leaving => told' = <<>>
    BY <1>1, <1>s DEF Listed, roster, Leaving, Shaking, InLoop
  <2>5. ASSUME witness'.here, "full" \notin causes'
        PROVE  /\ pc'["gateway"] \in Inside => WillSee'
               /\ /\ pc'["gateway"] \notin {"enter", "leave", "left"} \cup InLoop
                  /\ pc'["gateway"] = "over" => "store" \notin causes'
                  => ~WillSee'
    <3>1. witness.here /\ "full" \notin causes
      BY <1>1, <1>s, <2>5 DEF roster
    <3>2. CASE pc'["gateway"] = pc["gateway"]
      BY <1>1, <2>1, <3>1, <3>2 DEF Listed
    <3>3. CASE pc["gateway"] \in Inside /\ pc'["gateway"] \in Inside
      BY <1>1, <1>2, <2>1, <3>1, <3>3 DEF Listed
    <3>4. CASE pc["gateway"] \in Before /\ pc'["gateway"] \in Before \cup {"over"}
      <4>1. ~WillSee
        BY <1>1, <1>2, <3>1, <3>4 DEF Listed
      <4>2. pc'["gateway"] \notin Inside
        BY <1>2, <3>4
      <4>3. QED
        BY <2>1, <4>1, <4>2
    <3>5. QED
      BY <1>s, <3>2, <3>3, <3>4
  <2>6. QED
    BY <2>2, <2>3, <2>4, <2>5 DEF Listed
<1>3. CASE Selection \/ EnterGroup
  <2>1. CASE Selection
    <3>1. pc["gateway"] = "select" /\ UNCHANGED <<witness, told>> /\ told = <<>>
      BY <1>1, <2>1 DEF Selection, Listed, InLoop, Leaving
    <3>2. CASE registered' = registered /\ pc'["gateway"] = "over"
      BY <1>s, <3>1, <3>2 DEF Shaking, roster
    <3>3. CASE registered' = TRUE /\ pc'["gateway"] = "enter"
      BY <1>1, <3>1, <3>3 DEF Listed, InLoop, Leaving
    <3>4. QED
      BY <1>1, <2>1, <3>2, <3>3 DEF Selection, Exchange, Goto
  <2>2. CASE EnterGroup
    <3>1. pc["gateway"] = "enter" /\ UNCHANGED witness /\ told = <<>> /\ registered
      BY <1>1, <2>2 DEF EnterGroup, Listed, InLoop, Leaving
    <3>2. CASE /\ pc'["gateway"] = "idle" /\ told' = Told("joined") /\ UNCHANGED registered
               /\ causes' = causes \cup IF MissesIt THEN {"full"} ELSE {}
      <4>1. ~witness'.here => told' = <<>>
        BY <1>1, <3>1, <3>2 DEF Told
      <4>2. witness'.here /\ "full" \notin causes' => WillSee'
        BY <1>1, <3>1, <3>2, Tells
      <4>3. registered' = TRUE
        BY <1>1, <3>1, <3>2
      <4>4. QED
        BY <3>2, <4>1, <4>2, <4>3 DEF Listed, InLoop, Leaving
    <3>3. CASE pc'["gateway"] = "over" /\ registered' = FALSE /\ "store" \in causes' /\ UNCHANGED told
      <4>1. ~(pc'["gateway"] \in {"enter", "leave"} \cup InLoop)
        BY <3>3 DEF InLoop
      <4>2. registered' <=> (pc'["gateway"] \in {"enter", "leave"} \cup InLoop)
        BY <3>3, <4>1
      <4>3. told' = <<>>
        BY <3>1, <3>3
      <4>4. QED
        BY <3>3, <4>2, <4>3 DEF Listed, InLoop, Leaving
    <3>4. QED
      BY <1>1, <2>2, <3>2, <3>3 DEF EnterGroup, Goto, Because
  <2>3. QED
    BY <1>3, <2>1, <2>2
<1>4. CASE Leave
  <2>1. UNCHANGED witness
    BY <1>4 DEF Leave
  <2>2. CASE pc["gateway"] = "leave"
    <3>1. pc'["gateway"] = "left" /\ registered' = FALSE /\ UNCHANGED told
      BY <1>1, <1>4, <2>2 DEF Leave, Farewell, Remove, Goto
    <3>2. ~(pc'["gateway"] \in {"enter", "leave"} \cup InLoop)
      BY <3>1 DEF InLoop
    <3>3. registered' <=> (pc'["gateway"] \in {"enter", "leave"} \cup InLoop)
      BY <3>1, <3>2
    <3>4. ~witness'.here => told' = <<>>
      BY <1>1, <2>1, <3>1 DEF Listed
    <3>5. QED
      BY <3>1, <3>3, <3>4 DEF Listed, InLoop, Leaving
  <2>3. CASE pc["gateway"] = "left"
    <3>1. /\ pc'["gateway"] = "over" /\ UNCHANGED registered /\ told' = Told("left")
          /\ causes' = causes \cup IF MissesIt THEN {"full"} ELSE {}
      BY <1>1, <1>4, <2>3 DEF Leave, Farewell, Tell, Goto
    <3>2. registered' = FALSE
      BY <1>1, <2>3, <3>1 DEF Listed, InLoop
    <3>3. ~witness'.here => told' = <<>>
      BY <1>1, <2>1, <3>1 DEF Told, Listed
    <3>4. witness'.here /\ "full" \notin causes' => ~WillSee'
      BY <1>1, <2>1, <3>1, Tells
    <3>5. ~(pc'["gateway"] \in {"enter", "leave"} \cup InLoop)
      BY <3>1 DEF InLoop
    <3>6. registered' <=> (pc'["gateway"] \in {"enter", "leave"} \cup InLoop)
      BY <3>2, <3>5
    <3>7. QED
      BY <3>1, <3>3, <3>4, <3>6 DEF Listed, InLoop, Leaving
  <2>4. QED
    BY <1>4, <2>2, <2>3 DEF Leave
<1>5. CASE WitnessEnters
  <2>1. /\ witness' = [here |-> TRUE, sees |-> registered] /\ UNCHANGED <<pc, registered, told, causes>>
        /\ told = <<>>
    BY <1>1, <1>5 DEF WitnessEnters, transport, Listed
  <2>2. WillSee' <=> registered
    BY <1>1, <2>1 DEF WillSee
  <2>3. registered <=> pc["gateway"] \in {"enter", "leave"} \cup InLoop
    BY <1>1 DEF Listed
  <2>4. registered' <=> (pc'["gateway"] \in {"enter", "leave"} \cup InLoop)
    BY <1>1, <2>1 DEF Listed
  <2>5. QED
    BY <2>1, <2>2, <2>3, <2>4 DEF Listed
<1>6. CASE WitnessHears
  <2>1. /\ witness' = [witness EXCEPT !.sees = (Head(told) = "joined")] /\ told' = Tail(told) /\ told # <<>>
        /\ UNCHANGED <<pc, registered, causes>>
    BY <1>6 DEF WitnessHears, transport
  <2>2. witness.here /\ witness'.here
    BY <1>1, <2>1 DEF Listed
  <2>3. WillSee' <=> WillSee
    <3>1. /\ Len(Tail(told)) = Len(told) - 1 /\ Len(told) \in Nat \ {0} /\ Head(told) = told[1]
          /\ \A i \in 1..Len(Tail(told)) : i + 1 \in 1..Len(told) /\ Tail(told)[i] = told[i + 1]
      BY <1>1, <2>1, TailAt
    <3>2. Tail(told) \in Seq({"joined", "left"})
      BY <1>1, <2>1
    <3>3. CASE Tail(told) = <<>>
      <4>1. Len(told) = 1
        BY <3>1, <3>3
      <4>2. witness'.sees <=> Head(told) = "joined"
        BY <1>1, <2>1
      <4>3. QED
        BY <2>1, <3>1, <3>3, <4>1, <4>2 DEF WillSee
    <3>4. CASE Tail(told) # <<>>
      <4>1. Len(Tail(told)) \in 1..Len(Tail(told)) /\ Len(Tail(told)) + 1 = Len(told)
        BY <3>1, <3>2, <3>4
      <4>2. Tail(told)[Len(Tail(told))] = told[Len(told)]
        BY <3>1, <4>1
      <4>3. QED
        BY <2>1, <3>4, <4>2 DEF WillSee
    <3>5. QED
      BY <3>3, <3>4
  <2>4. pc["gateway"] \in InLoop \cup Leaving
    BY <1>1, <2>1 DEF Listed
  <2>5. registered' <=> (pc'["gateway"] \in {"enter", "leave"} \cup InLoop)
    BY <1>1, <2>1 DEF Listed
  <2>6. QED
    BY <1>1, <2>1, <2>2, <2>3, <2>4, <2>5 DEF Listed
<1>7. CASE ~(Selection \/ EnterGroup \/ Leave \/ WitnessEnters \/ WitnessHears)
  <2> USE <1>1
  <2>1. CASE Entering
    <3>1. UNCHANGED roster
      BY <1>7, <2>1 DEF Entering, Connect, ClientNoise, GatewayNoise, Hello, ClientWelcome, ClientGroup
    <3>2. CASE Connect
      <4>1. pc["gateway"] = "none"
        BY <3>2 DEF Connect, IInv, Versions
      <4>2. QED
        BY <1>s, <3>1, <3>2, <4>1 DEF Connect, Shaking
    <3>3. CASE GatewayNoise \/ Hello
      <4>1. pc["gateway"] \in Before /\ pc'["gateway"] \in Before \cup {"over"}
        BY <3>3 DEF GatewayNoise, Hello, Exchange, Goto, Shaking
      <4>2. QED
        BY <1>s, <3>1, <4>1
    <3>4. CASE ClientNoise \/ ClientWelcome \/ ClientGroup
      <4>1. pc'["gateway"] = pc["gateway"]
        BY <3>4 DEF ClientNoise, ClientWelcome, ClientGroup, Exchange, Goto
      <4>2. QED
        BY <1>s, <3>1, <4>1
    <3>5. QED
      BY <1>7, <2>1, <3>2, <3>3, <3>4 DEF Entering
  <2>2. CASE ClientLoop
    BY <1>s, <2>2 DEF ClientLoop, ClientReads, ClientCloses, SendFails, Goto, transport
  <2>3. CASE GatewayLoop
    <3>1. UNCHANGED roster /\ pc["gateway"] \in Inside /\ pc'["gateway"] \in Inside
      BY <1>7, <2>3 DEF GatewayLoop, GatewayReads, ReadsBody, TakeKick, Goto, InLoop
    <3>2. QED
      BY <1>s, <3>1
  <2>4. CASE UserOrNet
    BY <1>s, <2>4 DEF UserOrNet, TakePrivate, Cut, SendChat, CloseChat, SendTimesOut, NewWindow, News, Kick,
         transport
  <2>5. CASE Witness
    BY <1>7, <2>5 DEF Witness
  <2>6. ASSUME NEW e \in End, Timeout(e) PROVE Listed'
    <3>1. pc'["gateway"] = pc["gateway"] \/ (pc["gateway"] \in Before /\ pc'["gateway"] = "over")
      BY <2>6 DEF Timeout, Timed, Goto
    <3>2. QED
      BY <1>s, <2>6, <3>1 DEF Timeout
  <2>7. ASSUME NEW e \in End, Writing(e) PROVE Listed'
    <3>1. pc'["gateway"] = pc["gateway"] \/ (pc["gateway"] \in Inside /\ pc'["gateway"] \in Inside)
      BY <2>7 DEF Writing, TakeNext, WriteHead, WriteBody, AfterKick, WriteFails, Stop, Goto, InLoop
    <3>2. UNCHANGED roster
      BY <2>7 DEF Writing, TakeNext, WriteHead, WriteBody, WriteFails
    <3>3. QED
      BY <1>s, <3>1, <3>2
  <2>8. ASSUME NEW e \in End, Reading(e) PROVE Listed'
    <3>1. UNCHANGED roster
      BY <2>8 DEF Reading, ReadHead, ReadStray, ReadFails
    <3>2. CASE ReadHead(e)
      BY <1>s, <3>1, <3>2 DEF ReadHead
    <3>3. CASE ReadStray(e)
      <4>1. pc'["gateway"] = pc["gateway"] \/ (pc["gateway"] \in Inside /\ pc'["gateway"] \in Inside)
        BY <3>3 DEF ReadStray, Stop, Goto, InLoop
      <4>2. QED
        BY <1>s, <3>1, <4>1
    <3>4. CASE ReadFails(e)
      <4>1. \/ pc'["gateway"] = pc["gateway"]
            \/ pc["gateway"] \in Inside /\ pc'["gateway"] \in Inside
            \/ pc["gateway"] \in Before /\ pc'["gateway"] \in Before \cup {"over"}
        BY <3>4 DEF ReadFails, Stop, Goto, InLoop
      <4>2. QED
        BY <1>s, <3>1, <4>1
    <3>5. QED
      BY <2>8, <3>2, <3>3, <3>4 DEF Reading
  <2>9. CASE UNCHANGED vars
    BY <1>s, <2>9 DEF vars, transport
  <2>10. QED
    BY <2>1, <2>2, <2>3, <2>4, <2>5, <2>6, <2>7, <2>8, <2>9 DEF Next
<1>8. QED
  BY <1>3, <1>4, <1>5, <1>6, <1>7

-----------------------------------------------------------------------------
(* The messages on their way, counted *)

Stream(e) == Reads(e) => Fits(e) /\ Continues(e)

LEMMA Counts ==
    ASSUME TypeOK, NEW e \in End
    PROVE  /\ Len(arrived[e]) \in Nat /\ arrived[e] \in Seq(Nat)
           /\ Taken(Peer(e)) \in Int /\ Lead(e) \in Int /\ frame[Peer(e)].n \in Nat
<1>1. Peer(e) \in End
  BY Ends
<1>2. sent[Peer(e)] \in Nat /\ Len(queue[Peer(e)]) \in Nat /\ frame[Peer(e)] \in Items
  BY <1>1, Parcels
<1>3. arrived[e] \in Seq(Nat)
  BY DEF TypeOK
<1>4. QED
  BY <1>2, <1>3, ItemFacts DEF Taken, Lead

\* The writer's side of the stream to e is as before, or there is none any more.
WriterKept(e) ==
    /\ frame'[Peer(e)] = frame[Peer(e)] /\ Taken(Peer(e))' = Taken(Peer(e))
    /\ \/ pc'[Peer(e)] = pc[Peer(e)]
       \/ pc'[Peer(e)] \in Leaving
       \/ pc[Peer(e)] = "select" /\ pc'[Peer(e)] = "idle"

\* So is the reader's.
ReaderKept(e) ==
    /\ wire'[e] = wire[e] /\ arrived'[e] = arrived[e]
    /\ got'[e] = got[e] \/ got'[e] = "astray"
    /\ pc'[e] = pc[e] \/ pc'[e] \in Leaving \/ (pc[e] \in InLoop /\ pc'[e] \in InLoop)

LEMMA LeadKept ==
    ASSUME NEW e \in End, Reads(e)',
           got'[e] = got[e] \/ got'[e] = "astray",
           pc'[e] = pc[e] \/ pc'[e] \in Leaving \/ (pc[e] \in InLoop /\ pc'[e] \in InLoop)
    PROVE  Reads(e) /\ Lead(e)' = Lead(e)
  BY DEF Reads, Lead, InLoop, Leaving

LEMMA StreamKept ==
    ASSUME TypeOK, NEW e \in End, Stream(e), WriterKept(e), ReaderKept(e)
    PROVE  Stream(e)'
<1> SUFFICES ASSUME Reads(e)' PROVE Fits(e)' /\ Continues(e)'
  BY DEF Stream
<1>1. Fits(e) /\ Continues(e) /\ Lead(e)' = Lead(e)
  BY LeadKept DEF Stream, ReaderKept
<1>2. Fits(e)'
  BY <1>1 DEF Fits, ReaderKept
<1>3. Continues(e)'
  <2>1. CASE pc'[Peer(e)] = pc[Peer(e)]
    BY <1>1, <2>1 DEF Continues, ReaderKept, WriterKept
  <2>2. CASE pc'[Peer(e)] \in Leaving
    BY <2>2 DEF Continues, Leaving
  <2>3. CASE pc[Peer(e)] = "select" /\ pc'[Peer(e)] = "idle"
    BY <1>1, <2>3 DEF Continues, ReaderKept, WriterKept
  <2>4. QED
    BY <2>1, <2>2, <2>3 DEF WriterKept
<1>4. QED
  BY <1>2, <1>3

\* e reads a part: Welcome or a head (d = 0), or a body (d = 1), which has arrived.
LEMMA StreamRead ==
    ASSUME TypeOK, NEW e \in End, Stream(e), Reads(e), WriterKept(e),
           wire[e] # <<>>, wire'[e] = Tail(wire[e]),
           NEW d \in {0, 1}, Len(arrived'[e]) = Len(arrived[e]) + d, Lead(e)' = Lead(e) + 1 - 2 * d
    PROVE  Stream(e)'
<1> SUFFICES Fits(e)' /\ Continues(e)'
  BY DEF Stream
<1>1. Fits(e) /\ Continues(e)
  BY DEF Stream
<1>2. PICK s \in Seq(Parts) : s = wire[e] /\ s # <<>>
  BY Parcels
<1>3. PICK A \in Nat, L \in Int, T \in Int : A = Len(arrived[e]) /\ L = Lead(e) /\ T = Taken(Peer(e))
  BY Counts
<1>4. /\ Len(Tail(s)) = Len(s) - 1 /\ Len(s) \in Nat \ {0}
      /\ \A i \in 1..Len(Tail(s)) : i + 1 \in 1..Len(s) /\ Tail(s)[i] = s[i + 1]
  BY <1>2, TailAt
<1>5. Fits(e)'
  <2>1. SUFFICES ASSUME NEW i \in 1..Len(Tail(s)), IsItem(Tail(s)[i]), ~IsKick(Tail(s)[i].item)
                 PROVE  2 * (Tail(s)[i].item.n - (A + d))
                            = i + (L + 1 - 2 * d) + (IF Tail(s)[i].part = "head" THEN 1 ELSE 0)
    BY <1>2, <1>3 DEF Fits
  <2>2. i + 1 \in 1..Len(s) /\ Tail(s)[i] = s[i + 1]
    BY <1>4
  <2>3. 2 * (s[i + 1].item.n - A) = i + 1 + L + (IF s[i + 1].part = "head" THEN 1 ELSE 0)
    BY <1>1, <1>2, <1>3, <2>1, <2>2 DEF Fits
  <2>4. s[i + 1].item.n \in Nat
    BY <1>2, <2>1, <2>2, Parcels
  <2>5. PICK h \in {0, 1} : h = IF s[i + 1].part = "head" THEN 1 ELSE 0
    OBVIOUS
  <2>6. 2 * (s[i + 1].item.n - A) = i + 1 + L + h
    BY <2>3, <2>5
  <2>7. 2 * (s[i + 1].item.n - (A + d)) = i + (L + 1 - 2 * d) + h
    <3>1. PICK n \in Nat, j \in Nat : n = s[i + 1].item.n /\ j = i
      BY <1>4, <2>4
    <3>2. 2 * (n - A) = j + 1 + L + h
      BY <2>6, <3>1
    <3>3. 2 * (n - (A + d)) = j + (L + 1 - 2 * d) + h
      BY <3>2
    <3>4. QED
      BY <3>1, <3>3
  <2>8. QED
    BY <2>2, <2>5, <2>7
<1>6. Continues(e)'
  <2>1. CASE pc'[Peer(e)] \in Leaving
    BY <2>1 DEF Continues, Leaving
  <2>2. CASE pc'[Peer(e)] = pc[Peer(e)] \/ (pc[Peer(e)] = "select" /\ pc'[Peer(e)] = "idle")
    <3>1. /\ frame'[Peer(e)] = frame[Peer(e)] /\ Taken(Peer(e))' = T
          /\ Len(wire'[e]) = Len(s) - 1 /\ Len(arrived'[e]) = A + d /\ Lead(e)' = L + 1 - 2 * d
      BY <1>2, <1>3, <1>4 DEF WriterKept
    <3>2. /\ pc'[Peer(e)] \in {"idle", "select"} => 2 * (T - A) = Len(s) + L
          /\ pc'[Peer(e)] = "head" /\ ~IsKick(frame[Peer(e)]) =>
                frame[Peer(e)].n = T /\ 2 * (T - 1 - A) = Len(s) + L
          /\ pc'[Peer(e)] = "body" /\ ~IsKick(frame[Peer(e)]) =>
                frame[Peer(e)].n = T /\ 2 * (T - A) = Len(s) + L + 1
      BY <1>1, <1>2, <1>3, <2>2 DEF Continues
    <3>3. /\ 2 * (T - A) = Len(s) + L => 2 * (T - (A + d)) = Len(s) - 1 + (L + 1 - 2 * d)
          /\ 2 * (T - 1 - A) = Len(s) + L => 2 * (T - 1 - (A + d)) = Len(s) - 1 + (L + 1 - 2 * d)
          /\ 2 * (T - A) = Len(s) + L + 1 => 2 * (T - (A + d)) = Len(s) - 1 + (L + 1 - 2 * d) + 1
      BY <1>4
    <3>4. QED
      BY <3>1, <3>2, <3>3 DEF Continues
  <2>3. QED
    BY <2>1, <2>2 DEF WriterKept
<1>7. QED
  BY <1>5, <1>6

\* e's peer writes a part of the frame that is next.
LEMMA StreamWritten ==
    ASSUME TypeOK, NEW e \in End, Stream(e),
           NEW part \in {"head", "body"}, pc[Peer(e)] = part, Gets(e, part, frame[Peer(e)]),
           Taken(Peer(e))' = Taken(Peer(e)),
           part = "head" => pc'[Peer(e)] = "body" /\ frame'[Peer(e)] = frame[Peer(e)],
           part = "body" => pc'[Peer(e)] = (IF IsKick(frame[Peer(e)]) THEN "leave" ELSE "idle"),
           arrived'[e] = arrived[e], got'[e] = got[e], pc'[e] = pc[e]
    PROVE  Stream(e)'
<1> SUFFICES ASSUME Reads(e)' PROVE Fits(e)' /\ Continues(e)'
  BY DEF Stream
<1>1. Fits(e) /\ Continues(e) /\ Lead(e)' = Lead(e)
  BY LeadKept DEF Stream
<1>2. PICK s \in Seq(Parts) : s = wire[e]
  BY Parcels
<1>3. PICK A \in Nat, L \in Int, T \in Int, item \in Items :
          A = Len(arrived[e]) /\ L = Lead(e) /\ T = Taken(Peer(e)) /\ item = frame[Peer(e)]
  <2>1. frame[Peer(e)] \in Items
    BY Parcels, Ends
  <2>2. QED
    BY <2>1, Counts
<1>4. PICK x \in Parts : x = [part |-> part, item |-> item] /\ x.part = part /\ x.item = item
  BY PartFacts
<1>5. wire'[e] = Append(s, x)
  BY <1>2, <1>3, <1>4 DEF Gets, TypeOK
<1>6. /\ Len(Append(s, x)) = Len(s) + 1 /\ Len(s) \in Nat
      /\ \A i \in 1..Len(Append(s, x)) :
            \/ i \in 1..Len(s) /\ Append(s, x)[i] = s[i]
            \/ i = Len(s) + 1 /\ Append(s, x)[i] = x
  BY AppendAt
<1>7. ~IsKick(item) => item.n = T /\ 2 * (T - A) = Len(s) + 1 + L + (IF part = "head" THEN 1 ELSE 0)
  <2>1. CASE part = "head"
    <3>1. ~IsKick(item) => item.n = T /\ 2 * (T - 1 - A) = Len(s) + L
      BY <1>1, <1>2, <1>3, <2>1 DEF Continues
    <3>2. 2 * (T - 1 - A) = Len(s) + L => 2 * (T - A) = Len(s) + 1 + L + 1
      BY <1>6
    <3>3. QED
      BY <2>1, <3>1, <3>2
  <2>2. CASE part = "body"
    <3>1. ~IsKick(item) => item.n = T /\ 2 * (T - A) = Len(s) + L + 1
      BY <1>1, <1>2, <1>3, <2>2 DEF Continues
    <3>2. 2 * (T - A) = Len(s) + L + 1 => 2 * (T - A) = Len(s) + 1 + L + 0
      BY <1>6
    <3>3. QED
      BY <2>2, <3>1, <3>2
  <2>3. QED
    BY <2>1, <2>2
<1>8. Fits(e)'
  <2>1. SUFFICES ASSUME NEW i \in 1..Len(Append(s, x)), IsItem(Append(s, x)[i]), ~IsKick(Append(s, x)[i].item)
                 PROVE  2 * (Append(s, x)[i].item.n - A)
                            = i + L + (IF Append(s, x)[i].part = "head" THEN 1 ELSE 0)
    BY <1>1, <1>3, <1>5 DEF Fits
  <2>2. CASE i \in 1..Len(s) /\ Append(s, x)[i] = s[i]
    BY <1>1, <1>2, <1>3, <2>1, <2>2 DEF Fits
  <2>3. CASE i = Len(s) + 1 /\ Append(s, x)[i] = x
    BY <1>4, <1>7, <2>1, <2>3
  <2>4. QED
    BY <1>6, <2>1, <2>2, <2>3
<1>9. Continues(e)'
  <2>1. /\ Taken(Peer(e))' = T /\ Len(arrived'[e]) = A /\ Lead(e)' = L /\ Len(wire'[e]) = Len(s) + 1
    BY <1>1, <1>3, <1>5, <1>6
  <2>2. CASE part = "head"
    <3>1. pc'[Peer(e)] = "body" /\ frame'[Peer(e)] = item
      BY <1>3, <2>2
    <3>2. ~IsKick(item) => item.n = T /\ 2 * (T - A) = Len(s) + 1 + L + 1
      BY <1>7, <2>2
    <3>3. QED
      BY <2>1, <3>1, <3>2 DEF Continues
  <2>3. CASE part = "body"
    <3>1. pc'[Peer(e)] = (IF IsKick(item) THEN "leave" ELSE "idle")
      BY <1>3, <2>3
    <3>2. ~IsKick(item) => 2 * (T - A) = Len(s) + 1 + L
      <4>1. Len(s) + 1 + L + 0 = Len(s) + 1 + L
        BY <1>6
      <4>2. QED
        BY <1>7, <2>3, <4>1
    <3>3. QED
      BY <2>1, <3>1, <3>2 DEF Continues
  <2>4. QED
    BY <2>2, <2>3
<1>10. QED
  BY <1>8, <1>9

\* Its peer takes up the next message.
LEMMA StreamTaken ==
    ASSUME IInv, NEW e \in End, Stream(e), TakeNext(Peer(e))
    PROVE  Stream(e)'
<1> SUFFICES ASSUME Reads(e)' PROVE Fits(e)' /\ Continues(e)'
  BY DEF Stream
<1>1. /\ TypeOK /\ Peer(e) \in End /\ Peer(e) # e
  BY Ends DEF IInv
<1>2. /\ wire'[e] = wire[e] /\ arrived'[e] = arrived[e] /\ got'[e] = got[e] /\ pc'[e] = pc[e]
      /\ pc[Peer(e)] = "idle" /\ pc'[Peer(e)] = "head" /\ queue[Peer(e)] # <<>>
      /\ frame'[Peer(e)] = Head(queue[Peer(e)]) /\ queue'[Peer(e)] = Tail(queue[Peer(e)])
      /\ sent'[Peer(e)] = sent[Peer(e)]
  BY <1>1 DEF TakeNext, Branch, Goto, TypeOK
<1>3. Fits(e) /\ Continues(e) /\ Lead(e)' = Lead(e)
  BY <1>2, LeadKept DEF Stream
<1>4. Fits(e)'
  BY <1>2, <1>3 DEF Fits
<1>5. PICK q \in Seq(Items) : q = queue[Peer(e)] /\ q # <<>>
  BY <1>1, <1>2, Parcels
<1>6. PICK n \in Nat, A \in Nat, L \in Int : n = sent[Peer(e)] /\ A = Len(arrived[e]) /\ L = Lead(e)
  BY <1>1, Counts, Parcels
<1>7. /\ Len(Tail(q)) = Len(q) - 1 /\ Len(q) \in Nat \ {0} /\ Head(q) = q[1] /\ 1 \in 1..Len(q)
  BY <1>5, TailAt
<1>8. q[1].n = n - Len(q) + 1
  BY <1>1, <1>5, <1>6, <1>7 DEF IInv, Numbered
<1>9. 2 * (n - Len(q) - A) = Len(wire[e]) + L
  BY <1>2, <1>3, <1>5, <1>6 DEF Continues, Taken
<1>10. Taken(Peer(e))' = n - (Len(q) - 1)
  BY <1>2, <1>5, <1>6, <1>7 DEF Taken
<1>11. q[1].n = n - (Len(q) - 1) /\ 2 * (n - (Len(q) - 1) - 1 - A) = Len(wire[e]) + L
  BY <1>7, <1>8, <1>9
<1>12. Continues(e)'
  BY <1>2, <1>3, <1>5, <1>6, <1>7, <1>10, <1>11 DEF Continues
<1>13. QED
  BY <1>4, <1>12

\* It takes up a kick.
LEMMA StreamKicked ==
    ASSUME IInv, Stream("client"), TakeKick
    PROVE  Stream("client")'
<1> SUFFICES ASSUME Reads("client")' PROVE Fits("client")' /\ Continues("client")'
  BY DEF Stream
<1>1. /\ TypeOK /\ "client" \in End /\ "gateway" \in End /\ Peer("client") = "gateway" /\ "client" # "gateway"
  BY Ends DEF IInv
<1>2. /\ wire'["client"] = wire["client"] /\ arrived'["client"] = arrived["client"]
      /\ got'["client"] = got["client"] /\ pc'["client"] = pc["client"]
      /\ pc'["gateway"] = "head" /\ frame'["gateway"] = Item("kick", 0)
  BY <1>1 DEF TakeKick, Branch, Goto, traffic, TypeOK
<1>3. Fits("client") /\ Lead("client")' = Lead("client")
  BY <1>1, <1>2, LeadKept DEF Stream
<1>4. Fits("client")'
  BY <1>2, <1>3 DEF Fits
<1>5. IsKick(Item("kick", 0))
  BY DEF IsKick, Item
<1>6. Continues("client")'
  BY <1>1, <1>2, <1>5 DEF Continues
<1>7. QED
  BY <1>4, <1>6

\* How many messages w has taken up so far
LEMMA TakenKept ==
    ASSUME IInv, [Next]_vars, NEW w \in End, ~TakeNext(w)
    PROVE  Taken(w)' = Taken(w)
<1>1. queue[w] \in Seq(Items) /\ Len(queue[w]) \in Nat /\ sent[w] \in Nat
  BY Parcels DEF IInv
<1>2. CASE queue'[w] = queue[w] /\ sent'[w] = sent[w]
  BY <1>2 DEF Taken
<1>3. ASSUME NEW kind \in {"chat", "news", "echo", "error"}, Adds(w, kind) PROVE Taken(w)' = Taken(w)
  <2>1. PICK item \in Items : item = Item(kind, sent[w] + 1)
    BY <1>1, ItemFacts
  <2>2. queue'[w] = Append(queue[w], item) /\ sent'[w] = sent[w] + 1
    BY <1>3, <2>1 DEF Adds
  <2>3. Len(queue'[w]) = Len(queue[w]) + 1
    BY <1>1, <2>2
  <2>4. QED
    BY <1>1, <2>2, <2>3 DEF Taken
<1>4. QED
  BY <1>2, <1>3, QueueSteps

\* The kick is read when only kicks are left and the gateway writes no more.
LEMMA StreamEnds ==
    ASSUME IInv, InRoom, Stream("client"), ClientReads, IsKick(Head(wire["client"]).item)
    PROVE  Stream("client")'
<1> SUFFICES ASSUME Reads("client")' PROVE Fits("client")' /\ Continues("client")'
  BY DEF Stream
<1>1. /\ TypeOK /\ Kicked /\ "client" \in End /\ "gateway" \in End /\ Peer("client") = "gateway" /\ "client" # "gateway"
  BY Ends DEF IInv
<1>2. ReadsBody("client")
  BY DEF ClientReads
<1>3. PICK s \in Seq(Parts) : s = wire["client"] /\ s # <<>>
  BY <1>1, <1>2, Parcels DEF ReadsBody
<1>4. /\ 1 \in 1..Len(s) /\ IsItem(s[1]) /\ IsKick(s[1].item)
  <2>1. 1 \in 1..Len(s)
    BY <1>3, TailAt
  <2>2. IsItem(s[1]) /\ Head(s) = s[1]
    BY <1>1, <1>2, <1>3, BodyType
  <2>3. QED
    BY <1>3, <2>1, <2>2
<1>5. kicked = "seen" /\ \A k \in 1..Len(s) : IsItem(s[k]) => IsKick(s[k].item)
  BY <1>1, <1>3, <1>4 DEF Kicked
<1>6. wire'["client"] = Tail(s) /\ pc'["gateway"] = pc["gateway"] /\ frame'["gateway"] = frame["gateway"]
  BY <1>1, <1>2, <1>3 DEF ClientReads, ReadsBody, Goto, TypeOK
<1>7. \A i \in 1..Len(Tail(s)) : i + 1 \in 1..Len(s) /\ Tail(s)[i] = s[i + 1]
  BY <1>3, TailAt
<1>8. Fits("client")'
  BY <1>5, <1>6, <1>7 DEF Fits
<1>9. pc["gateway"] \in Leaving \/ (pc["gateway"] \in {"head", "body"} /\ IsKick(frame["gateway"]))
  BY <1>1, <1>5 DEF Kicked
<1>10. Continues("client")'
  BY <1>1, <1>6, <1>9 DEF Continues, Leaving
<1>11. QED
  BY <1>8, <1>10

\* The streams begin when the session enters the room.
LEMMA StreamsBegin ==
    ASSUME IInv, EnterGroup, InRoom', NEW e \in End
    PROVE  Stream(e)'
<1>1. /\ TypeOK /\ AnyStage /\ "client" \in End /\ "gateway" \in End /\ "client" # "gateway"
      /\ Peer("client") = "gateway" /\ Peer("gateway") = "client" /\ (e = "client" \/ e = "gateway")
  BY Ends DEF IInv, AnyStage
<1>2. At("select", "enter", <<>>, <<>>) /\ UNCHANGED <<traffic, got>>
  BY <1>1, Stages DEF EnterGroup, AnyStage
<1>3. pc'["client"] = pc["client"] /\ pc'["gateway"] \in {"idle", "over"}
  BY <1>1 DEF EnterGroup, Goto, TypeOK
<1>4. /\ pc["gateway"] = "enter" /\ pc["client"] \in {"select", "over"}
      /\ wire["gateway"] = <<>> /\ wire["client"] = <<>>
  BY <1>2 DEF At, EnterGroup
<1>5. sent["gateway"] = 0 /\ queue["gateway"] = <<>> /\ arrived["gateway"] = <<>> /\ got["gateway"] = "start"
  BY <1>1, <1>4 DEF IInv, Fresh, InLoop, Leaving
<1>6. pc["client"] = "select" =>
          sent["client"] = 0 /\ queue["client"] = <<>> /\ arrived["client"] = <<>> /\ got["client"] = "start"
  BY <1>1 DEF IInv, Fresh, InLoop, Leaving
<1>7. UNCHANGED <<queue, sent, arrived, got>>
  BY <1>2 DEF traffic
<1>8. CASE e = "gateway"
  <2>1. wire'["gateway"] = <<>>
    BY <1>1, <1>4 DEF EnterGroup, TypeOK
  <2>2. SUFFICES ASSUME Reads("gateway")' PROVE Fits("gateway")' /\ Continues("gateway")'
    BY <1>8 DEF Stream
  <2>3. pc'["gateway"] = "idle"
    BY <1>3, <2>2 DEF Reads, InLoop
  <2>4. Len(wire'["gateway"]) = 0 /\ Len(arrived'["gateway"]) = 0 /\ Lead("gateway")' = 0
    BY <1>5, <1>7, <2>1, <2>3 DEF Lead
  <2>5. Fits("gateway")'
    BY <2>4 DEF Fits
  <2>6. pc["client"] = "select" => Taken("client")' = 0
    BY <1>6, <1>7 DEF Taken
  <2>7. Continues("gateway")'
    BY <1>1, <1>3, <1>4, <2>4, <2>6 DEF Continues
  <2>8. QED
    BY <2>5, <2>7
<1>9. CASE e = "client"
  <2>1. SUFFICES ASSUME Reads("client")' PROVE Fits("client")' /\ Continues("client")'
    BY <1>9 DEF Stream
  <2>2. pc'["client"] = "select" /\ pc["client"] = "select"
    BY <1>3, <1>4, <2>1 DEF Reads, InLoop
  <2>3. CASE pc'["gateway"] = "idle"
    <3>1. wire'["client"] = Append(<<>>, [part |-> "group"])
      BY <1>1, <1>4, <2>3 DEF EnterGroup, Goto, TypeOK
    <3>2. Append(<<>>, [part |-> "group"]) = Saying("group")
      BY DEF Saying
    <3>3. Len(wire'["client"]) = 1 /\ ~IsItem(wire'["client"][1])
      <4>1. "group" \in Handshake
        BY DEF Handshake
      <4>2. QED
        BY <3>1, <3>2, <4>1, SayingFacts, PartFacts
    <3>4. Fits("client")'
      BY <3>3 DEF Fits
    <3>5. Taken("gateway")' = 0 /\ Len(arrived'["client"]) = 0 /\ Lead("client")' = 0 - 1
      BY <1>5, <1>6, <1>7, <2>2 DEF Taken, Lead
    <3>6. Continues("client")'
      BY <1>1, <2>3, <3>3, <3>5 DEF Continues
    <3>7. QED
      BY <3>4, <3>6
  <2>4. CASE pc'["gateway"] = "over"
    <3>1. wire'["client"] = <<>>
      BY <1>1, <1>4, <2>4 DEF EnterGroup, Goto, TypeOK
    <3>2. Fits("client")'
      BY <3>1 DEF Fits
    <3>3. Continues("client")'
      BY <1>1, <2>4 DEF Continues
    <3>4. QED
      BY <3>2, <3>3
  <2>5. QED
    BY <1>3, <2>3, <2>4
<1>10. QED
  BY <1>1, <1>8, <1>9

\* Who still reads in the handshake is not in the room.
NoReader == \A e \in End : ~Reads(e)

LEMMA Apart == Meeting /\ InRoom => NoReader
<1> SUFFICES ASSUME Meeting, InRoom, NEW e \in End, Reads(e) PROVE FALSE
  BY DEF NoReader
<1>1. e = "client" \/ e = "gateway"
  BY Ends
<1>2. pc["client"] \notin InLoop /\ pc["gateway"] \notin InLoop
  BY DEF Meeting, At, InLoop
<1>3. pc["gateway"] # "select"
  BY DEF InRoom, InLoop, Leaving
<1>4. e = "client" /\ pc["client"] = "select"
  BY <1>1, <1>2, <1>3 DEF Reads
<1>5. wire["client"] = <<>> \/ wire["client"] = Saying("pending") \/ wire["client"] = Saying("error")
  BY <1>4, SayingFacts DEF Meeting, At
<1>6. wire["client"] # <<>> /\ wire["client"][1] = [part |-> "group"]
  BY <1>4 DEF InRoom
<1>7. "pending" \in Handshake /\ "error" \in Handshake /\ "group" \in Handshake
  BY DEF Handshake
<1>8. [part |-> "group"] # [part |-> "pending"] /\ [part |-> "group"] # [part |-> "error"]
  BY <1>7, PartFacts
<1>9. QED
  BY <1>5, <1>6, <1>7, <1>8, SayingFacts

\* What is on its way, and what is written, stays what the reader needs next.
LEMMA StreamsStep == IInv /\ [Next]_vars => Streams'
<1> SUFFICES ASSUME IInv, [Next]_vars, InRoom', NEW e \in End PROVE Stream(e)'
  BY DEF Streams, Stream
<1>1. /\ TypeOK /\ AnyStage /\ "client" \in End /\ "gateway" \in End /\ "client" # "gateway"
      /\ Peer("client") = "gateway" /\ Peer("gateway") = "client"
      /\ Peer(e) \in End /\ Peer(e) # e /\ \A f \in End : f = e \/ f = Peer(e)
      /\ (e = "client" /\ Peer(e) = "gateway") \/ (e = "gateway" /\ Peer(e) = "client")
  BY Ends DEF IInv, AnyStage
<1>2. CASE EnterGroup
  BY <1>2, StreamsBegin
<1>3. CASE ~InRoom /\ ~EnterGroup
  <2>1. Meeting'
    BY <1>3, StageStep DEF StageNext
  <2>2. ~Reads(e)'
    <3>1. Meeting' /\ InRoom' => NoReader'
      BY Apart, PTL
    <3>2. QED
      BY <2>1, <3>1 DEF NoReader
  <2>3. QED
    BY <2>2 DEF Stream
<1>4. CASE InRoom /\ ~EnterGroup
  <2>0. /\ Stream(e) /\ InRoom
        /\ wire \in [End -> Seq(Parts)] /\ got \in [End -> {"start", "head", "astray"}]
        /\ frame \in [End -> Items] /\ arrived \in [End -> Seq(Nat)]
        /\ pc \in [End -> Shaking \cup InLoop \cup {"none", "enter", "leave", "left", "over"}]
    BY <1>1, <1>4 DEF IInv, Streams, Stream, TypeOK
  <2>t. \A w \in End : TakeNext(w) \/ Taken(w)' = Taken(w)
    BY TakenKept
  \* Nothing on the way or in a frame changes.
  <2>q. ASSUME ~TakeNext("client"), ~TakeNext("gateway"), UNCHANGED <<wire, arrived, frame>>,
               \A f \in End : /\ got'[f] = got[f] \/ got'[f] = "astray"
                              /\ pc'[f] = pc[f] \/ pc'[f] \in Leaving
        PROVE  Stream(e)'
    <3>1. WriterKept(e)
      BY <1>1, <2>t, <2>q DEF WriterKept
    <3>2. ReaderKept(e)
      BY <2>q DEF ReaderKept
    <3>3. QED
      BY <1>1, <2>0, <3>1, <3>2, StreamKept
  <2>g. ASSUME ~TakeNext("client"), ~TakeNext("gateway"), UNCHANGED <<wire, arrived, frame, got>>,
               NEW f \in End, NEW to \in Leaving, pc' = [pc EXCEPT ![f] = to]
        PROVE  Stream(e)'
    BY <2>0, <2>q, <2>g
  <2>n. \A w \in End : TakeNext(w) => pc[w] = "idle" /\ pc' = [pc EXCEPT ![w] = "head"]
    BY DEF TakeNext, Goto
  <2>1. CASE Entering
    <3>1. ClientGroup
      BY <1>4, <2>0, <2>1 DEF Entering, Connect, ClientNoise, GatewayNoise, Hello, ClientWelcome, Selection, InRoom,
           InLoop, Leaving
    <3>2. PICK k \in {"group", "pending", "error"}, to \in {"idle", "over"} : Exchange("client", k, <<>>, to)
      BY <3>1 DEF ClientGroup
    <3>3. /\ Passed("client", to, wire["gateway"]) /\ wire["client"] # <<>>
          /\ pc["client"] = "select" /\ UNCHANGED <<traffic, got, frame>>
      <4>1. k \in Handshake
        BY DEF Handshake
      <4>2. QED
        BY <1>1, <3>1, <3>2, ExchangedNone DEF ClientGroup, Exchange
    <3>4. /\ wire'["client"] = Tail(wire["client"]) /\ wire'["gateway"] = wire["gateway"]
          /\ pc'["client"] = to /\ pc'["gateway"] = pc["gateway"]
      BY <1>1, <2>0, <3>3 DEF Passed
    <3>5. ~TakeNext("client") /\ ~TakeNext("gateway")
      BY <1>1, <2>0, <2>n, <3>3, <3>4
    <3>6. WriterKept(e)
      BY <1>1, <2>t, <3>3, <3>4, <3>5 DEF WriterKept, Leaving
    <3>7. CASE e = "gateway"
      <4>1. ReaderKept(e)
        BY <3>3, <3>4, <3>7 DEF ReaderKept, traffic
      <4>2. QED
        BY <1>1, <2>0, <3>6, <4>1, StreamKept
    <3>8. CASE e = "client" /\ to = "over"
      BY <3>4, <3>8 DEF Stream, Reads, InLoop
    <3>9. CASE e = "client" /\ to = "idle"
      <4>1. got["client"] = "start"
        BY <1>1, <3>3 DEF IInv, Fresh, InLoop, Leaving
      <4>2. Lead("client") = 0 - 1 /\ Lead("client")' = 0
        BY <3>3, <3>4, <3>9, <4>1 DEF Lead
      <4>3. Reads("client")
        BY <3>3, <4>1 DEF Reads
      <4>4. PICK d \in {0, 1} : d = 0
        OBVIOUS
      <4>5. Len(arrived'["client"]) = Len(arrived["client"]) + d /\ Lead("client")' = Lead("client") + 1 - 2 * d
        BY <1>1, <3>3, <4>2, <4>4, Counts DEF traffic
      <4>6. QED
        BY <1>1, <2>0, <3>3, <3>4, <3>6, <3>9, <4>3, <4>5, StreamRead
    <3>10. QED
      BY <1>1, <3>7, <3>8, <3>9
  <2>2. ASSUME NEW f \in End, ReadHead(f) PROVE Stream(e)'
    <3>1. /\ pc[f] = "idle" /\ got[f] = "start" /\ wire[f] # <<>> /\ wire'[f] = Tail(wire[f]) /\ got'[f] = "head"
          /\ UNCHANGED <<pc, frame, arrived>>
          /\ \A g \in End : g # f => wire'[g] = wire[g] /\ got'[g] = got[g]
      BY <2>0, <2>2 DEF ReadHead, traffic
    <3>2. \A w \in End : ~TakeNext(w)
      BY <2>0, <2>n, <3>1
    <3>3. WriterKept(e)
      BY <1>1, <2>t, <3>1, <3>2 DEF WriterKept
    <3>4. CASE e = f
      <4>1. Lead(e) = 0 /\ Lead(e)' = 1 /\ Reads(e)
        BY <3>1, <3>4 DEF Lead, Reads, InLoop
      <4>2. PICK d \in {0, 1} : d = 0
        OBVIOUS
      <4>3. Len(arrived'[e]) = Len(arrived[e]) + d /\ Lead(e)' = Lead(e) + 1 - 2 * d
        BY <1>1, <3>1, <4>1, <4>2, Counts
      <4>4. QED
        BY <1>1, <2>0, <3>1, <3>3, <3>4, <4>1, <4>3, StreamRead
    <3>5. CASE e # f
      <4>1. ReaderKept(e)
        BY <3>1, <3>5 DEF ReaderKept
      <4>2. QED
        BY <1>1, <2>0, <3>3, <4>1, StreamKept
    <3>6. QED
      BY <3>4, <3>5
  \* f reads a body.
  <2>3. ASSUME NEW f \in End, ReadsBody(f), ~IsKick(Head(wire[f]).item),
               arrived' = [arrived EXCEPT ![f] = Append(@, Head(wire[f]).item.n)],
               pc' = pc \/ \E to \in Leaving : pc' = [pc EXCEPT ![f] = to]
        PROVE  Stream(e)'
    <3>1. /\ pc[f] = "idle" /\ got[f] = "head" /\ wire[f] # <<>> /\ wire'[f] = Tail(wire[f]) /\ got'[f] = "start"
          /\ UNCHANGED frame /\ (pc'[f] = pc[f] \/ pc'[f] \in Leaving)
          /\ \A g \in End : g # f => wire'[g] = wire[g] /\ got'[g] = got[g] /\ arrived'[g] = arrived[g] /\ pc'[g] = pc[g]
      BY <2>0, <2>3 DEF ReadsBody
    <3>2. \A w \in End : ~TakeNext(w)
      BY <2>0, <2>n, <3>1 DEF Leaving
    <3>3. WriterKept(e)
      BY <1>1, <2>t, <3>1, <3>2 DEF WriterKept
    <3>4. CASE e = f
      <4>1. CASE pc'[e] = pc[e]
        <5>1. Lead(e) = 1 /\ Lead(e)' = 0 /\ Reads(e)
          BY <3>1, <3>4, <4>1 DEF Lead, Reads, InLoop
        <5>2. PICK d \in {0, 1} : d = 1
          OBVIOUS
        <5>3. PICK n \in Nat : n = Head(wire[f]).item.n
          BY <1>4, <2>3, <1>1, BodyType, ItemFacts
        <5>4. arrived'[e] = Append(arrived[e], n)
          BY <2>0, <2>3, <3>4, <5>3
        <5>5. Len(arrived'[e]) = Len(arrived[e]) + d /\ Lead(e)' = Lead(e) + 1 - 2 * d
          BY <2>0, <5>1, <5>2, <5>4
        <5>6. QED
          BY <1>1, <2>0, <3>1, <3>3, <3>4, <5>1, <5>5, StreamRead
      <4>2. CASE pc'[e] \in Leaving
        BY <4>2 DEF Stream, Reads, InLoop, Leaving
      <4>3. QED
        BY <3>1, <3>4, <4>1, <4>2
    <3>5. CASE e # f
      <4>1. ReaderKept(e)
        BY <3>1, <3>5 DEF ReaderKept
      <4>2. QED
        BY <1>1, <2>0, <3>3, <4>1, StreamKept
    <3>6. QED
      BY <3>4, <3>5
  <2>4. CASE ClientReads
    <3>1. ReadsBody("client")
      BY <2>4 DEF ClientReads
    <3>2. CASE ui = "closed"
      <4>1. pc' = [pc EXCEPT !["client"] = "over"] /\ UNCHANGED <<arrived, frame>>
        BY <2>4, <3>1, <3>2 DEF ClientReads, Goto, ReadsBody
      <4>2. CASE e = "client"
        BY <2>0, <4>1, <4>2 DEF Stream, Reads, InLoop
      <4>3. CASE e = "gateway"
        <5>1. \A w \in End : ~TakeNext(w)
          BY <1>1, <2>0, <2>n, <3>1, <4>1 DEF ReadsBody
        <5>2. WriterKept(e)
          BY <1>1, <2>0, <2>t, <4>1, <4>3, <5>1 DEF WriterKept, Leaving
        <5>3. ReaderKept(e)
          BY <1>1, <2>0, <3>1, <4>1, <4>3 DEF ReaderKept, ReadsBody
        <5>4. QED
          BY <1>1, <2>0, <5>2, <5>3, StreamKept
      <4>4. QED
        BY <1>1, <4>2, <4>3
    <3>3. CASE ui # "closed" /\ ~IsKick(Head(wire["client"]).item)
      BY <1>1, <2>3, <2>4, <3>1, <3>3 DEF ClientReads, IsKick
    <3>4. CASE ui # "closed" /\ IsKick(Head(wire["client"]).item)
      <4>1. CASE e = "client"
        BY <1>4, <2>0, <2>4, <3>4, <4>1, StreamEnds
      <4>2. CASE e = "gateway"
        <5>1. UNCHANGED <<pc, frame>> /\ arrived'["gateway"] = arrived["gateway"]
          BY <1>1, <2>0, <2>4, <3>1, <3>4 DEF ClientReads, ReadsBody
        <5>2. \A w \in End : ~TakeNext(w)
          BY <1>1, <2>0, <2>n, <5>1
        <5>3. WriterKept(e)
          BY <1>1, <2>t, <4>2, <5>1, <5>2 DEF WriterKept
        <5>4. ReaderKept(e)
          BY <1>1, <2>0, <3>1, <4>2, <5>1 DEF ReaderKept, ReadsBody
        <5>5. QED
          BY <1>1, <2>0, <5>3, <5>4, StreamKept
      <4>3. QED
        BY <1>1, <4>1, <4>2
    <3>5. QED
      BY <3>2, <3>3, <3>4
  <2>5. CASE GatewayReads
    <3>1. ReadsBody("gateway")
      BY <2>5 DEF GatewayReads
    <3>2. ~IsKick(Head(wire["gateway"]).item)
      <4>1. IsItem(wire["gateway"][1]) /\ Head(wire["gateway"]) = wire["gateway"][1]
        BY <1>1, <1>4, <3>1, BodyType
      <4>2. wire["gateway"] \in Seq(Parts) /\ wire["gateway"] # <<>>
        BY <1>1, <3>1, Parcels DEF ReadsBody
      <4>3. 1 \in 1..Len(wire["gateway"])
        BY <4>2
      <4>4. QED
        BY <4>1, <4>3 DEF IInv, Kicked
    <3>3. /\ arrived' = [arrived EXCEPT !["gateway"] = Append(@, Head(wire["gateway"]).item.n)]
          /\ pc' = pc \/ pc' = [pc EXCEPT !["gateway"] = "leave"]
      BY <2>5 DEF GatewayReads, Goto
    <3>4. QED
      BY <1>1, <2>3, <3>1, <3>2, <3>3 DEF Leaving
  <2>6. ASSUME NEW f \in End, TakeNext(f) PROVE Stream(e)'
    <3>1. CASE f = Peer(e)
      BY <2>0, <2>6, <3>1, StreamTaken
    <3>2. CASE f = e
      <4>1. /\ pc[e] = "idle" /\ pc'[e] = "head" /\ pc'[Peer(e)] = pc[Peer(e)] /\ frame'[Peer(e)] = frame[Peer(e)]
            /\ UNCHANGED <<wire, arrived>>
            /\ got'[e] = got[e] \/ got'[e] = "astray"
        BY <1>1, <2>0, <2>6, <3>2 DEF TakeNext, Branch, AfterBranch, Goto
      <4>2. ~TakeNext(Peer(e))
        BY <1>1, <2>0, <2>n, <4>1
      <4>3. WriterKept(e)
        BY <1>1, <2>t, <4>1, <4>2 DEF WriterKept
      <4>4. ReaderKept(e)
        BY <4>1 DEF ReaderKept, InLoop
      <4>5. QED
        BY <1>1, <2>0, <4>3, <4>4, StreamKept
    <3>3. QED
      BY <1>1, <3>1, <3>2
  <2>7. CASE TakeKick
    <3>1. CASE e = "client"
      BY <2>0, <2>7, <3>1, StreamKicked
    <3>2. CASE e = "gateway"
      <4>1. /\ pc["gateway"] = "idle" /\ pc'["gateway"] = "head" /\ pc'["client"] = pc["client"]
            /\ frame'["client"] = frame["client"] /\ UNCHANGED <<wire, traffic>>
            /\ got'["gateway"] = got["gateway"] \/ got'["gateway"] = "astray"
        BY <1>1, <2>0, <2>7 DEF TakeKick, Branch, AfterBranch, Goto
      <4>2. ~TakeNext("client")
        BY <1>1, <2>0, <2>n, <4>1
      <4>3. WriterKept(e)
        BY <1>1, <2>t, <3>2, <4>1, <4>2 DEF WriterKept
      <4>4. ReaderKept(e)
        BY <3>2, <4>1 DEF ReaderKept, InLoop, traffic
      <4>5. QED
        BY <1>1, <2>0, <4>3, <4>4, StreamKept
    <3>3. QED
      BY <1>1, <3>1, <3>2
  <2>8. ASSUME NEW f \in End, NEW part \in {"head", "body"}, pc[f] = part, Gets(Peer(f), part, frame[f]),
               UNCHANGED <<got, arrived>>, ~TakeNext(f),
               \/ part = "head" /\ pc' = [pc EXCEPT ![f] = "body"] /\ UNCHANGED frame
               \/ /\ part = "body" /\ pc' = [pc EXCEPT ![f] = IF IsKick(frame[f]) THEN "leave" ELSE "idle"]
                  /\ frame' = [frame EXCEPT ![f] = Nothing]
        PROVE  Stream(e)'
    <3>1. CASE f = Peer(e)
      <4>1. Peer(f) = e
        BY <3>1, Ends
      <4>2. pc'[e] = pc[e] /\ pc'[f] = (IF part = "head" THEN "body" ELSE IF IsKick(frame[f]) THEN "leave" ELSE "idle")
        BY <1>1, <2>0, <2>8, <3>1
      <4>3. Taken(f)' = Taken(f)
        BY <2>t, <2>8
      <4>4. QED
        BY <1>1, <2>0, <2>8, <3>1, <4>1, <4>2, <4>3, StreamWritten
    <3>2. CASE f = e
      <4>1. wire'[e] = wire[e] /\ frame'[Peer(e)] = frame[Peer(e)] /\ pc'[Peer(e)] = pc[Peer(e)]
        BY <1>1, <2>0, <2>8, <3>2 DEF Gets
      <4>2. pc[e] \in InLoop /\ (pc'[e] \in InLoop \/ pc'[e] \in Leaving)
        BY <1>1, <2>0, <2>8, <3>2 DEF InLoop, Leaving
      <4>3. ~TakeNext(Peer(e))
        BY <1>1, <2>0, <2>n, <4>1
      <4>4. WriterKept(e)
        BY <1>1, <2>t, <4>1, <4>3 DEF WriterKept
      <4>5. ReaderKept(e)
        BY <2>8, <4>1, <4>2 DEF ReaderKept
      <4>6. QED
        BY <1>1, <2>0, <4>4, <4>5, StreamKept
    <3>3. QED
      BY <1>1, <2>8, <3>1, <3>2
  <2>9. ASSUME NEW f \in End, WriteHead(f) PROVE Stream(e)'
    <3>1. Gets(Peer(f), "head", frame[f])
      BY <2>9 DEF WriteHead, Put, Gets
    <3>2. pc[f] = "head" /\ pc' = [pc EXCEPT ![f] = "body"] /\ UNCHANGED <<frame, got, arrived>> /\ ~TakeNext(f)
      BY <2>9 DEF WriteHead, Goto, TakeNext, traffic
    <3>3. QED
      BY <2>8, <2>9, <3>1, <3>2
  <2>10. ASSUME NEW f \in End, WriteBody(f) PROVE Stream(e)'
    <3>1. Gets(Peer(f), "body", frame[f])
      BY <2>10 DEF WriteBody, Put, Gets
    <3>2. /\ pc[f] = "body" /\ pc' = [pc EXCEPT ![f] = IF IsKick(frame[f]) THEN "leave" ELSE "idle"]
          /\ frame' = [frame EXCEPT ![f] = Nothing] /\ UNCHANGED <<got, arrived>> /\ ~TakeNext(f)
      BY <2>10 DEF WriteBody, AfterKick, IsKick, Goto, TakeNext, traffic
    <3>3. QED
      BY <2>8, <2>10, <3>1, <3>2
  <2>11. ASSUME NEW f \in End, ReadStray(f) PROVE Stream(e)'
    <3>1. /\ pc[f] = "idle" /\ got[f] = "astray" /\ UNCHANGED <<frame, arrived>>
          /\ got' = got /\ (pc' = pc \/ \E to \in Leaving : pc' = [pc EXCEPT ![f] = to])
          /\ \A g \in End : g # f => wire'[g] = wire[g]
      <4>1. got' = got \/ got' = [got EXCEPT ![f] = "astray"]
        BY <2>11 DEF ReadStray, AfterStray
      <4>2. QED
        BY <2>0, <2>11, <4>1 DEF ReadStray, AfterStray, Stop, Goto, Leaving, traffic
    <3>2. \A g \in End : ~TakeNext(g) /\ (pc'[g] = pc[g] \/ pc'[g] \in Leaving)
      BY <2>0, <2>n, <3>1 DEF Leaving
    <3>3. CASE e = f
      BY <3>1, <3>3 DEF Stream, Reads
    <3>4. CASE e # f
      <4>1. WriterKept(e)
        BY <1>1, <2>t, <3>1, <3>2 DEF WriterKept
      <4>2. ReaderKept(e)
        BY <3>1, <3>2, <3>4 DEF ReaderKept
      <4>3. QED
        BY <1>1, <2>0, <4>1, <4>2, StreamKept
    <3>5. QED
      BY <3>3, <3>4
  <2>12. CASE ClientCloses \/ Leave \/ \E f \in End : Timeout(f) \/ WriteFails(f) \/ ReadFails(f)
    <3>1. UNCHANGED <<wire, arrived, frame, got>>
      BY <2>12 DEF ClientCloses, Leave, Timeout, WriteFails, ReadFails, traffic
    <3>2. \E f \in End, to \in Leaving : pc' = [pc EXCEPT ![f] = to]
      BY <1>1, <2>12 DEF ClientCloses, Leave, Timeout, WriteFails, ReadFails, Stop, Goto, Leaving
    <3>3. PICK f \in End, to \in Leaving : pc' = [pc EXCEPT ![f] = to]
      BY <3>2
    <3>4. ~TakeNext("client") /\ ~TakeNext("gateway")
      BY <1>1, <2>0, <2>n, <3>3 DEF Leaving
    <3>5. QED
      BY <2>g, <3>1, <3>3, <3>4
  <2>13. CASE SendFails \/ UserOrNet \/ Witness \/ UNCHANGED vars
    <3>1. UNCHANGED <<wire, arrived, frame, pc>>
      BY <2>13 DEF SendFails, UserOrNet, TakePrivate, Cut, SendChat, CloseChat, SendTimesOut, NewWindow, News, Kick,
           Witness, WitnessEnters, WitnessHears, vars, transport, traffic
    <3>2. \A f \in End : got'[f] = got[f] \/ got'[f] = "astray"
      BY <1>1, <2>0, <2>13 DEF SendFails, UserOrNet, TakePrivate, Branch, AfterBranch, Cut, SendChat, CloseChat,
           SendTimesOut, NewWindow, News, Kick, Witness, WitnessEnters, WitnessHears, vars, transport
    <3>3. ~TakeNext("client") /\ ~TakeNext("gateway")
      BY <1>1, <2>0, <2>n, <3>1
    <3>4. QED
      BY <2>q, <3>1, <3>2, <3>3
  <2>14. QED
    BY <2>1, <2>2, <2>4, <2>5, <2>6, <2>7, <2>9, <2>10, <2>11, <2>12, <2>13
       DEF Next, ClientLoop, GatewayLoop, Writing, Reading
<1>5. QED
  BY <1>2, <1>3, <1>4

-----------------------------------------------------------------------------
(* The theorems *)

LEMMA ArrivedSteps ==
    ASSUME IInv, [Next]_vars, NEW e \in End
    PROVE  \/ arrived'[e] = arrived[e]
           \/ /\ ReadsBody(e) /\ ~IsKick(Head(wire[e]).item)
              /\ arrived'[e] = Append(arrived[e], Head(wire[e]).item.n)
<1> DEFINE Goal ==
       \/ arrived'[e] = arrived[e]
       \/ /\ ReadsBody(e) /\ ~IsKick(Head(wire[e]).item)
          /\ arrived'[e] = Append(arrived[e], Head(wire[e]).item.n)
<1>a. /\ "client" \in End /\ "gateway" \in End /\ (e = "client" \/ e = "gateway") /\ "client" # "gateway"
      /\ TypeOK /\ AnyStage /\ arrived \in [End -> Seq(Nat)]
  BY Ends DEF IInv, AnyStage, TypeOK
<1>s. ASSUME UNCHANGED arrived PROVE Goal
  BY <1>s
<1>1. CASE Entering
  BY <1>1, <1>s DEF Entering, Connect, ClientNoise, GatewayNoise, Hello, ClientWelcome, Selection, EnterGroup,
       ClientGroup, traffic
<1>2. CASE ClientReads
  <2>1. CASE e = "gateway"
    BY <1>a, <1>2, <2>1 DEF ClientReads
  <2>2. CASE e = "client"
    BY <1>a, <1>2, <2>2 DEF ClientReads, IsKick
  <2>3. QED
    BY <1>a, <2>1, <2>2
<1>3. CASE GatewayReads
  <2>1. CASE e = "client"
    BY <1>a, <1>3, <2>1 DEF GatewayReads
  <2>2. CASE e = "gateway"
    <3>1. ReadsBody(e) /\ arrived'[e] = Append(arrived[e], Head(wire[e]).item.n)
      BY <1>a, <1>3, <2>2 DEF GatewayReads
    <3>2. InRoom
      BY <1>a, <2>2, <3>1, LoopInRoom DEF ReadsBody, InLoop
    <3>3. IsItem(wire[e][1]) /\ Head(wire[e]) = wire[e][1]
      BY <1>a, <3>1, <3>2, BodyType
    <3>4. wire[e] \in Seq(Parts) /\ wire[e] # <<>>
      BY <1>a, <3>1, Parcels DEF ReadsBody
    <3>5. 1 \in 1..Len(wire[e])
      BY <3>4
    <3>6. ~IsKick(Head(wire[e]).item)
      BY <2>2, <3>3, <3>5 DEF IInv, Kicked
    <3>7. QED
      BY <3>1, <3>6
  <2>3. QED
    BY <1>a, <2>1, <2>2
<1>4. CASE ClientCloses \/ SendFails \/ TakeKick \/ Leave
  BY <1>4, <1>s DEF ClientCloses, SendFails, TakeKick, Leave, traffic
<1>5. CASE UserOrNet
  BY <1>5, <1>s DEF UserOrNet, TakePrivate, Cut, SendChat, CloseChat, SendTimesOut, NewWindow, News, Kick, traffic
<1>6. CASE Witness
  BY <1>6, <1>s DEF Witness, WitnessEnters, WitnessHears, traffic
<1>7. ASSUME NEW f \in End, Timeout(f) \/ Writing(f) \/ Reading(f) PROVE Goal
  BY <1>7, <1>s DEF Timeout, Writing, TakeNext, WriteHead, WriteBody, WriteFails, Reading, ReadHead, ReadStray,
       ReadFails, traffic
<1>8. CASE UNCHANGED vars
  BY <1>8, <1>s DEF vars, traffic
<1>9. QED
  BY <1>1, <1>2, <1>3, <1>4, <1>5, <1>6, <1>7, <1>8 DEF Next, ClientLoop, GatewayLoop

LEMMA InOrderStep == IInv /\ [Next]_vars => InOrder'
<1> SUFFICES ASSUME IInv, [Next]_vars, NEW e \in End
             PROVE  arrived'[e] = [i \in 1..Len(arrived'[e]) |-> i]
  BY DEF InOrder
<1>1. PICK a \in Seq(Nat) : a = arrived[e]
  BY DEF IInv, TypeOK
<1>2. a = [i \in 1..Len(a) |-> i]
  BY <1>1 DEF IInv, InOrder
<1>3. CASE arrived'[e] = arrived[e]
  BY <1>1, <1>2, <1>3
<1>4. CASE /\ ReadsBody(e) /\ ~IsKick(Head(wire[e]).item)
           /\ arrived'[e] = Append(arrived[e], Head(wire[e]).item.n)
  <2>1. arrived'[e] = Append(a, Len(a) + 1)
    BY <1>1, <1>4, ReadsNext
  <2>2. Append(a, Len(a) + 1) = [i \in 1..Len(Append(a, Len(a) + 1)) |-> i]
    <3>1. PICK m \in Nat : m = Len(a)
      BY <1>1
    <3>2. \A i \in 1..m : a[i] = i
      BY <1>2, <3>1
    <3>3. /\ Append(a, m + 1) \in Seq(Nat) /\ Len(Append(a, m + 1)) = m + 1
          /\ \A i \in 1..m + 1 : Append(a, m + 1)[i] = i
      BY <3>1, <3>2
    <3>4. QED
      BY <3>1, <3>3
  <2>3. QED
    BY <2>1, <2>2
<1>5. QED
  BY <1>3, <1>4, ArrivedSteps

LEMMA InvInit == Init => IInv
<1> SUFFICES ASSUME Init PROVE IInv
  OBVIOUS
<1>1. /\ "client" \in End /\ "gateway" \in End /\ "client" # "gateway"
      /\ \A e \in End : e = "client" \/ e = "gateway"
  BY Ends
<1>2. pc["client"] = "connect" /\ pc["gateway"] = "none" /\ \A e \in End : pc[e] \in {"connect", "none"}
  BY <1>1 DEF Init
<1>3. TypeOK
  <2>1. Nothing \in Items
    BY DEF Nothing, Item, Items
  <2>2. /\ wire \in [End -> Seq(Parts)] /\ queue \in [End -> Seq(Items)] /\ arrived \in [End -> Seq(Nat)]
        /\ told \in Seq({"joined", "left"}) /\ overs \in Seq(BOOLEAN)
    BY DEF Init
  <2>3. /\ \A e \in End : Len(wire[e]) = 0 /\ Len(queue[e]) = 0
        /\ Len(told) = 0
    BY DEF Init
  <2>4. WireCapacity \in Nat /\ QueueCapacity \in Nat /\ MaxStrikes \in Nat /\ GatewayMax \in Nat
    BY LinkAssumption
  <2>5. pc \in [End -> Shaking \cup InLoop \cup {"none", "enter", "leave", "left", "over"}]
    BY DEF Init, Shaking
  <2>6. /\ got \in [End -> {"start", "head", "astray"}] /\ sent \in [End -> Nat] /\ frame \in [End -> Items]
        /\ witness \in [here : BOOLEAN, sees : BOOLEAN]
    BY <2>1 DEF Init
  <2>7. /\ scenario \in Scenarios /\ net \in {"up", "reset", "silent"} /\ ui \in {"open", "closed"}
        /\ outcome \in {"none", "delivered", "failed"} /\ kicked \in {"no", "sent", "seen"}
        /\ registered \in BOOLEAN /\ causes \subseteq Causes /\ stored \subseteq 1..scenario.chats
    BY DEF Init
  <2>8. version \in 0..GatewayMax /\ used \in Nat /\ strikes \in 0..MaxStrikes
    BY <2>4 DEF Init
  <2>9. \A e \in End : Len(wire[e]) <= WireCapacity /\ Len(queue[e]) <= QueueCapacity
    BY <2>3, <2>4
  <2>10. Len(told) <= QueueCapacity
    BY <2>3, <2>4
  <2>11. QED
    BY <2>2, <2>5, <2>6, <2>7, <2>8, <2>9, <2>10 DEF TypeOK
<1>4. InOrder
  <2>1. \A e \in End : arrived[e] = <<>>
    BY DEF Init
  <2>2. QED
    BY <2>1 DEF InOrder
<1>5. Meeting
  BY <1>1, <1>2 DEF Init, Meeting, At
<1>6. ~InRoom
  BY <1>2 DEF InRoom, InLoop
<1>7. Fresh /\ Versions
  BY <1>1, <1>2 DEF Init, Fresh, Versions, InLoop
<1>8. Kicked /\ Echoed
  <2>1. \A e \in End : Len(queue[e]) = 0 /\ Len(wire[e]) = 0 /\ frame[e].kind = "error"
    BY DEF Init, Nothing, Item
  <2>2. kicked = "no"
    BY DEF Init
  <2>3. QED
    BY <1>1, <2>1, <2>2 DEF Kicked, Echoed, IsKick, IsEcho
<1>9. Numbered
  BY DEF Init, Numbered
<1>10. Streams
  BY <1>6 DEF Streams
<1>11. Bounded
  <2>1. scenario.chats \in Nat
    BY LinkAssumption DEF Init
  <2>2. Len(wire["gateway"]) = 0 /\ sent["client"] = 0 /\ frame["client"].n = 0
    BY <1>1 DEF Init, Nothing, Item
  <2>3. QED
    BY <2>1, <2>2 DEF Bounded
<1>12. EndsForACause /\ Caused
  BY <1>1, <1>2 DEF Init, EndsForACause, Caused
<1>13. Reported /\ RateEndsRunaways
  BY DEF Init, Reported, RateEndsRunaways
<1>14. Counted
  BY LinkAssumption DEF Init, Counted
<1>15. Listed
  BY <1>2 DEF Init, Listed, InLoop
<1>16. QED
  BY <1>3, <1>4, <1>5, <1>7, <1>8, <1>9, <1>10, <1>11, <1>12, <1>13, <1>14, <1>15 DEF IInv

LEMMA InvStep == IInv /\ [Next]_vars => IInv'
<1> SUFFICES ASSUME IInv, [Next]_vars PROVE IInv'
  OBVIOUS
<1>1. Meeting' \/ InRoom'
  BY StageStep DEF StageNext
<1>2. /\ TypeOK' /\ InOrder' /\ Fresh' /\ Versions' /\ Kicked' /\ Numbered' /\ Streams' /\ Bounded'
  BY TypeStep, InOrderStep, FreshStep, VersionsStep, KickedStep, NumberedStep, StreamsStep, BoundedStep
<1>3. /\ EndsForACause' /\ Caused' /\ Echoed' /\ Reported' /\ RateEndsRunaways' /\ Counted' /\ Listed'
  BY CausesStep, EchoedStep, ReportedStep, CountedStep, ListedStep
<1>4. QED
  BY <1>1, <1>2, <1>3 DEF IInv

LEMMA LinkInvariant == Spec => []IInv
  BY InvInit, InvStep, PTL DEF Spec

(***************************************************************************)
(* Whatever select! drops, whatever a stray reader reads, and whenever a   *)
(* kick, a timeout or the network ends the connection: each loop has read  *)
(* what the other put into its queue, from the first message on, none      *)
(* skipped and none twice (crypto.rs, finish_connection, enter_group), and *)
(* the version that handle_client chose is the newest that both builds     *)
(* know, also where the client is already in its loop.                     *)
(***************************************************************************)
THEOREM EndsAgreeCorrect == Spec => []EndsAgree
<1>1. IInv => EndsAgree
  <2>1. SUFFICES ASSUME IInv PROVE VersionIsBest
    BY DEF IInv, EndsAgree
  <2>2. /\ GatewayMin \in Nat /\ GatewayMax \in Nat /\ scenario.min \in Nat /\ scenario.max \in Nat
        /\ version \in Nat
    <3>1. scenario \in Scenarios /\ version \in 0..GatewayMax
      BY <2>1 DEF IInv, TypeOK
    <3>2. scenario.min \in Nat /\ scenario.max \in Nat
      BY <3>1, LinkAssumption
    <3>3. GatewayMin \in Nat /\ GatewayMax \in Nat
      BY LinkAssumption
    <3>4. QED
      BY <3>1, <3>2, <3>3
  <2>3. ASSUME Agreed
        PROVE  /\ version \in (GatewayMin..GatewayMax) \cap (scenario.min..scenario.max)
               /\ \A v \in (GatewayMin..GatewayMax) \cap (scenario.min..scenario.max) : v <= version
    BY <2>2, <2>3 DEF Agreed, Negotiated
  <2>4. pc["client"] \in InLoop => Agreed
    BY <2>1, LoopInRoom DEF IInv, AnyStage, InRoom
  <2>5. version # 0 => Agreed
    BY <2>1 DEF IInv, Versions
  <2>6. QED
    BY <2>3, <2>4, <2>5 DEF VersionIsBest
<1>2. QED
  BY <1>1, LinkInvariant, PTL

(***************************************************************************)
(* An end leaves its loop, or its reader goes astray, only for a cause     *)
(* that has a name; a session is cut off for its rate only when its last   *)
(* messages were all over the limit (consecutive_rate_violations); and     *)
(* what send_message says of its message is so: delivered is stored, and   *)
(* failed, where it is stored, is said only when something went wrong.     *)
(***************************************************************************)
THEOREM FailsForACauseCorrect == Spec => []FailsForACause
<1>1. IInv => FailsForACause
  <2>1. SUFFICES ASSUME IInv PROVE HonestSend
    BY DEF IInv, FailsForACause
  <2>2. ASSUME outcome = "delivered" PROVE 1 \in stored
    <3>1. stored # {} /\ scenario.chats = 1
      BY <2>1, <2>2, LinkAssumption DEF IInv, Reported, TypeOK
    <3>2. stored \subseteq 1..scenario.chats
      BY <2>1 DEF IInv, TypeOK
    <3>3. \A n \in 1..scenario.chats : n = 1
      BY <3>1
    <3>4. QED
      BY <3>1, <3>2, <3>3
  <2>3. QED
    BY <2>1, <2>2 DEF HonestSend, IInv, Reported
<1>2. QED
  BY <1>1, LinkInvariant, PTL

(***************************************************************************)
(* However the steps of enter_group and those of another session           *)
(* interleave: the other session, once it has heard all it was sent, shows *)
(* this one in its member list while it is in the group and no longer when *)
(* it is gone, unless its queue was full or there was no Welcome.          *)
(***************************************************************************)
THEOREM RosterAgreesCorrect == Spec => []RosterAgrees
<1>1. IInv => RosterAgrees
  <2>1. SUFFICES ASSUME IInv, witness.here, told = <<>>, "full" \notin causes
                 PROVE  /\ pc["gateway"] \in InLoop => witness.sees
                        /\ Over("gateway") /\ "store" \notin causes => ~witness.sees
    BY DEF RosterAgrees
  <2>2. Listed /\ (WillSee <=> witness.sees)
    BY <2>1 DEF IInv, WillSee
  <2>3. QED
    BY <2>1, <2>2 DEF Listed, Over, InLoop
<1>2. QED
  BY <1>1, LinkInvariant, PTL

================================================================================
