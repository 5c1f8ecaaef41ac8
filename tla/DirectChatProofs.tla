---------------------------- MODULE DirectChatProofs ----------------------------
(***************************************************************************)
(* That the two hubs agree, that what they tell their terminals becomes    *)
(* the view there, that what a hub drops as out of turn was not sent by a  *)
(* hub like it, that no message is just gone, and that those of one author *)
(* are shown in order: for all messages and however many links there are.  *)
(***************************************************************************)
EXTENDS DirectChat, FiniteSetTheorems, SequenceTheorems, TLAPS

-----------------------------------------------------------------------------
(* The inductive invariant: types *)

\* Chat items and message events name a message.
NamedItem == {x \in Item : x.type = "chat" => x.msg \in Message}
NamedEvent == {e \in Event : e.type = "message" => e.msg \in Message}

Typed ==
    /\ TypeOK
    /\ inbox \in [Peer -> Seq(NamedItem)]
    /\ events \in [Peer -> Seq(NamedEvent)]

-----------------------------------------------------------------------------
(* The inductive invariant: links and their ends *)

Pending(p, l) == LinkEvent("connected", l, NoMessage) \in Items(events[p])

\* The end of l at p is not with p's hub yet.
Waiting(p, l) == io[l][p] = "hello" \/ Pending(p, l)

\* p is the end of l that was called, or the one that dialed.
Called(p, l) == Waiting(p, l) \/ (link[p].id = l /\ link[p].role = "recipient")
Dialed(p, l) == link[p].id = l /\ link[p].role = "initiator"

\* No message of l has reached the hub that was called.
Unopened(p, l) ==
    Waiting(p, l) \/ (link[p].id = l /\ link[p].role = "recipient" /\ link[p].state = "new")

\* Nothing is known of a link that was not opened yet; every one that was has two ends.
OpenedAt(p) ==
    /\ link[p].id <= links
    /\ \A e \in Items(events[p]) : e.id <= links
    /\ \A l \in Links :
          /\ l > links => io[l][p] = "none" /\ wire[l][p] = <<>>
          /\ l <= links => io[l][p] # "none"
          /\ io[l][p] = "hello" => link[p].id # l /\ \A e \in Items(events[p]) : e.id # l
          /\ p \in gone => io[l][p] \in {"none", "down"}
Opened == \A p \in Peer : OpenedAt(p)

\* A session that has ended has left nothing behind.
Ended ==
    \A p \in gone :
        /\ link[p] = NoLink /\ events[p] = <<>> /\ inbox[p] = <<>>
        /\ commands[p] = <<>> /\ sending[p] = NoMessage /\ view[p] = NoView

\* The ends of a link have different roles.
Roles ==
    \A p \in Peer : \A l \in Links :
        /\ Called(p, l) => ~Called(Other(p), l) /\ ~Dialed(p, l)
        /\ Dialed(p, l) => ~Dialed(Other(p), l)

\* Connected is the first of the events s of a link, comes once, and not to a hub that
\* already has that link.
First(s, own) ==
    \A i \in 1..Len(s) :
        s[i].type = "connected" =>
            /\ s[i] = LinkEvent("connected", s[i].id, NoMessage)
            /\ own # s[i].id
            /\ \A j \in 1..Len(s) : s[j].id = s[i].id => j = i \/ (i < j /\ s[j].type # "connected")

ConnectedFirst == \A p \in Peer : First(events[p], link[p].id)

\* Among w on the wire and the events s there is a message of l, there is at most one.
Coming(w, s, l) ==
    \/ \E i \in 1..Len(w) : w[i] # NoMessage
    \/ \E j \in 1..Len(s) : s[j].type = "message" /\ s[j].id = l

Single(w, s, l) ==
    /\ \A i, j \in 1..Len(w) : w[i] # NoMessage /\ w[j] # NoMessage => i = j
    /\ \A i, j \in 1..Len(s) :
          s[i].type = "message" /\ s[i].id = l /\ s[j].type = "message" /\ s[j].id = l => i = j
    /\ \A i \in 1..Len(w), j \in 1..Len(s) : w[i] # NoMessage => ~(s[j].type = "message" /\ s[j].id = l)

AtMostOne(p, l) == Single(wire[l][p], events[p], l)

\* What the state of each end of l says of the other one and of what is on its way
Agreed(p, l) ==
    LET q == Other(p) IN
    /\ Dialed(p, l) /\ link[p].state = "new" =>
          /\ ~Incoming(p, l) /\ ~Incoming(q, l)
          /\ link[q].id = l => link[q].state = "new"
    /\ Unopened(q, l) =>
          /\ AtMostOne(q, l) /\ ~Incoming(p, l)
          /\ Dialed(p, l) => link[p].state # "active"
    /\ link[q].id = l /\ link[q].role = "recipient" /\ link[q].state = "awaiting" =>
          /\ ~Incoming(q, l) /\ ~Incoming(p, l)
          /\ Dialed(p, l) => link[p].state = "awaiting"
    /\ link[q].id = l /\ link[q].role = "recipient" /\ link[q].state = "active" /\ Dialed(p, l) =>
          /\ link[p].state # "new"
          /\ link[p].state = "awaiting" =>
                /\ ~Incoming(q, l)
                /\ Incoming(p, l) \/ io[l][p] = "down" \/ io[l][q] = "down"

Protocol == \A p \in Peer : \A l \in Links : Agreed(p, l)

-----------------------------------------------------------------------------
(* The inductive invariant: views *)

Decisive(item) == item.type \in {"chat", "closed", "left"}

\* A terminal that shows v, with q in its inbox, shows or will show, when it has read q,
\* that the conversation has this status.
Promises(v, q, status) ==
    \/ /\ v = [status |-> status, online |-> TRUE]
       /\ \A i \in 1..Len(q) : ~Decisive(q[i])
    \/ \E i \in 1..Len(q) :
          /\ q[i].type = "chat" /\ q[i].status = status
          /\ \A j \in 1..Len(q) : i < j => ~Decisive(q[j])

ViewedAt(p) ==
    link[p].state # "new" /\ NoMessage \notin Items(commands[p]) =>
        Promises(view[p], inbox[p], StatusOf(link[p]))
Viewed == \A p \in Peer : ViewedAt(p)

-----------------------------------------------------------------------------
(* The inductive invariant: what becomes of a message *)

\* A message is still to be dealt with, told of, or it went on the present link.
Accounted ==
    \A p \in Peer :
        /\ link[p] = NoLink => carried[p] = {}
        /\ p \notin gone =>
              Items(sent[p]) \subseteq Items(commands[p]) \cup {sending[p]} \cup told \cup carried[p]

\* An end that is down has told its hub and its other end.
EndsTold ==
    \A p \in Peer : \A l \in Links :
        /\ io[l][p] = "down" /\ Held(p, l) => LinkEvent("disconnected", l, NoMessage) \in Items(events[p])
        /\ io[l][p] \in {"hello", "up"} /\ io[l][Other(p)] = "down" => NoMessage \in Items(wire[l][p])

\* p is to have what comes on l, or will be.
Expects(p, l) == io[l][p] = "hello" \/ (io[l][p] = "up" /\ Held(p, l))

\* m is on its way to p on l, or there.
Reaches(p, l, m) ==
    \/ m \in Items(wire[l][p])
    \/ LinkEvent("message", l, m) \in Items(events[p])
    \/ \E x \in Items(inbox[p]) : x.type = "chat" /\ x.msg = m
    \/ m \in Items(shown[p])

\* As long as both ends are up and the other hub has the link, what it carried arrives.
ArrivesAt(p, l) ==
    link[p].id = l /\ io[l][p] = "up" /\ Expects(Other(p), l) =>
        \A m \in carried[p] : Reaches(Other(p), l, m)
Arrives == \A p \in Peer, l \in Links : ArrivesAt(p, l)

Delivery == Accounted /\ EndsTold /\ Arrives

-----------------------------------------------------------------------------
(* The inductive invariant: the order of messages *)

\* One of X is in s; one of X is before one of Y.
Has(s, X) == \E i \in 1..Len(s) : s[i] \in X
Order(s, X, Y) == \E i, j \in 1..Len(s) : i < j /\ s[i] \in X /\ s[j] \in Y

Chats(m) == {x \in NamedItem : x.type = "chat" /\ x.msg = m}
Posts(m) == {e \in NamedEvent : e.type = "message" /\ e.msg = m}

\* Where a message for p may be: shown, in the inbox, in an event, on a wire
Seen(p, m) == Has(shown[p], {m})
Listed(p, m) == Has(inbox[p], Chats(m))
Queued(p, m) == Has(events[p], Posts(m))
Wired(p, l, m) == Has(wire[l][p], {m})

Near(p, m) == Seen(p, m) \/ Listed(p, m)
Far(p, m) == Queued(p, m) \/ \E l \in Links : Wired(p, l, m)

\* m is ahead of n on the way to p's terminal.
Prior(p, m, n) ==
    \/ Order(shown[p], {m}, {n})
    \/ Order(inbox[p], Chats(m), Chats(n))
    \/ Order(events[p], Posts(m), Posts(n))
    \/ \E l \in Links : Order(wire[l][p], {m}, {n})
    \/ Seen(p, m) /\ (Listed(p, n) \/ Far(p, n))
    \/ Listed(p, m) /\ Far(p, n)
    \/ Queued(p, m) /\ \E l \in Links : Wired(p, l, n)

\* The user of a wrote m before n.
Wrote(a, m, n) == Order(sent[a], {m}, {n})

\* The hub has dealt with m; it deals with m before n.
Handled(a, m) == Has(sent[a], {m}) /\ ~Has(commands[a], {m}) /\ m # sending[a]
Turn(a, m, n) ==
    \/ Order(commands[a], {m}, {n})
    \/ m = sending[a] /\ Has(commands[a], {n})
    \/ Handled(a, m) /\ (n = sending[a] \/ Has(commands[a], {n}))

\* No message is written twice, or by both.
Distinct ==
    \A a \in Peer, m \in Message : ~Wrote(a, m, m) /\ ~(Has(sent[a], {m}) /\ Has(sent[Other(a)], {m}))

\* A hub deals with what its user wrote, in that order.
InTurn ==
    \A a \in Peer, m \in Message :
        /\ m = sending[a] \/ Has(commands[a], {m}) => Has(sent[a], {m})
        /\ \A n \in Message : Turn(a, m, n) => Wrote(a, m, n)

\* What p gets is from the other; in its terminal is also what is p's own.
Authored(p) ==
    \A m \in Message :
        /\ Far(p, m) => Handled(Other(p), m)
        /\ Near(p, m) => Handled(p, m) \/ Handled(Other(p), m)

\* A message is in one place at a time.
Once(p) ==
    \A m \in Message :
        /\ ~Prior(p, m, m)
        /\ \A k, l \in Links : Wired(p, k, m) /\ Wired(p, l, m) => k = l

\* What p gets is in its author's order, what the author was told of excepted.
Sorted(p) ==
    \A a \in Peer : \A m, n \in Message :
        /\ Prior(p, m, n) /\ Has(sent[a], {m}) /\ Has(sent[a], {n})
        /\ a = p \/ {m, n} \cap told = {}
        => Wrote(a, m, n)

\* Of what is on a wire, only what went on the present link was not told of.
PresentLink(p) ==
    \A l \in Links, m \in Message \ told :
        Wired(p, l, m) =>
            /\ Other(p) \notin gone => link[Other(p)].id = l /\ m \in carried[Other(p)]
            /\ \A k \in Links, n \in Message \ told : Wired(p, k, n) => k = l

Flow ==
    /\ Distinct /\ InTurn
    /\ \A p \in Peer : Authored(p) /\ Once(p) /\ Sorted(p) /\ PresentLink(p)

-----------------------------------------------------------------------------
(* The inductive invariant *)

Net == Opened /\ Ended /\ Roles /\ ConnectedFirst /\ Protocol

Agreement == Typed /\ Net /\ Viewed

-----------------------------------------------------------------------------
(* The two peers, sequences and values *)

LEMMA Pair ==
    ASSUME NEW p \in Peer
    PROVE  /\ Other(p) \in Peer /\ Other(p) # p /\ Other(Other(p)) = p
           /\ \A r \in Peer : r = p \/ r = Other(p)
<1>1. IsFiniteSet(Peer) /\ Cardinality(Peer) = 2
  BY ConstantsAssumption
<1>2. IsFiniteSet(Peer \ {p}) /\ Cardinality(Peer \ {p}) = 1
  BY <1>1, FS_RemoveElement
<1>3. PICK q : Peer \ {p} = {q}
  BY <1>2, FS_Singleton
<1>4. q \in Peer /\ q # p /\ \A r \in Peer : r = p \/ r = q
  BY <1>3
<1>5. Other(p) = q /\ Other(q) = p
  BY <1>4 DEF Other
<1>6. QED
  BY <1>4, <1>5

LEMMA Seqs ==
    ASSUME NEW S, NEW s \in Seq(S)
    PROVE  /\ Len(s) \in Nat /\ Items(s) \subseteq S
           /\ s = <<>> <=> Len(s) = 0
           /\ Items(<<>>) = {}
           /\ \A i \in 1..Len(s) : s[i] \in S
<1>1. Len(s) \in Nat /\ (s = <<>> <=> Len(s) = 0) /\ \A i \in 1..Len(s) : s[i] \in S
  OBVIOUS
<1>2. Items(s) \subseteq S
  BY <1>1 DEF Items
<1>3. Items(<<>>) = {}
  BY DEF Items
<1>4. QED
  BY <1>1, <1>2, <1>3

LEMMA Tailed ==
    ASSUME NEW S, NEW s \in Seq(S), s # <<>>
    PROVE  /\ Head(s) = s[1] /\ Head(s) \in S /\ Head(s) \in Items(s) /\ 1 \in 1..Len(s)
           /\ Tail(s) \in Seq(S) /\ Len(Tail(s)) = Len(s) - 1 /\ Len(s) \in Nat \ {0}
           /\ \A i \in 1..Len(Tail(s)) : i + 1 \in 1..Len(s) /\ Tail(s)[i] = s[i + 1]
           /\ \A i \in 1..Len(s) : i # 1 => i - 1 \in 1..Len(Tail(s)) /\ s[i] = Tail(s)[i - 1]
           /\ Items(s) = {Head(s)} \cup Items(Tail(s))
<1>1. /\ Head(s) = s[1] /\ Head(s) \in S /\ 1 \in 1..Len(s)
      /\ Tail(s) \in Seq(S) /\ Len(Tail(s)) = Len(s) - 1 /\ Len(s) \in Nat \ {0}
  OBVIOUS
<1>2. \A i \in 1..Len(Tail(s)) : i + 1 \in 1..Len(s) /\ Tail(s)[i] = s[i + 1]
  BY <1>1
<1>3. \A i \in 1..Len(s) : i # 1 => i - 1 \in 1..Len(Tail(s)) /\ s[i] = Tail(s)[i - 1]
  BY <1>1
<1>4. Items(s) = {Head(s)} \cup Items(Tail(s))
  <2>1. PICK t : t = Tail(s)
    OBVIOUS
  <2>2. \A i \in 1..Len(s) : s[i] = s[1] \/ s[i] \in {t[j] : j \in 1..Len(t)}
    BY <1>3, <2>1
  <2>3. \A i \in 1..Len(t) : t[i] \in {s[j] : j \in 1..Len(s)}
    BY <1>2, <2>1
  <2>4. QED
    BY <1>1, <2>1, <2>2, <2>3 DEF Items
<1>5. QED
  BY <1>1, <1>2, <1>3, <1>4

LEMMA Appended ==
    ASSUME NEW S, NEW s \in Seq(S), NEW x \in S
    PROVE  /\ Append(s, x) \in Seq(S) /\ Len(Append(s, x)) = Len(s) + 1 /\ Len(s) \in Nat
           /\ Append(s, x)[Len(s) + 1] = x
           /\ \A i \in 1..Len(s) : i \in 1..Len(Append(s, x)) /\ Append(s, x)[i] = s[i]
           /\ \A i \in 1..Len(Append(s, x)) : i \in 1..Len(s) \/ i = Len(s) + 1
           /\ Items(Append(s, x)) = Items(s) \cup {x}
<1>1. /\ Append(s, x) \in Seq(S) /\ Len(Append(s, x)) = Len(s) + 1 /\ Len(s) \in Nat
      /\ Append(s, x)[Len(s) + 1] = x
  OBVIOUS
<1>2. \A i \in 1..Len(s) : i \in 1..Len(Append(s, x)) /\ Append(s, x)[i] = s[i]
  BY <1>1
<1>3. \A i \in 1..Len(Append(s, x)) : i \in 1..Len(s) \/ i = Len(s) + 1
  BY <1>1
<1>4. Items(Append(s, x)) = Items(s) \cup {x}
  <2>1. Len(s) + 1 \in 1..Len(Append(s, x))
    BY <1>1
  <2>2. QED
    BY <1>1, <1>2, <1>3, <2>1 DEF Items
<1>5. QED
  BY <1>1, <1>2, <1>3, <1>4

\* The first k of s, and x behind them
LEMMA CutShort ==
    ASSUME NEW S, NEW s \in Seq(S), NEW x \in S, NEW k \in 0..Len(s)
    PROVE  LET c == Append(SubSeq(s, 1, k), x)
           IN  /\ c \in Seq(S) /\ Len(c) = k + 1 /\ c[k + 1] = x
               /\ \A i \in 1..Len(c) : i = k + 1 \/ (i \in 1..Len(s) /\ i <= k /\ c[i] = s[i])
               /\ x \in Items(c) /\ Items(c) \subseteq Items(s) \cup {x}
<1>1. Len(s) \in Nat /\ k \in Nat /\ k <= Len(s)
  OBVIOUS
<1>2. SubSeq(s, 1, k) \in Seq(S) /\ Len(SubSeq(s, 1, k)) = k /\ \A i \in 1..k : SubSeq(s, 1, k)[i] = s[i]
  BY <1>1
<1>3. PICK b \in Seq(S) : b = SubSeq(s, 1, k) /\ Len(b) = k /\ \A i \in 1..k : b[i] = s[i]
  BY <1>2
<1>4. /\ Append(b, x) \in Seq(S) /\ Len(Append(b, x)) = k + 1 /\ Append(b, x)[k + 1] = x
      /\ \A i \in 1..k : Append(b, x)[i] = b[i]
      /\ Items(Append(b, x)) = Items(b) \cup {x}
  <2>1. x \in S
    OBVIOUS
  <2>2. /\ Append(b, x) \in Seq(S) /\ Len(Append(b, x)) = Len(b) + 1 /\ Append(b, x)[Len(b) + 1] = x
        /\ \A i \in 1..Len(b) : Append(b, x)[i] = b[i]
        /\ Items(Append(b, x)) = Items(b) \cup {x}
    BY <2>1, Appended
  <2>3. Len(b) = k
    BY <1>3
  <2>4. QED
    BY <2>2, <2>3
<1>5. \A i \in 1..k + 1 : i = k + 1 \/ (i \in 1..Len(s) /\ i <= k /\ Append(b, x)[i] = s[i])
  BY <1>1, <1>3, <1>4
<1>6. Items(b) \subseteq Items(s)
  BY <1>1, <1>3 DEF Items
<1>7. QED
  BY <1>3, <1>4, <1>5, <1>6

LEMMA Values ==
    /\ NoMessage \notin Message
    /\ \A l \in Links : l \in Nat \ {0}
    /\ \A k \in Link : k # NoLink /\ k.id \in Links /\ k.id # 0
    /\ NoLink.id = 0 /\ NoLink.state = "new" /\ NoLink.role = "none"
    /\ \A l \in Links, role \in {"initiator", "recipient"}, state \in {"new", "awaiting", "active"} :
          [id |-> l, role |-> role, state |-> state] \in Link
    /\ \A type \in {"joined", "left", "closed", "error", "chat"} :
          Notice(type) \in Item /\ Notice(type).type = type
    /\ \A type \in {"joined", "left", "closed", "error"} : Notice(type) \in NamedItem
    /\ \A m \in Message \cup {NoMessage}, status \in Status :
          /\ Chat(m, status) \in Item
          /\ Chat(m, status).type = "chat" /\ Chat(m, status).msg = m /\ Chat(m, status).status = status
    /\ \A type \in {"connected", "message", "disconnected"}, l \in Links, m \in Message \cup {NoMessage} :
          /\ LinkEvent(type, l, m) \in Event
          /\ LinkEvent(type, l, m).type = type /\ LinkEvent(type, l, m).id = l /\ LinkEvent(type, l, m).msg = m
    /\ \A m \in Message, status \in Status : Chat(m, status) \in NamedItem
    /\ \A l \in Links : /\ \A m \in Message : LinkEvent("message", l, m) \in NamedEvent
                        /\ LinkEvent("connected", l, NoMessage) \in NamedEvent
                        /\ LinkEvent("disconnected", l, NoMessage) \in NamedEvent
    /\ \A k \in Link : StatusOf(k) \in Status \ {"none"}
  BY ConstantsAssumption DEF Links, Link, NoLink, Notice, Item, NamedItem, NamedEvent, Chat, LinkEvent, Event, StatusOf, Status

\* What sending makes of a link's state
LEMMA SendFacts ==
    ASSUME NEW k \in Link
    PROVE  /\ AfterSend(k) \in Link \cup {NoLink}
           /\ AfterSend(k) # NoLink =>
                 /\ AfterSend(k) \in Link /\ AfterSend(k).id = k.id /\ AfterSend(k).role = k.role
                 /\ \/ k.role = "initiator" /\ k.state = "new" /\ AfterSend(k).state = "awaiting"
                    \/ k.role = "recipient" /\ k.state = "awaiting" /\ AfterSend(k).state = "active"
                    \/ k.state = "active" /\ AfterSend(k).state = "active"
<1>1. k.role \in {"initiator", "recipient"} /\ k.state \in {"new", "awaiting", "active"} /\ k.id \in Links
  BY DEF Link
<1>2. \A state \in {"new", "awaiting", "active"} :
         /\ [k EXCEPT !.state = state] \in Link /\ [k EXCEPT !.state = state].id = k.id
         /\ [k EXCEPT !.state = state].role = k.role /\ [k EXCEPT !.state = state].state = state
  BY DEF Link
<1>3. QED
  BY <1>1, <1>2 DEF AfterSend

\* What a message that comes in makes of it; it is ignored in two states.
LEMMA MessageFacts ==
    ASSUME NEW k \in Link
    PROVE  /\ AfterMessage(k) \in Link \cup {NoLink}
           /\ AfterMessage(k) = NoLink <=> \/ k.role = "initiator" /\ k.state = "new"
                                           \/ k.role = "recipient" /\ k.state = "awaiting"
           /\ AfterMessage(k) # NoLink =>
                 /\ AfterMessage(k) \in Link /\ AfterMessage(k).id = k.id /\ AfterMessage(k).role = k.role
                 /\ \/ k.role = "recipient" /\ k.state = "new" /\ AfterMessage(k).state = "awaiting"
                    \/ k.role = "initiator" /\ k.state = "awaiting" /\ AfterMessage(k).state = "active"
                    \/ k.state = "active" /\ AfterMessage(k).state = "active"
<1>1. k.role \in {"initiator", "recipient"} /\ k.state \in {"new", "awaiting", "active"} /\ k.id \in Links
  BY DEF Link
<1>2. \A state \in {"new", "awaiting", "active"} :
         /\ [k EXCEPT !.state = state] \in Link /\ [k EXCEPT !.state = state].id = k.id
         /\ [k EXCEPT !.state = state].role = k.role /\ [k EXCEPT !.state = state].state = state
  BY DEF Link
<1>3. \A x \in Link : x # NoLink
  BY Values
<1>4. QED
  BY <1>1, <1>2, <1>3 DEF AfterMessage

-----------------------------------------------------------------------------
(* Types *)

LEMMA ViewFacts ==
    /\ NoView \notin View /\ NoView.online = FALSE /\ NoView.status = "absent"
    /\ \A v \in View, status \in Status, online \in BOOLEAN :
          /\ [v EXCEPT !.status = status] = [status |-> status, online |-> v.online]
          /\ [v EXCEPT !.online = online] = [status |-> v.status, online |-> online]
    /\ \A status \in Status, online \in BOOLEAN :
          /\ [status |-> status, online |-> online] \in View
          /\ [status |-> status, online |-> online].status = status
          /\ [status |-> status, online |-> online].online = online
    /\ \A v \in View : v = [status |-> v.status, online |-> v.online] /\ v.status \in Status /\ v.online \in BOOLEAN
  BY DEF NoView, View, Status

LEMMA ShowsFacts ==
    ASSUME NEW v \in View \cup {NoView}, NEW item \in Item
    PROVE  /\ Shows(v, item) \in View \cup {NoView}
           /\ item.type = "chat" => Shows(v, item) = [status |-> item.status, online |-> TRUE]
           /\ ~Decisive(item) => Shows(v, item) = v
<1>1. item.type \in {"joined", "left", "closed", "error", "chat"} /\ item.status \in Status
  BY DEF Item
<1>2. CASE item.type = "chat"
  BY <1>1, <1>2, ViewFacts DEF Shows, Decisive
<1>3. CASE item.type \in {"closed", "left"}
  <2>1. CASE v = NoView
    <3>1. Shows(v, item) = v
      BY <1>3, <2>1 DEF Shows
    <3>2. QED
      BY <1>3, <2>1, <3>1 DEF Decisive
  <2>2. CASE v # NoView
    <3>1. [v EXCEPT !.online = FALSE] \in View
      <4>1. v \in View /\ FALSE \in BOOLEAN
        BY <2>2
      <4>2. PICK f \in BOOLEAN : f <=> FALSE
        OBVIOUS
      <4>3. [v EXCEPT !.online = f] \in View
        BY <4>1, ViewFacts
      <4>4. QED
        BY <4>2, <4>3
    <3>2. QED
      BY <1>3, <2>2, <3>1 DEF Shows, Decisive
  <2>3. QED
    BY <2>1, <2>2
<1>4. CASE item.type \in {"joined", "error"}
  BY <1>4 DEF Shows, Decisive
<1>5. QED
  BY <1>1, <1>2, <1>3, <1>4

\* MemberLeft puts PeerLeft somewhere into the commands.
Splice(c, s, k, x) == c = SubSeq(s, 1, k) \o <<x>> \o SubSeq(s, k + 1, Len(s))

LEMMA Inserted ==
    ASSUME NEW S, NEW s \in Seq(S), NEW x \in S, NEW k \in 0..Len(s),
           NEW c, Splice(c, s, k, x)
    PROVE  /\ c \in Seq(S) /\ Len(c) = Len(s) + 1 /\ c[k + 1] = x
           /\ \A i \in 1..Len(c) :
                 \/ i = k + 1
                 \/ i <= k /\ i \in 1..Len(s) /\ c[i] = s[i]
                 \/ k + 1 < i /\ i - 1 \in 1..Len(s) /\ c[i] = s[i - 1]
           /\ \A i \in 1..Len(s) : (i \in 1..Len(c) /\ c[i] = s[i]) \/ (i + 1 \in 1..Len(c) /\ c[i + 1] = s[i])
           /\ Items(c) = Items(s) \cup {x}
<1>1. PICK n \in Nat : n = Len(s) /\ k \in 0..n
  OBVIOUS
<1>2. PICK a : a = SubSeq(s, 1, k)
  OBVIOUS
<1>3. a \in Seq(S) /\ Len(a) = k /\ \A i \in 1..k : a[i] = s[i]
  BY <1>1, <1>2
<1>4. PICK b : b = SubSeq(s, k + 1, n)
  OBVIOUS
<1>5. b \in Seq(S) /\ Len(b) = n - k /\ \A i \in 1..n - k : b[i] = s[k + i]
  BY <1>1, <1>4
<1>6. PICK d : d = a \o <<x>>
  OBVIOUS
<1>7. d \in Seq(S) /\ Len(d) = k + 1 /\ d[k + 1] = x /\ \A i \in 1..k : d[i] = s[i]
  BY <1>1, <1>3, <1>6
<1>8. c = d \o b
  BY <1>1, <1>2, <1>4, <1>6 DEF Splice
<1>9. /\ c \in Seq(S) /\ Len(c) = n + 1
      /\ \A i \in 1..k + 1 : c[i] = d[i]
      /\ \A i \in 1..n - k : c[k + 1 + i] = b[i]
  <2>1. Len(d) = k + 1 /\ Len(b) = n - k /\ k \in Nat /\ n - k \in Nat
    BY <1>1, <1>5, <1>7
  <2>2. PICK dl \in Nat, bl \in Nat : dl = Len(d) /\ bl = Len(b)
    BY <2>1
  <2>3. /\ c \in Seq(S) /\ Len(c) = dl + bl
        /\ \A i \in 1..dl : c[i] = d[i]
        /\ \A i \in 1..bl : c[dl + i] = b[i]
    <3>1. c \in Seq(S)
      BY <1>5, <1>7, <1>8
    <3>2. Len(c) = dl + bl
      <4>1. Len(d \o b) = Len(d) + Len(b)
        BY <1>5, <1>7, ConcatProperties
      <4>2. QED
        BY <4>1, <1>8, <2>2
    <3>3. \A i \in 1..dl : c[i] = d[i]
      BY <1>5, <1>7, <1>8, <2>2
    <3>4. \A i \in 1..bl : c[dl + i] = b[i]
      BY <1>5, <1>7, <1>8, <2>2
    <3>5. QED
      BY <3>1, <3>2, <3>3, <3>4
  <2>4. QED
    BY <1>1, <2>1, <2>2, <2>3
<1>10. c[k + 1] = x
  BY <1>1, <1>7, <1>9
<1>11. \A i \in 1..n + 1 :
          \/ i = k + 1
          \/ i <= k /\ i \in 1..n /\ c[i] = s[i]
          \/ k + 1 < i /\ i - 1 \in 1..n /\ c[i] = s[i - 1]
  <2>1. TAKE i \in 1..n + 1
  <2>2. CASE i <= k
    BY <1>1, <1>7, <1>9, <2>2
  <2>3. CASE k + 1 < i
    <3>1. i - (k + 1) \in 1..n - k /\ k + (i - (k + 1)) = i - 1 /\ k + 1 + (i - (k + 1)) = i
      BY <1>1, <2>3
    <3>2. c[k + 1 + (i - (k + 1))] = b[i - (k + 1)] /\ b[i - (k + 1)] = s[k + (i - (k + 1))]
      BY <1>5, <1>9, <3>1
    <3>3. QED
      BY <1>1, <2>3, <3>1, <3>2
  <2>4. QED
    BY <1>1, <2>2, <2>3
<1>12. \A i \in 1..n : (i \in 1..n + 1 /\ c[i] = s[i]) \/ (i + 1 \in 1..n + 1 /\ c[i + 1] = s[i])
  <2>1. TAKE i \in 1..n
  <2>2. CASE i <= k
    BY <1>1, <1>7, <1>9, <2>2
  <2>3. CASE k < i
    <3>1. i + 1 \in 1..n + 1 /\ i + 1 # k + 1 /\ ~(i + 1 <= k) /\ i + 1 - 1 = i
      BY <1>1, <2>3
    <3>2. QED
      BY <1>11, <3>1
  <2>4. QED
    BY <1>1, <2>2, <2>3
<1>13. Items(c) = Items(s) \cup {x}
  <2>1. \A i \in 1..n + 1 : c[i] = x \/ c[i] \in {s[j] : j \in 1..n}
    BY <1>10, <1>11
  <2>2. \A i \in 1..n : s[i] \in {c[j] : j \in 1..n + 1}
    BY <1>12
  <2>3. x \in {c[j] : j \in 1..n + 1}
    BY <1>1, <1>10
  <2>4. QED
    BY <1>1, <1>9, <2>1, <2>2, <2>3 DEF Items
<1>14. QED
  BY <1>1, <1>9, <1>10, <1>11, <1>12, <1>13
-----------------------------------------------------------------------------
(* Type correctness *)

LEMMA TypeInit == Init => Typed
<1>1. SUFFICES ASSUME Init PROVE Typed
  OBVIOUS
<1>2. PICK newer \in Peer : known = [p \in Peer |-> ~Faults \/ p = newer]
  BY <1>1 DEF Init
<1>3. known \in [Peer -> BOOLEAN]
  BY <1>2
<1>4. \A S : <<>> \in Seq(S)
  OBVIOUS
<1>5. links \in 0..MaxLinks /\ gone \subseteq Peer /\ told \subseteq Message
  BY <1>1, ConstantsAssumption DEF Init
<1>6. view \in [Peer -> View \cup {NoView}] /\ roster \in [Peer -> BOOLEAN]
  BY <1>1, <1>3 DEF Init
<1>7. inbox \in [Peer -> Seq(Item)] /\ commands \in [Peer -> Seq(Message \cup {NoMessage})]
  BY <1>1, <1>4 DEF Init
<1>8. sending \in [Peer -> Message \cup {NoMessage}] /\ link \in [Peer -> Link \cup {NoLink}]
  BY <1>1 DEF Init
<1>9. events \in [Peer -> Seq(Event)]
  BY <1>1, <1>4 DEF Init
<1>10. io \in [Links -> [Peer -> {"none", "hello", "up", "down"}]]
  BY <1>1 DEF Init
<1>11. wire \in [Links -> [Peer -> Seq(Message \cup {NoMessage})]]
  BY <1>1, <1>4 DEF Init
<1>12. sent \in [Peer -> Seq(Message)] /\ shown \in [Peer -> Seq(Message)]
  BY <1>1, <1>4 DEF Init
<1>13. carried \in [Peer -> SUBSET Message]
  BY <1>1 DEF Init
<1>14. inbox \in [Peer -> Seq(NamedItem)] /\ events \in [Peer -> Seq(NamedEvent)]
  BY <1>1, <1>4 DEF Init
<1>15. QED
  BY <1>3, <1>5, <1>6, <1>7, <1>8, <1>9, <1>10, <1>11, <1>12, <1>13, <1>14 DEF TypeOK, Typed

\* A sequence of a peer that grows or gives up its head keeps its type.
LEMMA SeqStep ==
    ASSUME NEW S, NEW f \in [Peer -> Seq(S)], NEW p \in Peer
    PROVE  /\ \A x \in S : [f EXCEPT ![p] = Append(@, x)] \in [Peer -> Seq(S)]
           /\ f[p] # <<>> => [f EXCEPT ![p] = Tail(@)] \in [Peer -> Seq(S)] /\ Head(f[p]) \in S
           /\ [f EXCEPT ![p] = <<>>] \in [Peer -> Seq(S)]
<1>1. \A x \in S : Append(f[p], x) \in Seq(S)
  OBVIOUS
<1>2. f[p] # <<>> => Tail(f[p]) \in Seq(S) /\ Head(f[p]) \in S
  OBVIOUS
<1>3. <<>> \in Seq(S)
  OBVIOUS
<1>4. \A s \in Seq(S) : [f EXCEPT ![p] = s] \in [Peer -> Seq(S)]
  OBVIOUS
<1>5. QED
  BY <1>1, <1>2, <1>3, <1>4

\* Messages that are named are messages.
LEMMA Known ==
    ASSUME Typed, NEW p \in Peer
    PROVE  /\ sending[p] \in Message \cup {NoMessage} /\ commands[p] \in Seq(Message \cup {NoMessage})
           /\ link[p] \in Link \cup {NoLink} /\ view[p] \in View \cup {NoView}
           /\ inbox[p] \in Seq(Item) /\ events[p] \in Seq(Event) /\ carried[p] \subseteq Message
           /\ sent[p] \in Seq(Message) /\ shown[p] \in Seq(Message) /\ known[p] \in BOOLEAN
           /\ inbox[p] \in Seq(NamedItem) /\ events[p] \in Seq(NamedEvent)
           /\ \A l \in Links : /\ io[l][p] \in {"none", "hello", "up", "down"}
                               /\ wire[l][p] \in Seq(Message \cup {NoMessage})
<1>1. sending[p] \in Message \cup {NoMessage} /\ commands[p] \in Seq(Message \cup {NoMessage})
  BY DEF TypeOK, Typed
<1>2. link[p] \in Link \cup {NoLink} /\ view[p] \in View \cup {NoView}
  BY DEF TypeOK, Typed
<1>3. inbox[p] \in Seq(Item) /\ events[p] \in Seq(Event) /\ carried[p] \subseteq Message
  BY DEF TypeOK, Typed
<1>4. sent[p] \in Seq(Message) /\ shown[p] \in Seq(Message) /\ known[p] \in BOOLEAN
  BY DEF TypeOK, Typed
<1>5. \A l \in Links : io[l][p] \in {"none", "hello", "up", "down"}
  BY DEF TypeOK, Typed
<1>6. \A l \in Links : wire[l][p] \in Seq(Message \cup {NoMessage})
  BY DEF TypeOK, Typed
<1>7. inbox[p] \in Seq(NamedItem) /\ events[p] \in Seq(NamedEvent)
  BY DEF Typed
<1>8. QED
  BY <1>1, <1>2, <1>3, <1>4, <1>5, <1>6, <1>7

\* Cutting a link changes the two ends of that link only.
LEMMA CutType ==
    ASSUME Typed, NEW p \in Peer, NEW l \in Links, Cut(l, p)
    PROVE  /\ io' \in [Links -> [Peer -> {"none", "hello", "up", "down"}]]
           /\ wire' \in [Links -> [Peer -> Seq(Message \cup {NoMessage})]]
           /\ \A k \in Links, q \in Peer : ~(k = l /\ q = p) => io'[k][q] = io[k][q]
           /\ io'[l][p] = "down"
           /\ \A k \in Links : k # l => wire'[k] = wire[k]
           /\ wire'[l][p] = <<>>
           /\ \E k \in 0..Len(wire[l][Other(p)]) :
                 wire'[l][Other(p)] = Append(SubSeq(wire[l][Other(p)], 1, k), NoMessage)
<1>1. PICK k \in 0..Len(wire[l][Other(p)]) :
         wire' = [wire EXCEPT ![l] = [q \in Peer |->
                      IF q = p THEN <<>> ELSE Append(SubSeq(wire[l][q], 1, k), NoMessage)]]
  BY DEF Cut
<1>2. io' = [io EXCEPT ![l][p] = "down"]
  BY DEF Cut
<1>3. io' \in [Links -> [Peer -> {"none", "hello", "up", "down"}]]
  BY <1>2 DEF Typed, TypeOK
<1>4. /\ \A j \in Links, q \in Peer : ~(j = l /\ q = p) => io'[j][q] = io[j][q]
      /\ io'[l][p] = "down"
  BY <1>2 DEF Typed, TypeOK
<1>5. Other(p) \in Peer /\ Other(p) # p /\ \A r \in Peer : r = p \/ r = Other(p)
  BY Pair
<1>6. Append(SubSeq(wire[l][Other(p)], 1, k), NoMessage) \in Seq(Message \cup {NoMessage})
  BY <1>5, CutShort, Known
<1>7. PICK f : f = [q \in Peer |-> IF q = p THEN <<>> ELSE Append(SubSeq(wire[l][q], 1, k), NoMessage)]
  OBVIOUS
<1>8. f \in [Peer -> Seq(Message \cup {NoMessage})]
  <2>1. <<>> \in Seq(Message \cup {NoMessage})
    OBVIOUS
  <2>2. \A q \in Peer : f[q] \in Seq(Message \cup {NoMessage})
    BY <1>5, <1>6, <1>7, <2>1
  <2>3. QED
    BY <1>7, <2>2
<1>9. wire' = [wire EXCEPT ![l] = f]
  BY <1>1, <1>7
<1>10. /\ wire' \in [Links -> [Peer -> Seq(Message \cup {NoMessage})]]
       /\ \A j \in Links : j # l => wire'[j] = wire[j]
       /\ wire'[l] = f
  BY <1>8, <1>9 DEF Typed, TypeOK
<1>11. f[p] = <<>> /\ f[Other(p)] = Append(SubSeq(wire[l][Other(p)], 1, k), NoMessage)
  BY <1>5, <1>7
<1>12. QED
  BY <1>1, <1>3, <1>4, <1>10, <1>11

LEMMA TypeUser ==
    ASSUME Typed, NEW p \in Peer,
           OpenView(p) \/ ReadInbox(p) \/ \E m \in Message : UserSends(p, m)
    PROVE  Typed'
<1>1. CASE OpenView(p)
  <2>1. view' \in [Peer -> View \cup {NoView}]
    BY <1>1, ViewFacts DEF OpenView, Typed, TypeOK, Status
  <2>2. QED
    BY <1>1, <2>1 DEF OpenView, Typed, TypeOK, netVars
<1>2. CASE ReadInbox(p)
  <2>1. inbox[p] # <<>> /\ Head(inbox[p]) \in Item /\ Head(inbox[p]) \in NamedItem
    BY <1>2, Known, SeqStep DEF ReadInbox, Typed, TypeOK
  <2>2. view' \in [Peer -> View \cup {NoView}]
    <3>1. Shows(view[p], Head(inbox[p])) \in View \cup {NoView}
      BY <2>1, Known, ShowsFacts
    <3>2. view' = [view EXCEPT ![p] = Shows(view[p], Head(inbox[p]))]
      BY <1>2 DEF ReadInbox
    <3>3. QED
      BY <3>1, <3>2 DEF Typed, TypeOK
  <2>3. roster' \in [Peer -> BOOLEAN]
    BY <1>2 DEF ReadInbox, Typed, TypeOK
  <2>4. inbox' \in [Peer -> Seq(Item)] /\ inbox' \in [Peer -> Seq(NamedItem)]
    BY <1>2, SeqStep DEF ReadInbox, Typed, TypeOK
  <2>5. shown' \in [Peer -> Seq(Message)]
    <3>1. PICK x : x = Head(inbox[p])
      OBVIOUS
    <3>2. shown' = IF x.type = "chat" THEN [shown EXCEPT ![p] = Append(@, x.msg)] ELSE shown
      BY <1>2, <3>1 DEF ReadInbox
    <3>3. shown \in [Peer -> Seq(Message)] /\ (x.type = "chat" => x.msg \in Message)
      BY <2>1, <3>1 DEF Typed, TypeOK, NamedItem
    <3>4. QED
      BY <3>2, <3>3, SeqStep
  <2>6. QED
    BY <1>2, <2>2, <2>3, <2>4, <2>5 DEF ReadInbox, Typed, TypeOK, netVars
<1>3. ASSUME NEW m \in Message, UserSends(p, m) PROVE Typed'
  <2>1. view' \in [Peer -> View \cup {NoView}]
    <3>1. view[p] \in View
      BY <1>3, Known DEF UserSends
    <3>2. \A s \in Status : [view[p] EXCEPT !.status = s] \in View
      BY <3>1, ViewFacts
    <3>3. view[p].status \in Status
      BY <3>1, ViewFacts
    <3>4. QED
      BY <1>3, <3>2, <3>3 DEF UserSends, Typed, TypeOK, Status
  <2>2. commands' \in [Peer -> Seq(Message \cup {NoMessage})]
    BY <1>3, SeqStep DEF UserSends, Typed, TypeOK
  <2>3. sent' \in [Peer -> Seq(Message)]
    BY <1>3, SeqStep DEF UserSends, Typed, TypeOK
  <2>4. QED
    BY <1>3, <2>1, <2>2, <2>3 DEF UserSends, Typed, TypeOK, netVars
<1>4. QED
  BY <1>1, <1>2, <1>3
\* What the terminal and the hub are given has their type.
LEMMA GivenType ==
    ASSUME Typed, NEW p \in Peer
    PROVE  /\ \A x \in NamedItem : x \in Item => /\ [inbox EXCEPT ![p] = Append(@, x)] \in [Peer -> Seq(Item)]
                                                /\ [inbox EXCEPT ![p] = Append(@, x)] \in [Peer -> Seq(NamedItem)]
           /\ \A e \in NamedEvent : e \in Event => /\ [events EXCEPT ![p] = Append(@, e)] \in [Peer -> Seq(Event)]
                                                  /\ [events EXCEPT ![p] = Append(@, e)] \in [Peer -> Seq(NamedEvent)]
           /\ events[p] # <<>> => /\ [events EXCEPT ![p] = Tail(@)] \in [Peer -> Seq(Event)]
                                  /\ [events EXCEPT ![p] = Tail(@)] \in [Peer -> Seq(NamedEvent)]
                                  /\ Head(events[p]) \in Event /\ Head(events[p]) \in NamedEvent
           /\ commands[p] # <<>> => /\ [commands EXCEPT ![p] = Tail(@)] \in [Peer -> Seq(Message \cup {NoMessage})]
                                    /\ Head(commands[p]) \in Message \cup {NoMessage}
<1>1. /\ inbox \in [Peer -> Seq(Item)] /\ inbox \in [Peer -> Seq(NamedItem)]
      /\ events \in [Peer -> Seq(Event)] /\ events \in [Peer -> Seq(NamedEvent)]
      /\ commands \in [Peer -> Seq(Message \cup {NoMessage})]
  BY DEF Typed, TypeOK
<1>2. \A x \in NamedItem : x \in Item => /\ [inbox EXCEPT ![p] = Append(@, x)] \in [Peer -> Seq(Item)]
                                        /\ [inbox EXCEPT ![p] = Append(@, x)] \in [Peer -> Seq(NamedItem)]
  BY <1>1, SeqStep
<1>3. \A e \in NamedEvent : e \in Event => /\ [events EXCEPT ![p] = Append(@, e)] \in [Peer -> Seq(Event)]
                                          /\ [events EXCEPT ![p] = Append(@, e)] \in [Peer -> Seq(NamedEvent)]
  BY <1>1, SeqStep
<1>4. events[p] # <<>> => /\ [events EXCEPT ![p] = Tail(@)] \in [Peer -> Seq(Event)]
                          /\ [events EXCEPT ![p] = Tail(@)] \in [Peer -> Seq(NamedEvent)]
                          /\ Head(events[p]) \in Event /\ Head(events[p]) \in NamedEvent
  BY <1>1, SeqStep
<1>5. commands[p] # <<>> => /\ [commands EXCEPT ![p] = Tail(@)] \in [Peer -> Seq(Message \cup {NoMessage})]
                            /\ Head(commands[p]) \in Message \cup {NoMessage}
  BY <1>1, SeqStep
<1>6. QED
  BY <1>2, <1>3, <1>4, <1>5

\* What Leave does to the tasks and the wires of the one who leaves
LEMMA LeaveType ==
    ASSUME Typed, NEW p \in Peer, Leave(p)
    PROVE  /\ io' \in [Links -> [Peer -> {"none", "hello", "up", "down"}]]
           /\ wire' \in [Links -> [Peer -> Seq(Message \cup {NoMessage})]]
           /\ \A l \in Links : io'[l][Other(p)] = io[l][Other(p)]
           /\ \A l \in Links : io[l][p] \in {"hello", "up"} =>
                 /\ io'[l][p] = "down" /\ wire'[l][p] = <<>>
                 /\ wire'[l][Other(p)] = Append(wire[l][Other(p)], NoMessage)
           /\ \A l \in Links : io[l][p] \notin {"hello", "up"} => io'[l][p] = io[l][p] /\ wire'[l] = wire[l]
<1>1. PICK live : live = {l \in Links : io[l][p] \in {"hello", "up"}}
  OBVIOUS
<1>2. /\ io' = [l \in Links |-> [io[l] EXCEPT ![p] = IF l \in live THEN "down" ELSE @]]
      /\ wire' = [l \in Links |->
              IF l \in live
              THEN [q \in Peer |-> IF q = p THEN <<>> ELSE Append(wire[l][q], NoMessage)]
              ELSE wire[l]]
  BY <1>1 DEF Leave
<1>3. Other(p) \in Peer /\ Other(p) # p
  BY Pair
<1>4. io \in [Links -> [Peer -> {"none", "hello", "up", "down"}]]
  BY DEF Typed, TypeOK
<1>5. \A l \in Links : io'[l] = [io[l] EXCEPT ![p] = IF l \in live THEN "down" ELSE @]
  BY <1>2
<1>6. \A l \in Links : io[l] \in [Peer -> {"none", "hello", "up", "down"}]
  BY <1>4
<1>7. \A l \in Links : io'[l] \in [Peer -> {"none", "hello", "up", "down"}]
  <2>1. TAKE l \in Links
  <2>2. PICK x : x = IF l \in live THEN "down" ELSE io[l][p]
    OBVIOUS
  <2>3. x \in {"none", "hello", "up", "down"}
    BY <1>6, <2>2
  <2>4. io'[l] = [io[l] EXCEPT ![p] = x]
    BY <1>5, <2>2
  <2>5. QED
    BY <1>6, <2>3, <2>4
<1>8. io' \in [Links -> [Peer -> {"none", "hello", "up", "down"}]]
  BY <1>2, <1>7
<1>9. \A l \in Links : wire[l] \in [Peer -> Seq(Message \cup {NoMessage})]
  BY DEF Typed, TypeOK
<1>10. \A l \in Links : l \in live => wire'[l] = [q \in Peer |-> IF q = p THEN <<>> ELSE Append(wire[l][q], NoMessage)]
  BY <1>2
<1>11. \A l \in Links : l \notin live => wire'[l] = wire[l]
  BY <1>2
<1>12. \A l \in Links : wire'[l] \in [Peer -> Seq(Message \cup {NoMessage})]
  <2>1. TAKE l \in Links
  <2>2. \A q \in Peer : <<>> \in Seq(Message \cup {NoMessage}) /\ Append(wire[l][q], NoMessage) \in Seq(Message \cup {NoMessage})
    <3>1. TAKE q \in Peer
    <3>2. wire[l][q] \in Seq(Message \cup {NoMessage})
      BY <1>9
    <3>3. QED
      BY <3>2
  <2>3. CASE l \in live
    BY <1>10, <2>2, <2>3
  <2>4. CASE l \notin live
    BY <1>9, <1>11, <2>4
  <2>5. QED
    BY <2>3, <2>4
<1>13. wire' \in [Links -> [Peer -> Seq(Message \cup {NoMessage})]]
  BY <1>2, <1>12
<1>14. \A l \in Links : io'[l][Other(p)] = io[l][Other(p)]
  BY <1>3, <1>5, <1>6
<1>15. \A l \in Links : io[l][p] \in {"hello", "up"} =>
          /\ io'[l][p] = "down" /\ wire'[l][p] = <<>>
          /\ wire'[l][Other(p)] = Append(wire[l][Other(p)], NoMessage)
  <2>1. SUFFICES ASSUME NEW l \in Links, io[l][p] \in {"hello", "up"}
                 PROVE  /\ io'[l][p] = "down" /\ wire'[l][p] = <<>>
                        /\ wire'[l][Other(p)] = Append(wire[l][Other(p)], NoMessage)
    OBVIOUS
  <2>2. l \in live
    BY <1>1, <2>1
  <2>3. io'[l][p] = "down"
    BY <1>5, <1>6, <2>2
  <2>4. wire'[l] = [q \in Peer |-> IF q = p THEN <<>> ELSE Append(wire[l][q], NoMessage)]
    BY <1>10, <2>2
  <2>5. QED
    BY <1>3, <2>3, <2>4
<1>16. \A l \in Links : io[l][p] \notin {"hello", "up"} => io'[l][p] = io[l][p] /\ wire'[l] = wire[l]
  BY <1>1, <1>5, <1>6, <1>11
<1>17. QED
  BY <1>8, <1>13, <1>14, <1>15, <1>16

LEMMA TypeGateway ==
    ASSUME Typed, NEW p \in Peer, LearnPeer(p) \/ ForgetPeer(p) \/ Leave(p)
    PROVE  Typed'
<1>0. Notice("joined") \in NamedItem /\ Notice("left") \in NamedItem
      /\ Notice("joined") \in Item /\ Notice("left") \in Item
  BY Values
<1>1. CASE LearnPeer(p)
  <2>1. known' \in [Peer -> BOOLEAN]
    BY <1>1 DEF LearnPeer, Typed, TypeOK
  <2>2. inbox' \in [Peer -> Seq(Item)] /\ inbox' \in [Peer -> Seq(NamedItem)]
    BY <1>0, <1>1, GivenType DEF LearnPeer
  <2>3. QED
    BY <1>1, <2>1, <2>2 DEF LearnPeer, Typed, TypeOK, netVars, uiVars
<1>2. CASE ForgetPeer(p)
  <2>1. known' \in [Peer -> BOOLEAN]
    BY <1>2 DEF ForgetPeer, Typed, TypeOK
  <2>2. inbox' \in [Peer -> Seq(Item)] /\ inbox' \in [Peer -> Seq(NamedItem)]
    BY <1>0, <1>2, GivenType DEF ForgetPeer
  <2>3. commands' \in [Peer -> Seq(Message \cup {NoMessage})]
    <3>1. commands[p] \in Seq(Message \cup {NoMessage}) /\ NoMessage \in Message \cup {NoMessage}
      BY Known
    <3>2. PICK k \in 0..Len(commands[p]) :
             commands' = [commands EXCEPT ![p] =
                SubSeq(@, 1, k) \o <<NoMessage>> \o SubSeq(@, k + 1, Len(@))]
      BY <1>2 DEF ForgetPeer
    <3>3. SubSeq(commands[p], 1, k) \o <<NoMessage>> \o SubSeq(commands[p], k + 1, Len(commands[p]))
             \in Seq(Message \cup {NoMessage})
      BY <3>1
    <3>4. QED
      BY <3>2, <3>3 DEF Typed, TypeOK
  <2>4. QED
    BY <1>2, <2>1, <2>2, <2>3 DEF ForgetPeer, Typed, TypeOK, netVars, uiVars
<1>3. CASE Leave(p)
  <2>1. /\ io' \in [Links -> [Peer -> {"none", "hello", "up", "down"}]]
        /\ wire' \in [Links -> [Peer -> Seq(Message \cup {NoMessage})]]
    BY <1>3, LeaveType
  <2>2. /\ gone' = {p} /\ view' = [view EXCEPT ![p] = NoView] /\ inbox' = [inbox EXCEPT ![p] = <<>>]
        /\ commands' = [commands EXCEPT ![p] = <<>>] /\ sending' = [sending EXCEPT ![p] = NoMessage]
        /\ link' = [link EXCEPT ![p] = NoLink] /\ events' = [events EXCEPT ![p] = <<>>]
        /\ carried' = [carried EXCEPT ![p] = {}]
    BY <1>3 DEF Leave
  <2>3. view' \in [Peer -> View \cup {NoView}] /\ sending' \in [Peer -> Message \cup {NoMessage}]
    BY <2>2 DEF Typed, TypeOK
  <2>4. inbox' \in [Peer -> Seq(Item)] /\ inbox' \in [Peer -> Seq(NamedItem)]
    BY <2>2, SeqStep DEF Typed, TypeOK
  <2>5. commands' \in [Peer -> Seq(Message \cup {NoMessage})]
    BY <2>2, SeqStep DEF Typed, TypeOK
  <2>6. events' \in [Peer -> Seq(Event)] /\ events' \in [Peer -> Seq(NamedEvent)]
    BY <2>2, SeqStep DEF Typed, TypeOK
  <2>7. link' \in [Peer -> Link \cup {NoLink}] /\ carried' \in [Peer -> SUBSET Message]
    BY <2>2 DEF Typed, TypeOK
  <2>8. UNCHANGED <<known, roster, links, sent, shown, told>> /\ gone' \subseteq Peer
    BY <1>3, <2>2 DEF Leave
  <2>9. QED
    BY <2>1, <2>3, <2>4, <2>5, <2>6, <2>7, <2>8 DEF Typed, TypeOK
<1>4. QED
  BY <1>1, <1>2, <1>3
LEMMA TypeCommands ==
    ASSUME Typed, NEW p \in Peer,
           TakeSend(p) \/ DialFails(p) \/ DialSucceeds(p) \/ SendOnLink(p) \/ PeerLeft(p)
    PROVE  Typed'
<1>0. /\ Notice("error") \in NamedItem /\ Notice("closed") \in NamedItem
      /\ Notice("error") \in Item /\ Notice("closed") \in Item
  BY Values
<1>1. CASE TakeSend(p)
  <2>1. commands' \in [Peer -> Seq(Message \cup {NoMessage})] /\ Head(commands[p]) \in Message \cup {NoMessage}
    BY <1>1, GivenType DEF TakeSend, TakesCommand
  <2>2. sending' \in [Peer -> Message \cup {NoMessage}]
    BY <1>1, <2>1 DEF TakeSend, Typed, TypeOK
  <2>3. QED
    BY <1>1, <2>1, <2>2 DEF TakeSend, Typed, TypeOK, netVars, uiVars
<1>2. CASE DialFails(p)
  <2>1. inbox' \in [Peer -> Seq(Item)] /\ inbox' \in [Peer -> Seq(NamedItem)]
    BY <1>0, <1>2, GivenType DEF DialFails, Fail
  <2>2. sending' \in [Peer -> Message \cup {NoMessage}] /\ told' \subseteq Message
    <3>1. sending[p] \in Message
      BY <1>2, Known DEF DialFails
    <3>2. QED
      BY <1>2, <3>1 DEF DialFails, Fail, Typed, TypeOK
  <2>3. QED
    BY <1>2, <2>1, <2>2 DEF DialFails, Typed, TypeOK, netVars, uiVars
<1>3. CASE DialSucceeds(p)
  <2>1. PICK l : l = links + 1
    OBVIOUS
  <2>2. l \in Links /\ l \in 0..MaxLinks
    BY <1>3, <2>1, ConstantsAssumption DEF DialSucceeds, Links, Typed, TypeOK
  <2>3. links' \in 0..MaxLinks
    BY <1>3, <2>1, <2>2 DEF DialSucceeds
  <2>4. [q \in Peer |-> IF q = p THEN "up" ELSE "hello"] \in [Peer -> {"none", "hello", "up", "down"}]
    OBVIOUS
  <2>5. io' \in [Links -> [Peer -> {"none", "hello", "up", "down"}]]
    <3>1. io' = [io EXCEPT ![l] = [q \in Peer |-> IF q = p THEN "up" ELSE "hello"]]
      BY <1>3, <2>1 DEF DialSucceeds
    <3>2. QED
      BY <2>4, <3>1 DEF Typed, TypeOK
  <2>6. link' \in [Peer -> Link \cup {NoLink}]
    <3>1. [id |-> l, role |-> "initiator", state |-> "new"] \in Link
      BY <2>2, Values
    <3>2. QED
      BY <1>3, <2>1, <3>1 DEF DialSucceeds, Typed, TypeOK
  <2>7. QED
    BY <1>3, <2>3, <2>5, <2>6 DEF DialSucceeds, Typed, TypeOK, uiVars
<1>4. CASE SendOnLink(p)
  <2>1. /\ sending' = [sending EXCEPT ![p] = NoMessage] /\ sending[p] \in Message /\ link[p] \in Link
        /\ UNCHANGED <<gone, known, uiVars, commands, events, io, links>>
    BY <1>4, Known DEF SendOnLink
  <2>2. sending' \in [Peer -> Message \cup {NoMessage}]
    BY <2>1 DEF Typed, TypeOK
  <2>3. CASE /\ Fail(p, sending[p], {})
             /\ UNCHANGED <<link, wire, carried>>
    <3>1. inbox' \in [Peer -> Seq(Item)] /\ inbox' \in [Peer -> Seq(NamedItem)] /\ told' \subseteq Message
      BY <1>0, <2>1, <2>3, GivenType DEF Fail, Typed, TypeOK
    <3>2. QED
      BY <2>1, <2>2, <2>3, <3>1 DEF Typed, TypeOK, uiVars
  <2>4. CASE /\ AfterSend(link[p]) # NoLink
             /\ link' = [link EXCEPT ![p] = AfterSend(link[p])]
             /\ wire' = [wire EXCEPT ![link[p].id][Other(p)] = Append(@, sending[p])]
             /\ carried' = [carried EXCEPT ![p] = @ \cup {sending[p]}]
             /\ inbox' = [inbox EXCEPT ![p] = Append(@, Chat(sending[p], StatusOf(AfterSend(link[p]))))]
             /\ UNCHANGED told
    <3>1. AfterSend(link[p]) \in Link
      BY <2>1, <2>4, SendFacts
    <3>2. link' \in [Peer -> Link \cup {NoLink}] /\ carried' \in [Peer -> SUBSET Message]
      BY <2>1, <2>4, <3>1 DEF Typed, TypeOK
    <3>3. inbox' \in [Peer -> Seq(Item)] /\ inbox' \in [Peer -> Seq(NamedItem)]
      <4>1. StatusOf(AfterSend(link[p])) \in Status
        BY <3>1, Values
      <4>2. Chat(sending[p], StatusOf(AfterSend(link[p]))) \in Item /\ Chat(sending[p], StatusOf(AfterSend(link[p]))) \in NamedItem
        BY <2>1, <4>1, Values
      <4>3. QED
        BY <2>4, <4>2, GivenType
    <3>4. wire' \in [Links -> [Peer -> Seq(Message \cup {NoMessage})]]
      <4>1. link[p].id \in Links /\ Other(p) \in Peer /\ sending[p] \in Message \cup {NoMessage}
        BY <2>1, Values, Pair
      <4>2. wire[link[p].id][Other(p)] \in Seq(Message \cup {NoMessage})
        BY <4>1, Known
      <4>3. Append(wire[link[p].id][Other(p)], sending[p]) \in Seq(Message \cup {NoMessage})
        BY <4>1, <4>2
      <4>4. QED
        BY <2>4, <4>1, <4>3 DEF Typed, TypeOK
    <3>5. QED
      BY <2>1, <2>2, <2>4, <3>2, <3>3, <3>4 DEF Typed, TypeOK, uiVars
  <2>5. CASE /\ link' = [link EXCEPT ![p] = NoLink]
             /\ carried' = [carried EXCEPT ![p] = {}]
             /\ Fail(p, sending[p], carried[p])
             /\ UNCHANGED wire
    <3>1. inbox' \in [Peer -> Seq(Item)] /\ inbox' \in [Peer -> Seq(NamedItem)]
      BY <1>0, <2>5, GivenType DEF Fail
    <3>2. told' \subseteq Message
      BY <2>1, <2>5, Known DEF Fail, Typed, TypeOK
    <3>3. link' \in [Peer -> Link \cup {NoLink}] /\ carried' \in [Peer -> SUBSET Message]
      BY <2>5 DEF Typed, TypeOK
    <3>4. QED
      BY <2>1, <2>2, <2>5, <3>1, <3>2, <3>3 DEF Typed, TypeOK, uiVars
  <2>6. QED
    BY <1>4, <2>3, <2>4, <2>5 DEF SendOnLink
<1>5. CASE PeerLeft(p)
  <2>1. commands' \in [Peer -> Seq(Message \cup {NoMessage})]
    BY <1>5, GivenType DEF PeerLeft, TakesCommand
  <2>2. CASE CloseLink(p)
    <3>1. inbox' \in [Peer -> Seq(Item)] /\ inbox' \in [Peer -> Seq(NamedItem)]
      BY <1>0, <2>2, GivenType DEF CloseLink
    <3>2. told' \subseteq Message
      BY <2>2, Known DEF CloseLink, Typed, TypeOK
    <3>3. link' \in [Peer -> Link \cup {NoLink}] /\ carried' \in [Peer -> SUBSET Message]
      BY <2>2 DEF CloseLink, Typed, TypeOK
    <3>4. QED
      BY <1>5, <2>1, <3>1, <3>2, <3>3 DEF PeerLeft, Typed, TypeOK, netVars, uiVars
  <2>3. CASE UNCHANGED <<link, carried, told, inbox>>
    BY <1>5, <2>1, <2>3 DEF PeerLeft, Typed, TypeOK, netVars, uiVars
  <2>4. QED
    BY <1>5, <2>2, <2>3 DEF PeerLeft
<1>6. QED
  BY <1>1, <1>2, <1>3, <1>4, <1>5
LEMMA TypeEvents ==
    ASSUME Typed, NEW p \in Peer, HubConnected(p) \/ HubMessage(p) \/ HubDisconnected(p)
    PROVE  Typed'
<1>0. Notice("closed") \in NamedItem /\ Notice("closed") \in Item
  BY Values
<1>a. /\ events[p] # <<>> /\ events' \in [Peer -> Seq(Event)] /\ events' \in [Peer -> Seq(NamedEvent)]
      /\ Head(events[p]) \in Event /\ Head(events[p]) \in NamedEvent
  BY GivenType DEF HubConnected, HubMessage, HubDisconnected, TakesEvent
<1>1. CASE HubConnected(p)
  <2>1. link' \in [Peer -> Link \cup {NoLink}]
    <3>1. Head(events[p]).id \in Links
      BY <1>a DEF Event
    <3>2. [id |-> Head(events[p]).id, role |-> "recipient", state |-> "new"] \in Link
      BY <3>1, Values
    <3>3. QED
      BY <1>1, <3>2 DEF HubConnected, Typed, TypeOK
  <2>2. QED
    BY <1>1, <1>a, <2>1 DEF HubConnected, Typed, TypeOK, netVars, uiVars
<1>2. CASE HubMessage(p)
  <2>1. CASE /\ link' = [link EXCEPT ![p] = AfterMessage(link[p])] /\ AfterMessage(link[p]) # NoLink
             /\ Head(events[p]).id = link[p].id /\ Head(events[p]).type = "message"
             /\ inbox' = [inbox EXCEPT ![p] = Append(@, Chat(Head(events[p]).msg, StatusOf(AfterMessage(link[p]))))]
    <3>1. Head(events[p]).msg \in Message /\ link[p].id \in Links /\ link[p] \in Link \cup {NoLink}
      BY <1>a, <2>1, Known DEF NamedEvent, Event
    <3>2. link[p] \in Link
      BY <3>1, Values
    <3>3. AfterMessage(link[p]) \in Link
      BY <2>1, <3>2, MessageFacts
    <3>4. link' \in [Peer -> Link \cup {NoLink}]
      BY <2>1, <3>3 DEF Typed, TypeOK
    <3>5. inbox' \in [Peer -> Seq(Item)] /\ inbox' \in [Peer -> Seq(NamedItem)]
      <4>1. PICK s \in Status : s = StatusOf(AfterMessage(link[p]))
        BY <3>3, Values
      <4>2. Chat(Head(events[p]).msg, s) \in Item /\ Chat(Head(events[p]).msg, s) \in NamedItem
        BY <3>1, Values
      <4>3. QED
        BY <2>1, <4>1, <4>2, GivenType
    <3>6. QED
      BY <1>2, <1>a, <3>4, <3>5 DEF HubMessage, Typed, TypeOK, netVars, uiVars
  <2>2. CASE UNCHANGED <<link, inbox>>
    BY <1>2, <1>a, <2>2 DEF HubMessage, Typed, TypeOK, netVars, uiVars
  <2>3. QED
    BY <1>2, <2>1, <2>2 DEF HubMessage, TakesEvent
<1>3. CASE HubDisconnected(p)
  <2>1. CASE CloseLink(p)
    <3>1. inbox' \in [Peer -> Seq(Item)] /\ inbox' \in [Peer -> Seq(NamedItem)]
      BY <1>0, <2>1, GivenType DEF CloseLink
    <3>2. told' \subseteq Message
      BY <2>1, Known DEF CloseLink, Typed, TypeOK
    <3>3. link' \in [Peer -> Link \cup {NoLink}] /\ carried' \in [Peer -> SUBSET Message]
      BY <2>1 DEF CloseLink, Typed, TypeOK
    <3>4. QED
      BY <1>3, <1>a, <3>1, <3>2, <3>3 DEF HubDisconnected, Typed, TypeOK, netVars, uiVars
  <2>2. CASE UNCHANGED <<link, carried, told, inbox>>
    BY <1>3, <1>a, <2>2 DEF HubDisconnected, Typed, TypeOK, netVars, uiVars
  <2>3. QED
    BY <1>3, <2>1, <2>2 DEF HubDisconnected
<1>4. QED
  BY <1>1, <1>2, <1>3

LEMMA TypeTasks ==
    ASSUME Typed, NEW p \in Peer, NEW l \in Links, LinkTask(p, l)
    PROVE  Typed'
<1>0. /\ LinkEvent("connected", l, NoMessage) \in NamedEvent /\ LinkEvent("disconnected", l, NoMessage) \in NamedEvent
      /\ LinkEvent("connected", l, NoMessage) \in Event /\ LinkEvent("disconnected", l, NoMessage) \in Event
  BY Values
<1>1. CASE Accept(p, l)
  <2>1. events' \in [Peer -> Seq(Event)] /\ events' \in [Peer -> Seq(NamedEvent)]
    BY <1>0, <1>1, GivenType DEF Accept, AddEvent
  <2>2. io' \in [Links -> [Peer -> {"none", "hello", "up", "down"}]]
    BY <1>1 DEF Accept, Typed, TypeOK
  <2>3. QED
    BY <1>1, <2>1, <2>2 DEF Accept, Typed, TypeOK, uiVars
<1>2. CASE RefuseHello(p, l)
  <2>1. /\ io' \in [Links -> [Peer -> {"none", "hello", "up", "down"}]]
        /\ wire' \in [Links -> [Peer -> Seq(Message \cup {NoMessage})]]
    BY <1>2, CutType DEF RefuseHello
  <2>2. QED
    BY <1>2, <2>1 DEF RefuseHello, Typed, TypeOK, uiVars
<1>3. CASE LinkReceives(p, l)
  <2>1. wire[l][p] \in Seq(Message \cup {NoMessage}) /\ wire[l][p] # <<>> /\ Head(wire[l][p]) # NoMessage
    BY <1>3, Known DEF LinkReceives
  <2>2. Head(wire[l][p]) \in Message /\ Tail(wire[l][p]) \in Seq(Message \cup {NoMessage})
    BY <2>1, Tailed
  <2>3. LinkEvent("message", l, Head(wire[l][p])) \in Event /\ LinkEvent("message", l, Head(wire[l][p])) \in NamedEvent
    BY <2>2, Values
  <2>4. events' \in [Peer -> Seq(Event)] /\ events' \in [Peer -> Seq(NamedEvent)]
    BY <1>3, <2>3, GivenType DEF LinkReceives, AddEvent
  <2>5. wire' \in [Links -> [Peer -> Seq(Message \cup {NoMessage})]]
    BY <1>3, <2>2 DEF LinkReceives, Typed, TypeOK
  <2>6. QED
    BY <1>3, <2>4, <2>5 DEF LinkReceives, Typed, TypeOK, uiVars
<1>4. CASE LinkEnds(p, l)
  <2>1. /\ io' \in [Links -> [Peer -> {"none", "hello", "up", "down"}]]
        /\ wire' \in [Links -> [Peer -> Seq(Message \cup {NoMessage})]]
    BY <1>4, CutType DEF LinkEnds
  <2>2. events' \in [Peer -> Seq(Event)] /\ events' \in [Peer -> Seq(NamedEvent)]
    BY <1>0, <1>4, GivenType DEF LinkEnds, AddEvent
  <2>3. QED
    BY <1>4, <2>1, <2>2 DEF LinkEnds, Typed, TypeOK, uiVars
<1>5. QED
  BY <1>1, <1>2, <1>3, <1>4 DEF LinkTask

LEMMA TypeStep == Typed /\ [Next]_vars => Typed'
<1>1. SUFFICES ASSUME Typed, [Next]_vars PROVE Typed'
  OBVIOUS
<1>2. CASE UNCHANGED vars
  BY <1>1, <1>2 DEF vars, netVars, uiVars, Typed, TypeOK
<1>3. ASSUME NEW p \in Peer,
             \/ OpenView(p) \/ ReadInbox(p)
             \/ \E m \in Message : UserSends(p, m)
             \/ LearnPeer(p) \/ ForgetPeer(p) \/ Leave(p)
             \/ Hub(p)
             \/ \E l \in Links : LinkTask(p, l)
      PROVE  Typed'
  BY <1>1, <1>3, TypeUser, TypeGateway, TypeCommands, TypeEvents, TypeTasks DEF Hub
<1>4. QED
  BY <1>1, <1>2, <1>3 DEF Next

\* Types are kept, however many links are opened.
THEOREM TypeCorrect == Spec => []TypeOK
<1>1. Typed => TypeOK
  BY DEF Typed
<1>2. QED
  BY <1>1, TypeInit, TypeStep, PTL DEF Spec
-----------------------------------------------------------------------------
(* Events in their order, and messages on their way *)

LEMMA FirstFacts ==
    ASSUME NEW s \in Seq(Event), NEW own, First(s, own)
    PROVE  /\ s # <<>> => First(Tail(s), own)
           /\ \A e \in Event : e.type # "connected" => First(Append(s, e), own)
           /\ \A l \in Links : own # l /\ (\A e \in Items(s) : e.id # l) =>
                 First(Append(s, LinkEvent("connected", l, NoMessage)), own)
           /\ \A l : (\A e \in Items(s) : e.id # l) => First(s, l)
           /\ s # <<>> /\ Head(s).type = "connected" => First(Tail(s), Head(s).id)
           /\ First(s, 0)
           /\ First(<<>>, own)
<1>1. ASSUME s # <<>>
      PROVE  First(Tail(s), own) /\ (Head(s).type = "connected" => First(Tail(s), Head(s).id))
  <2>1. PICK t : t = Tail(s)
    OBVIOUS
  <2>2. /\ Head(s) = s[1] /\ 1 \in 1..Len(s) /\ Len(s) \in Nat /\ Len(t) = Len(s) - 1
        /\ \A i \in 1..Len(t) : i + 1 \in 1..Len(s) /\ t[i] = s[i + 1]
    BY <1>1, <2>1, Tailed
  <2>3. First(t, own)
    <3>1. SUFFICES ASSUME NEW i \in 1..Len(t), t[i].type = "connected"
                   PROVE  /\ t[i] = LinkEvent("connected", t[i].id, NoMessage)
                          /\ own # t[i].id
                          /\ \A j \in 1..Len(t) : t[j].id = t[i].id => j = i \/ (i < j /\ t[j].type # "connected")
      BY DEF First
    <3>2. i + 1 \in 1..Len(s) /\ t[i] = s[i + 1] /\ i \in Nat
      BY <2>2
    <3>3. /\ t[i] = LinkEvent("connected", t[i].id, NoMessage) /\ own # t[i].id
          /\ \A j \in 1..Len(s) : s[j].id = s[i + 1].id => j = i + 1 \/ (i + 1 < j /\ s[j].type # "connected")
      BY <3>1, <3>2 DEF First
    <3>4. \A j \in 1..Len(t) : t[j].id = t[i].id => j = i \/ (i < j /\ t[j].type # "connected")
      <4>1. SUFFICES ASSUME NEW j \in 1..Len(t), t[j].id = t[i].id
                     PROVE  j = i \/ (i < j /\ t[j].type # "connected")
        OBVIOUS
      <4>2. j + 1 \in 1..Len(s) /\ t[j] = s[j + 1] /\ j \in Nat
        BY <2>2
      <4>3. j + 1 = i + 1 \/ (i + 1 < j + 1 /\ s[j + 1].type # "connected")
        BY <3>2, <3>3, <4>1, <4>2
      <4>4. QED
        BY <3>2, <4>2, <4>3
    <3>5. QED
      BY <3>3, <3>4
  <2>4. ASSUME Head(s).type = "connected" PROVE First(t, Head(s).id)
    <3>1. SUFFICES ASSUME NEW i \in 1..Len(t), t[i].type = "connected"
                   PROVE  Head(s).id # t[i].id
      BY <2>3 DEF First
    <3>2. i + 1 \in 1..Len(s) /\ t[i] = s[i + 1] /\ i + 1 # 1
      BY <2>2
    <3>3. s[i + 1].id = s[1].id => i + 1 = 1 \/ (1 < i + 1 /\ s[i + 1].type # "connected")
      BY <2>2, <2>4, <3>2 DEF First
    <3>4. QED
      BY <2>2, <3>1, <3>2, <3>3
  <2>5. QED
    BY <2>1, <2>3, <2>4
<1>2. ASSUME NEW e \in Event,
             \/ e.type # "connected"
             \/ e = LinkEvent("connected", e.id, NoMessage) /\ own # e.id /\ \A x \in Items(s) : x.id # e.id
      PROVE  First(Append(s, e), own)
  <2>1. PICK t : t = Append(s, e)
    OBVIOUS
  <2>2. PICK n \in Nat : n = Len(s)
    BY Seqs
  <2>3. /\ Len(t) = n + 1 /\ t[n + 1] = e
        /\ \A i \in 1..n : i \in 1..n + 1 /\ t[i] = s[i]
        /\ \A i \in 1..n + 1 : i \in 1..n \/ i = n + 1
    BY <2>1, <2>2, Appended
  <2>4. \A i \in 1..n : s[i].type = "connected" =>
            /\ s[i] = LinkEvent("connected", s[i].id, NoMessage)
            /\ own # s[i].id
            /\ \A j \in 1..n : s[j].id = s[i].id => j = i \/ (i < j /\ s[j].type # "connected")
    BY <2>2 DEF First
  <2>5. \A i \in 1..n : s[i] \in Items(s)
    BY <2>2 DEF Items
  <2>6. CASE e.type # "connected"
    <3>1. SUFFICES ASSUME NEW i \in 1..n + 1, t[i].type = "connected"
                   PROVE  /\ t[i] = LinkEvent("connected", t[i].id, NoMessage)
                          /\ own # t[i].id
                          /\ \A j \in 1..n + 1 : t[j].id = t[i].id => j = i \/ (i < j /\ t[j].type # "connected")
      BY <2>1, <2>3 DEF First
    <3>2. i \in 1..n /\ t[i] = s[i]
      BY <2>3, <2>6, <3>1
    <3>3. \A j \in 1..n + 1 : t[j].id = t[i].id => j = i \/ (i < j /\ t[j].type # "connected")
      <4>1. TAKE j \in 1..n + 1
      <4>2. CASE j \in 1..n
        BY <2>3, <2>4, <3>1, <3>2, <4>2
      <4>3. CASE j = n + 1
        BY <2>2, <2>3, <2>6, <3>2, <4>3
      <4>4. QED
        BY <2>3, <4>2, <4>3
    <3>4. QED
      BY <2>4, <3>1, <3>2, <3>3
  <2>7. CASE e = LinkEvent("connected", e.id, NoMessage) /\ own # e.id /\ \A x \in Items(s) : x.id # e.id
    <3>1. SUFFICES ASSUME NEW i \in 1..n + 1, t[i].type = "connected"
                   PROVE  /\ t[i] = LinkEvent("connected", t[i].id, NoMessage)
                          /\ own # t[i].id
                          /\ \A j \in 1..n + 1 : t[j].id = t[i].id => j = i \/ (i < j /\ t[j].type # "connected")
      BY <2>1, <2>3 DEF First
    <3>2. CASE i = n + 1
      BY <2>3, <2>5, <2>7, <3>2
    <3>3. CASE i \in 1..n
      <4>1. t[i] = s[i] /\ s[i].id # e.id
        BY <2>3, <2>5, <2>7, <3>3
      <4>2. \A j \in 1..n + 1 : t[j].id = t[i].id => j = i \/ (i < j /\ t[j].type # "connected")
        BY <2>3, <2>4, <3>1, <3>3, <4>1
      <4>3. QED
        BY <2>4, <3>1, <3>3, <4>1, <4>2
    <3>4. QED
      BY <2>3, <3>2, <3>3
  <2>8. QED
    BY <1>2, <2>1, <2>6, <2>7
<1>3. \A l \in Links : own # l /\ (\A e \in Items(s) : e.id # l) =>
         First(Append(s, LinkEvent("connected", l, NoMessage)), own)
  <2>1. SUFFICES ASSUME NEW l \in Links, own # l, \A e \in Items(s) : e.id # l
                 PROVE  First(Append(s, LinkEvent("connected", l, NoMessage)), own)
    OBVIOUS
  <2>2. PICK e \in Event : e = LinkEvent("connected", l, NoMessage) /\ e.id = l
    BY Values
  <2>3. QED
    BY <1>2, <2>1, <2>2
<1>4. \A l : (\A e \in Items(s) : e.id # l) => First(s, l)
  BY DEF First, Items
<1>5. First(s, 0)
  <2>1. \A e \in Items(s) : e \in Event
    BY Seqs
  <2>2. \A e \in Event : e.id # 0
    BY Values DEF Event
  <2>3. QED
    BY <1>4, <2>1, <2>2
<1>6. First(<<>>, own)
  BY DEF First
<1>7. QED
  BY <1>1, <1>2, <1>3, <1>4, <1>5, <1>6

\* t holds no messages but those of s, at their places or one place earlier.
Within(t, s) ==
    \E d \in {0, 1} : \A i \in 1..Len(t) : t[i] # NoMessage => i + d \in 1..Len(s) /\ t[i] = s[i + d]
WithinEvents(t, s) ==
    \E d \in {0, 1} : \A i \in 1..Len(t) : t[i].type = "message" => i + d \in 1..Len(s) /\ t[i] = s[i + d]

LEMMA WithinFacts ==
    ASSUME NEW s \in Seq(Message \cup {NoMessage})
    PROVE  /\ Within(s, s) /\ Within(<<>>, s)
           /\ s # <<>> => Within(Tail(s), s)
           /\ Within(Append(s, NoMessage), s)
           /\ \A k \in 0..Len(s) : Within(Append(SubSeq(s, 1, k), NoMessage), s)
<1>1. Within(s, s) /\ Within(<<>>, s)
  <2>1. \A i \in 1..Len(s) : i + 0 = i
    OBVIOUS
  <2>2. Len(<<>>) = 0
    OBVIOUS
  <2>3. QED
    BY <2>1, <2>2 DEF Within
<1>2. s # <<>> => Within(Tail(s), s)
  BY Tailed DEF Within
<1>3. Within(Append(s, NoMessage), s)
  <2>1. PICK t : t = Append(s, NoMessage)
    OBVIOUS
  <2>0. PICK n \in Nat : n = Len(s)
    BY Seqs
  <2>2. /\ Len(t) = n + 1 /\ t[n + 1] = NoMessage /\ \A i \in 1..n : t[i] = s[i]
        /\ \A i \in 1..n + 1 : i \in 1..n \/ i = n + 1
    BY <2>0, <2>1, Appended
  <2>3. \A i \in 1..n + 1 : t[i] # NoMessage => i + 0 \in 1..n /\ t[i] = s[i + 0]
    BY <2>2
  <2>4. QED
    BY <2>0, <2>1, <2>2, <2>3 DEF Within
<1>4. \A k \in 0..Len(s) : Within(Append(SubSeq(s, 1, k), NoMessage), s)
  <2>1. TAKE k \in 0..Len(s)
  <2>2. PICK t : t = Append(SubSeq(s, 1, k), NoMessage)
    OBVIOUS
  <2>0. PICK n \in Nat : n = Len(s)
    BY Seqs
  <2>3. /\ Len(t) = k + 1 /\ t[k + 1] = NoMessage
        /\ \A i \in 1..Len(t) : i = k + 1 \/ (i \in 1..n /\ i <= k /\ t[i] = s[i])
    <3>1. NoMessage \in Message \cup {NoMessage}
      OBVIOUS
    <3>2. QED
      BY <2>0, <2>2, <3>1, CutShort
  <2>4. \A i \in 1..Len(t) : t[i] # NoMessage => i + 0 \in 1..n /\ t[i] = s[i + 0]
    BY <2>3
  <2>5. QED
    BY <2>0, <2>2, <2>4 DEF Within
<1>5. QED
  BY <1>1, <1>2, <1>3, <1>4

LEMMA WithinEventsFacts ==
    ASSUME NEW s \in Seq(Event)
    PROVE  /\ WithinEvents(s, s) /\ WithinEvents(<<>>, s)
           /\ s # <<>> => WithinEvents(Tail(s), s)
           /\ \A e \in Event : e.type # "message" => WithinEvents(Append(s, e), s)
<1>1. WithinEvents(s, s) /\ WithinEvents(<<>>, s)
  <2>1. \A i \in 1..Len(s) : i + 0 = i
    OBVIOUS
  <2>2. Len(<<>>) = 0
    OBVIOUS
  <2>3. QED
    BY <2>1, <2>2 DEF WithinEvents
<1>2. s # <<>> => WithinEvents(Tail(s), s)
  BY Tailed DEF WithinEvents
<1>3. \A e \in Event : e.type # "message" => WithinEvents(Append(s, e), s)
  <2>1. SUFFICES ASSUME NEW e \in Event, e.type # "message" PROVE WithinEvents(Append(s, e), s)
    OBVIOUS
  <2>2. PICK t : t = Append(s, e)
    OBVIOUS
  <2>0. PICK n \in Nat : n = Len(s)
    BY Seqs
  <2>3. /\ Len(t) = n + 1 /\ t[n + 1] = e /\ \A i \in 1..n : t[i] = s[i]
        /\ \A i \in 1..n + 1 : i \in 1..n \/ i = n + 1
    BY <2>0, <2>2, Appended
  <2>4. \A i \in 1..n + 1 : t[i].type = "message" => i + 0 \in 1..n /\ t[i] = s[i + 0]
    BY <2>1, <2>3
  <2>5. QED
    BY <2>0, <2>2, <2>3, <2>4 DEF WithinEvents
<1>4. QED
  BY <1>1, <1>2, <1>3

\* Then no more is coming than was.
LEMMA NoMoreComing ==
    ASSUME NEW w \in Seq(Message \cup {NoMessage}), NEW v \in Seq(Message \cup {NoMessage}),
           NEW s \in Seq(Event), NEW t \in Seq(Event),
           Within(v, w), WithinEvents(t, s), NEW l
    PROVE  /\ Coming(v, t, l) => Coming(w, s, l)
           /\ Single(w, s, l) => Single(v, t, l)
<1>1. PICK d \in {0, 1} : \A i \in 1..Len(v) : v[i] # NoMessage => i + d \in 1..Len(w) /\ v[i] = w[i + d]
  BY DEF Within
<1>2. PICK c \in {0, 1} : \A i \in 1..Len(t) : t[i].type = "message" => i + c \in 1..Len(s) /\ t[i] = s[i + c]
  BY DEF WithinEvents
<1>3. Coming(v, t, l) => Coming(w, s, l)
  BY <1>1, <1>2 DEF Coming
<1>4. ASSUME Single(w, s, l) PROVE Single(v, t, l)
  <2>1. \A i, j \in 1..Len(v) : v[i] # NoMessage /\ v[j] # NoMessage => i = j
    <3>1. SUFFICES ASSUME NEW i \in 1..Len(v), NEW j \in 1..Len(v), v[i] # NoMessage, v[j] # NoMessage
                   PROVE  i = j
      OBVIOUS
    <3>2. i + d \in 1..Len(w) /\ w[i + d] # NoMessage /\ j + d \in 1..Len(w) /\ w[j + d] # NoMessage
      BY <1>1, <3>1
    <3>3. i + d = j + d
      BY <1>4, <3>2 DEF Single
    <3>4. QED
      BY <3>3
  <2>2. \A i, j \in 1..Len(t) :
          t[i].type = "message" /\ t[i].id = l /\ t[j].type = "message" /\ t[j].id = l => i = j
    <3>1. SUFFICES ASSUME NEW i \in 1..Len(t), NEW j \in 1..Len(t),
                          t[i].type = "message", t[i].id = l, t[j].type = "message", t[j].id = l
                   PROVE  i = j
      OBVIOUS
    <3>2. i + c \in 1..Len(s) /\ s[i + c] = t[i] /\ j + c \in 1..Len(s) /\ s[j + c] = t[j]
      BY <1>2, <3>1
    <3>3. i + c = j + c
      BY <1>4, <3>1, <3>2 DEF Single
    <3>4. QED
      BY <3>3
  <2>3. \A i \in 1..Len(v), j \in 1..Len(t) : v[i] # NoMessage => ~(t[j].type = "message" /\ t[j].id = l)
    <3>1. SUFFICES ASSUME NEW i \in 1..Len(v), NEW j \in 1..Len(t), v[i] # NoMessage,
                          t[j].type = "message", t[j].id = l
                   PROVE  FALSE
      OBVIOUS
    <3>2. i + d \in 1..Len(w) /\ w[i + d] # NoMessage /\ j + c \in 1..Len(s) /\ s[j + c] = t[j]
      BY <1>1, <1>2, <3>1
    <3>3. QED
      BY <1>4, <3>1, <3>2 DEF Single
  <2>4. QED
    BY <2>1, <2>2, <2>3 DEF Single
<1>5. QED
  BY <1>3, <1>4

\* A message that is handed on from the wire is still one; an event that is taken away is not.
LEMMA HandedOn ==
    ASSUME NEW w \in Seq(Message \cup {NoMessage}), NEW s \in Seq(Event), NEW e \in Event, NEW l,
           w # <<>>, Head(w) # NoMessage, e.type = "message", e.id = l
    PROVE  /\ Coming(w, s, l)
           /\ Coming(Tail(w), Append(s, e), l)
           /\ Single(w, s, l) => Single(Tail(w), Append(s, e), l)
           /\ \A k : k # l => (Coming(w, Append(s, e), k) <=> Coming(w, s, k))
<1>1. PICK v : v = Tail(w)
  OBVIOUS
<1>2. /\ Head(w) = w[1] /\ 1 \in 1..Len(w) /\ Len(w) \in Nat
      /\ \A i \in 1..Len(v) : i + 1 \in 1..Len(w) /\ v[i] = w[i + 1]
  BY <1>1, Tailed
<1>3. PICK t : t = Append(s, e)
  OBVIOUS
<1>0. PICK n \in Nat : n = Len(s)
  BY Seqs
<1>4. /\ Len(t) = n + 1 /\ t[n + 1] = e /\ \A i \in 1..n : i \in 1..n + 1 /\ t[i] = s[i]
      /\ \A i \in 1..n + 1 : i \in 1..n \/ i = n + 1
  BY <1>0, <1>3, Appended
<1>5. Coming(w, s, l)
  BY <1>2 DEF Coming
<1>6. Coming(v, t, l)
  <2>1. n + 1 \in 1..Len(t)
    BY <1>4
  <2>2. QED
    BY <1>4, <2>1 DEF Coming
<1>7. ASSUME Single(w, s, l) PROVE Single(v, t, l)
  <2>1. \A i \in 1..Len(v) : v[i] = NoMessage
    <3>1. SUFFICES ASSUME NEW i \in 1..Len(v), v[i] # NoMessage PROVE FALSE
      OBVIOUS
    <3>2. i + 1 \in 1..Len(w) /\ w[i + 1] # NoMessage /\ i + 1 # 1
      BY <1>2, <3>1
    <3>3. i + 1 = 1
      BY <1>2, <1>7, <3>2 DEF Single
    <3>4. QED
      BY <3>2, <3>3
  <2>2. \A i \in 1..n : ~(s[i].type = "message" /\ s[i].id = l)
    BY <1>0, <1>2, <1>3, <1>7 DEF Single
  <2>3. QED
    BY <1>4, <2>1, <2>2 DEF Single
<1>8. \A k : k # l => (Coming(w, t, k) <=> Coming(w, s, k))
  <2>1. ASSUME NEW k, k # l PROVE Coming(w, t, k) <=> Coming(w, s, k)
    BY <1>0, <1>3, <1>4, <2>1 DEF Coming
  <2>2. QED
    BY <2>1
<1>9. QED
  BY <1>1, <1>3, <1>5, <1>6, <1>7, <1>8
-----------------------------------------------------------------------------
(* What a step does to the links and to what is on its way *)

LEMMA Numbers ==
    ASSUME Typed
    PROVE  links \in Nat /\ 0 <= links /\ NoLink.id = 0 /\ \A l \in Links : l \in Nat /\ NoLink.id # l
<1>1. links \in 0..MaxLinks /\ MaxLinks \in Nat
  BY ConstantsAssumption DEF Typed, TypeOK
<1>2. links \in Nat /\ 0 <= links
  BY <1>1
<1>3. NoLink.id = 0 /\ \A l \in Links : l \in Nat /\ l # 0
  BY Values
<1>4. QED
  BY <1>2, <1>3

Still == UNCHANGED <<gone, link, events, io, wire, links>>

Drop(p) == link' = [link EXCEPT ![p] = NoLink] /\ UNCHANGED <<gone, events, io, wire, links>>

Put(p) ==
    LET m == sending[p]
        k == AfterSend(link[p])
        l == link[p].id
    IN  /\ p \notin gone
        /\ m \in Message /\ link[p] \in Link /\ k # NoLink /\ io[l][p] = "up"
        /\ link' = [link EXCEPT ![p] = k]
        /\ wire' = [wire EXCEPT ![l][Other(p)] = Append(@, m)]
        /\ UNCHANGED <<gone, events, io, links>>

\* The hub's event is a message it goes on with.
Answerable(p) ==
    /\ Head(events[p]).type = "message" /\ Head(events[p]).id = link[p].id
    /\ AfterMessage(link[p]) # NoLink

Get(p) ==
    /\ p \notin gone /\ events[p] # <<>> /\ Answerable(p)
    /\ link' = [link EXCEPT ![p] = AfterMessage(link[p])]
    /\ events' = [events EXCEPT ![p] = Tail(@)]
    /\ UNCHANGED <<gone, io, wire, links>>

\* It is anything else.
Take(p) ==
    /\ p \notin gone /\ events[p] # <<>>
    /\ events' = [events EXCEPT ![p] = Tail(@)]
    /\ \/ link' = link /\ ~(Head(events[p]).type = "disconnected" /\ Head(events[p]).id = link[p].id)
       \/ link' = [link EXCEPT ![p] = NoLink]
       \/ /\ link[p] = NoLink /\ Head(events[p]).type = "connected"
          /\ link' = [link EXCEPT ![p] = [id |-> Head(events[p]).id, role |-> "recipient", state |-> "new"]]
    /\ ~Answerable(p)
    /\ UNCHANGED <<gone, io, wire, links>>

LEMMA Kinds ==
    ASSUME Typed, [Next]_vars
    PROVE  \/ Still
           \/ \E p \in Peer :
                 \/ Drop(p) \/ DialSucceeds(p) \/ Put(p) \/ Get(p) \/ Take(p) \/ Leave(p)
                 \/ \E l \in Links : LinkTask(p, l)
<1>1. CASE UNCHANGED vars
  BY <1>1 DEF vars, netVars, Still
<1>2. ASSUME NEW p \in Peer,
             OpenView(p) \/ ReadInbox(p) \/ (\E m \in Message : UserSends(p, m)) \/ LearnPeer(p) \/ ForgetPeer(p)
             \/ TakeSend(p) \/ DialFails(p)
      PROVE  Still
  BY <1>2 DEF OpenView, ReadInbox, UserSends, LearnPeer, ForgetPeer, TakeSend, DialFails, Still, netVars, uiVars
<1>3. ASSUME NEW p \in Peer, SendOnLink(p) PROVE Still \/ Put(p) \/ Drop(p)
  <2>1. /\ p \notin gone /\ sending[p] \in Message /\ link[p] \in Link
        /\ UNCHANGED <<gone, events, io, links>>
    BY <1>3, Known DEF SendOnLink
  <2>2. QED
    BY <1>3, <2>1 DEF SendOnLink, Still, Put, Drop
<1>4. ASSUME NEW p \in Peer, PeerLeft(p) PROVE Still \/ Drop(p)
  BY <1>4 DEF PeerLeft, CloseLink, Still, Drop, netVars
<1>5. ASSUME NEW p \in Peer, HubConnected(p) PROVE Take(p)
  BY <1>5 DEF HubConnected, TakesEvent, HubFree, Take, Answerable, netVars
<1>6. ASSUME NEW p \in Peer, HubMessage(p) PROVE Take(p) \/ Get(p)
  BY <1>6 DEF HubMessage, TakesEvent, HubFree, Take, Get, Answerable, netVars
<1>7. ASSUME NEW p \in Peer, HubDisconnected(p) PROVE Take(p)
  BY <1>7 DEF HubDisconnected, CloseLink, TakesEvent, HubFree, Take, Answerable, netVars
<1>8. QED
  BY <1>1, <1>2, <1>3, <1>4, <1>5, <1>6, <1>7 DEF Next, Hub

\* What is coming is what Coming says of the wire and the events.
LEMMA Traffic ==
    ASSUME Typed, Typed', NEW r \in Peer, NEW l \in Links
    PROVE  /\ Incoming(r, l) <=> Coming(wire[l][r], events[r], l)
           /\ Incoming(r, l)' <=> Coming(wire'[l][r], events'[r], l)
           /\ wire[l][r] \in Seq(Message \cup {NoMessage}) /\ wire'[l][r] \in Seq(Message \cup {NoMessage})
           /\ events[r] \in Seq(Event) /\ events'[r] \in Seq(Event)
<1>1. Incoming(r, l) <=> Coming(wire[l][r], events[r], l)
  BY DEF Incoming, Coming, Items
<1>2. Incoming(r, l)' <=> Coming(wire'[l][r], events'[r], l)
  BY DEF Incoming, Coming, Items
<1>3. wire[l][r] \in Seq(Message \cup {NoMessage}) /\ events[r] \in Seq(Event)
  BY Known
<1>4. wire' \in [Links -> [Peer -> Seq(Message \cup {NoMessage})]] /\ events' \in [Peer -> Seq(Event)]
  BY DEF Typed, TypeOK
<1>5. wire'[l][r] \in Seq(Message \cup {NoMessage}) /\ events'[r] \in Seq(Event)
  BY <1>4
<1>6. QED
  BY <1>1, <1>2, <1>3, <1>5

LEMMA Quieter ==
    ASSUME Typed, Typed', NEW r \in Peer, NEW l \in Links,
           Within(wire'[l][r], wire[l][r]), WithinEvents(events'[r], events[r])
    PROVE  /\ Incoming(r, l)' => Incoming(r, l)
           /\ AtMostOne(r, l) => AtMostOne(r, l)'
<1>1. PICK w \in Seq(Message \cup {NoMessage}), v \in Seq(Message \cup {NoMessage}),
           s \in Seq(Event), t \in Seq(Event) :
         w = wire[l][r] /\ v = wire'[l][r] /\ s = events[r] /\ t = events'[r]
  BY Traffic
<1>2. (Coming(v, t, l) => Coming(w, s, l)) /\ (Single(w, s, l) => Single(v, t, l))
  BY <1>1, NoMoreComing
<1>3. Incoming(r, l)' => Incoming(r, l)
  BY <1>1, <1>2, Traffic
<1>4. AtMostOne(r, l) => AtMostOne(r, l)'
  BY <1>1, <1>2 DEF AtMostOne
<1>5. QED
  BY <1>3, <1>4

\* A step that neither dials nor uses a link: it drops ends and loses traffic at most.
Calm ==
    \A r \in Peer :
        /\ \/ link'[r] = link[r] \/ link'[r] = NoLink
           \/ /\ link[r] = NoLink
              /\ \E l \in Links : Waiting(r, l) /\ link'[r] = [id |-> l, role |-> "recipient", state |-> "new"]
        /\ \A l \in Links :
              /\ Incoming(r, l)' => Incoming(r, l)
              /\ AtMostOne(r, l) => AtMostOne(r, l)'
              /\ Waiting(r, l)' => Waiting(r, l)
              /\ io[l][r] = "down" => io'[l][r] = "down"
              /\ Dialed(r, l) /\ link[r].state = "awaiting" /\ Incoming(r, l) =>
                    Incoming(r, l)' \/ io'[l][r] = "down" \/ io'[l][Other(r)] = "down" \/ link'[r] = NoLink

\* What a calm step leaves at one end
LEMMA CalmEnd ==
    ASSUME Typed, Calm, NEW r \in Peer, NEW l \in Links
    PROVE  /\ Dialed(r, l)' => Dialed(r, l) /\ link'[r] = link[r]
           /\ Called(r, l)' => Called(r, l)
           /\ Unopened(r, l)' => Unopened(r, l)
           /\ link'[r].id = l /\ link'[r] # link[r] => link'[r].state = "new" /\ link'[r].role = "recipient"
<1>1. /\ \/ link'[r] = link[r] \/ link'[r] = NoLink
         \/ /\ link[r] = NoLink
            /\ \E k \in Links : Waiting(r, k) /\ link'[r] = [id |-> k, role |-> "recipient", state |-> "new"]
      /\ Waiting(r, l)' => Waiting(r, l)
  BY DEF Calm
<1>2. NoLink.id # l /\ NoLink.role = "none"
  BY Values
<1>3. CASE link'[r] = link[r]
  BY <1>1, <1>3 DEF Dialed, Called, Unopened
<1>4. CASE link'[r] = NoLink
  BY <1>1, <1>2, <1>4 DEF Dialed, Called, Unopened
<1>5. ASSUME NEW k \in Links, Waiting(r, k), link'[r] = [id |-> k, role |-> "recipient", state |-> "new"]
      PROVE  /\ Dialed(r, l)' => Dialed(r, l) /\ link'[r] = link[r]
             /\ Called(r, l)' => Called(r, l)
             /\ Unopened(r, l)' => Unopened(r, l)
             /\ link'[r].id = l => link'[r].state = "new" /\ link'[r].role = "recipient"
  <2>1. link'[r].id = k /\ link'[r].role = "recipient" /\ link'[r].state = "new"
    BY <1>5
  <2>2. ~Dialed(r, l)'
    BY <2>1 DEF Dialed
  <2>3. (Called(r, l)' => Called(r, l)) /\ (Unopened(r, l)' => Unopened(r, l))
    BY <1>1, <1>5, <2>1 DEF Called, Unopened
  <2>4. QED
    BY <2>1, <2>2, <2>3
<1>6. QED
  BY <1>1, <1>2, <1>3, <1>4, <1>5

LEMMA CalmStep ==
    ASSUME Typed, Roles, Protocol, Calm
    PROVE  Roles' /\ Protocol'
<1>1. ASSUME NEW p \in Peer, NEW l \in Links
      PROVE  /\ Called(p, l)' => ~Called(Other(p), l)' /\ ~Dialed(p, l)'
             /\ Dialed(p, l)' => ~Dialed(Other(p), l)'
  <2>1. PICK q \in Peer : q = Other(p)
    BY Pair
  <2>2. (Called(p, l) => ~Called(q, l) /\ ~Dialed(p, l)) /\ (Dialed(p, l) => ~Dialed(q, l))
    BY <2>1 DEF Roles
  <2>3. /\ Called(p, l)' => Called(p, l)
        /\ Called(q, l)' => Called(q, l)
        /\ Dialed(p, l)' => Dialed(p, l)
        /\ Dialed(q, l)' => Dialed(q, l)
    BY CalmEnd
  <2>4. (Called(p, l)' => ~Called(q, l)' /\ ~Dialed(p, l)') /\ (Dialed(p, l)' => ~Dialed(q, l)')
    BY <2>2, <2>3
  <2>5. QED
    BY <2>1, <2>4
<1>2. ASSUME NEW p \in Peer, NEW l \in Links PROVE Agreed(p, l)'
  <2>1. PICK q \in Peer : q = Other(p) /\ p = Other(q)
    BY Pair
  <2>2. Agreed(p, l)
    BY DEF Protocol
  <2>3. /\ Dialed(p, l)' => Dialed(p, l) /\ link'[p] = link[p]
        /\ Unopened(q, l)' => Unopened(q, l)
        /\ link'[q].id = l /\ link'[q] # link[q] => link'[q].state = "new"
    BY CalmEnd
  <2>4. /\ Incoming(p, l)' => Incoming(p, l)
        /\ Incoming(q, l)' => Incoming(q, l)
        /\ AtMostOne(q, l) => AtMostOne(q, l)'
        /\ io[l][p] = "down" => io'[l][p] = "down"
        /\ io[l][q] = "down" => io'[l][q] = "down"
    BY DEF Calm
  <2>5. Dialed(p, l) /\ link[p].state = "awaiting" /\ Incoming(p, l) =>
           Incoming(p, l)' \/ io'[l][p] = "down" \/ io'[l][q] = "down" \/ link'[p] = NoLink
    BY <2>1 DEF Calm
  <2>6. Dialed(p, l)' => link'[p] # NoLink
    BY Values DEF Dialed
  <2>7. Dialed(p, l)' /\ link'[p].state = "new" =>
           /\ ~Incoming(p, l)' /\ ~Incoming(q, l)'
           /\ link'[q].id = l => link'[q].state = "new"
    BY <2>1, <2>2, <2>3, <2>4 DEF Agreed
  <2>8. Unopened(q, l)' =>
          /\ AtMostOne(q, l)' /\ ~Incoming(p, l)'
          /\ Dialed(p, l)' => link'[p].state # "active"
    BY <2>1, <2>2, <2>3, <2>4 DEF Agreed
  <2>9. link'[q].id = l /\ link'[q].role = "recipient" /\ link'[q].state = "awaiting" =>
          /\ ~Incoming(q, l)' /\ ~Incoming(p, l)'
          /\ Dialed(p, l)' => link'[p].state = "awaiting"
    BY <2>1, <2>2, <2>3, <2>4 DEF Agreed
  <2>10. link'[q].id = l /\ link'[q].role = "recipient" /\ link'[q].state = "active" /\ Dialed(p, l)' =>
          /\ link'[p].state # "new"
          /\ link'[p].state = "awaiting" =>
                /\ ~Incoming(q, l)'
                /\ Incoming(p, l)' \/ io'[l][p] = "down" \/ io'[l][q] = "down"
    BY <2>1, <2>2, <2>3, <2>4, <2>5, <2>6 DEF Agreed
  <2>11. QED
    BY <2>1, <2>7, <2>8, <2>9, <2>10 DEF Agreed
<1>3. Roles'
  BY <1>1 DEF Roles
<1>4. Protocol'
  BY <1>2 DEF Protocol
<1>5. QED
  BY <1>3, <1>4

\* The steps that are calm, each with what else it keeps
LEMMA CalmBy ==
    ASSUME Typed, Typed',
           \A r \in Peer :
              /\ \/ link'[r] = link[r] \/ link'[r] = NoLink
                 \/ /\ link[r] = NoLink
                    /\ \E l \in Links : Waiting(r, l) /\ link'[r] = [id |-> l, role |-> "recipient", state |-> "new"]
              /\ WithinEvents(events'[r], events[r])
              /\ \A l \in Links :
                    /\ Within(wire'[l][r], wire[l][r])
                    /\ Waiting(r, l)' => Waiting(r, l)
                    /\ io[l][r] = "down" => io'[l][r] = "down"
                    /\ Dialed(r, l) /\ link[r].state = "awaiting" /\ Incoming(r, l) =>
                          Incoming(r, l)' \/ io'[l][r] = "down" \/ io'[l][Other(r)] = "down" \/ link'[r] = NoLink
    PROVE  Calm
<1>1. \A r \in Peer, l \in Links : (Incoming(r, l)' => Incoming(r, l)) /\ (AtMostOne(r, l) => AtMostOne(r, l)')
  BY Quieter
<1>2. QED
  BY <1>1 DEF Calm

\* Without a change to the events and the wires
LEMMA UnchangedTraffic ==
    ASSUME Typed, Typed', NEW r \in Peer, events'[r] = events[r]
    PROVE  /\ WithinEvents(events'[r], events[r])
           /\ \A l \in Links : /\ Pending(r, l)' <=> Pending(r, l)
                               /\ wire'[l][r] = wire[l][r] =>
                                     /\ Within(wire'[l][r], wire[l][r])
                                     /\ Incoming(r, l)' <=> Incoming(r, l)
<1>1. WithinEvents(events'[r], events[r])
  BY Known, WithinEventsFacts
<1>2. ASSUME NEW l \in Links
      PROVE  /\ Pending(r, l)' <=> Pending(r, l)
             /\ wire'[l][r] = wire[l][r] =>
                   /\ Within(wire'[l][r], wire[l][r])
                   /\ Incoming(r, l)' <=> Incoming(r, l)
  <2>1. Pending(r, l)' <=> Pending(r, l)
    BY DEF Pending
  <2>2. ASSUME wire'[l][r] = wire[l][r] PROVE Within(wire'[l][r], wire[l][r]) /\ (Incoming(r, l)' <=> Incoming(r, l))
    <3>1. Within(wire[l][r], wire[l][r])
      BY Known, WithinFacts
    <3>2. QED
      BY <2>2, <3>1, Traffic
  <2>3. QED
    BY <2>1, <2>2
<1>3. QED
  BY <1>1, <1>2

\* The ends, tasks and wires are those of links that have been opened.
LEMMA OpenedBy ==
    ASSUME Typed, Typed', Opened, links' = links, gone' = gone,
           \A r \in Peer :
              /\ link'[r] = link[r] \/ link'[r].id <= links
              /\ \A e \in Items(events'[r]) : e \in Items(events[r]) \/ (e.id <= links /\ io'[e.id][r] # "hello")
              /\ \A l \in Links :
                    /\ io'[l][r] = io[l][r] \/ (l <= links /\ io'[l][r] \in {"up", "down"} /\ (r \in gone => io'[l][r] = "down"))
                    /\ l > links => wire'[l][r] = wire[l][r]
                    /\ io[l][r] = "hello" => link'[r] = link[r] \/ link'[r].id # l
    PROVE  Opened'
<1>1. ASSUME NEW p \in Peer PROVE OpenedAt(p)'
  <2>1. OpenedAt(p)
    BY DEF Opened
  <2>2. link'[p].id <= links'
    BY <2>1 DEF OpenedAt
  <2>3. \A e \in Items(events'[p]) : e.id <= links'
    BY <2>1 DEF OpenedAt
  <2>4. ASSUME NEW l \in Links
        PROVE  /\ l > links' => io'[l][p] = "none" /\ wire'[l][p] = <<>>
               /\ l <= links' => io'[l][p] # "none"
               /\ io'[l][p] = "hello" => link'[p].id # l /\ \A e \in Items(events'[p]) : e.id # l
               /\ p \in gone' => io'[l][p] \in {"none", "down"}
    <3>1. /\ l > links => io[l][p] = "none" /\ wire[l][p] = <<>>
          /\ l <= links => io[l][p] # "none"
          /\ io[l][p] = "hello" => link[p].id # l /\ \A e \in Items(events[p]) : e.id # l
          /\ p \in gone => io[l][p] \in {"none", "down"}
      BY <2>1 DEF OpenedAt
    <3>2. l \in Nat /\ links \in Nat
      BY Numbers
    <3>3. l > links' => io'[l][p] = "none" /\ wire'[l][p] = <<>>
      BY <3>1, <3>2
    <3>4. l <= links' => io'[l][p] # "none"
      BY <3>1
    <3>5. io'[l][p] = "hello" => link'[p].id # l /\ \A e \in Items(events'[p]) : e.id # l
      BY <3>1
    <3>6. p \in gone' => io'[l][p] \in {"none", "down"}
      BY <3>1
    <3>7. QED
      BY <3>3, <3>4, <3>5, <3>6
  <2>5. QED
    BY <2>2, <2>3, <2>4 DEF OpenedAt
<1>2. QED
  BY <1>1 DEF Opened

LEMMA QuietStill ==
    ASSUME Typed, Typed', Opened, ConnectedFirst, Still \/ \E p \in Peer : Drop(p)
    PROVE  Calm /\ Opened' /\ ConnectedFirst'
<1>1. /\ UNCHANGED <<gone, events, io, wire, links>>
      /\ \A r \in Peer : link'[r] = link[r] \/ link'[r] = NoLink
  BY DEF Still, Drop, Typed, TypeOK
<1>2. NoLink.id = 0 /\ 0 <= links /\ \A l \in Links : NoLink.id # l
  BY Numbers
<1>3. \A r \in Peer, l \in Links : Waiting(r, l)' <=> Waiting(r, l)
  BY <1>1 DEF Waiting, Pending
<1>4. Calm
  BY <1>1, <1>3, CalmBy, UnchangedTraffic
<1>5. Opened'
  BY <1>1, <1>2, OpenedBy
<1>6. ConnectedFirst'
  <2>1. ASSUME NEW r \in Peer PROVE First(events'[r], link'[r].id)
    <3>1. First(events[r], link[r].id) /\ events[r] \in Seq(Event)
      BY Known DEF ConnectedFirst
    <3>2. First(events[r], 0)
      BY <3>1, FirstFacts
    <3>3. QED
      BY <1>1, <1>2, <3>1, <3>2
  <2>2. QED
    BY <2>1 DEF ConnectedFirst
<1>7. QED
  BY <1>4, <1>5, <1>6

LEMMA QuietTake ==
    ASSUME Typed, Typed', Opened, ConnectedFirst, NEW p \in Peer, Take(p)
    PROVE  Calm /\ Opened' /\ ConnectedFirst'
<1>1. PICK s \in Seq(Event) : s = events[p] /\ s # <<>>
  BY Known DEF Take
<1>2. /\ UNCHANGED <<gone, io, wire, links>> /\ events'[p] = Tail(s)
      /\ \A r \in Peer : r # p => events'[r] = events[r] /\ link'[r] = link[r]
  BY <1>1 DEF Take, Typed, TypeOK
<1>3. /\ Head(s) = s[1] /\ Head(s) \in Event /\ Head(s) \in Items(s) /\ 1 \in 1..Len(s)
      /\ \A i \in 1..Len(s) : i # 1 => i - 1 \in 1..Len(Tail(s)) /\ s[i] = Tail(s)[i - 1]
      /\ Items(s) = {Head(s)} \cup Items(Tail(s))
  BY <1>1, Tailed
<1>4. Head(s).id \in Links /\ Head(s).id <= links
  BY <1>1, <1>3 DEF Event, Opened, OpenedAt
<1>5. First(s, link[p].id)
  BY <1>1 DEF ConnectedFirst
<1>6. \/ link'[p] = link[p]
      \/ link'[p] = NoLink
      \/ /\ link[p] = NoLink /\ Head(s).type = "connected"
         /\ link'[p] = [id |-> Head(s).id, role |-> "recipient", state |-> "new"]
  BY <1>1 DEF Take, Typed, TypeOK
<1>7. Head(s).type = "connected" => Pending(p, Head(s).id)
  <2>1. Head(s).type = "connected" => Head(s) = LinkEvent("connected", Head(s).id, NoMessage)
    BY <1>3, <1>5 DEF First
  <2>2. QED
    BY <1>1, <1>3, <2>1 DEF Pending
<1>8. \A l \in Links : Waiting(p, l)' => Waiting(p, l)
  BY <1>1, <1>2, <1>3 DEF Waiting, Pending
<1>9. \A r \in Peer, l \in Links : r # p => (Waiting(r, l)' <=> Waiting(r, l))
  BY <1>2 DEF Waiting, Pending
<1>10. WithinEvents(events'[p], events[p])
  BY <1>1, <1>2, WithinEventsFacts
<1>11. ASSUME NEW l \in Links, Dialed(p, l), link[p].state = "awaiting", Incoming(p, l)
       PROVE  Incoming(p, l)' \/ link'[p] = NoLink
  <2>1. link[p].id = l /\ link[p] \in Link /\ link[p].role = "initiator"
    BY <1>11, Values, Known DEF Dialed
  <2>2. AfterMessage(link[p]) # NoLink
    BY <1>11, <2>1, MessageFacts
  <2>3. ~(Head(s).type = "message" /\ Head(s).id = l)
    BY <1>1, <2>1, <2>2 DEF Take, Answerable
  <2>4. Coming(wire[l][p], s, l)
    BY <1>1, <1>11, Traffic
  <2>5. Coming(wire[l][p], Tail(s), l)
    BY <1>3, <2>3, <2>4 DEF Coming
  <2>6. QED
    BY <1>2, <2>5, Traffic
<1>12. Calm
  <2>1. \A l \in Links : Within(wire[l][p], wire[l][p])
    BY Known, WithinFacts
  <2>2. /\ WithinEvents(events'[p], events[p])
        /\ \/ link'[p] = link[p] \/ link'[p] = NoLink
           \/ /\ link[p] = NoLink
              /\ \E l \in Links : Waiting(p, l) /\ link'[p] = [id |-> l, role |-> "recipient", state |-> "new"]
    BY <1>4, <1>6, <1>7, <1>10 DEF Waiting
  <2>3. \A l \in Links :
              /\ Within(wire'[l][p], wire[l][p])
              /\ Waiting(p, l)' => Waiting(p, l)
              /\ io[l][p] = "down" => io'[l][p] = "down"
              /\ Dialed(p, l) /\ link[p].state = "awaiting" /\ Incoming(p, l) => Incoming(p, l)' \/ link'[p] = NoLink
    BY <1>2, <1>8, <1>11, <2>1
  <2>4. \A r \in Peer : r # p =>
              /\ link'[r] = link[r]
              /\ WithinEvents(events'[r], events[r])
              /\ \A l \in Links :
                    /\ Within(wire'[l][r], wire[l][r])
                    /\ Waiting(r, l)' => Waiting(r, l)
                    /\ io[l][r] = "down" => io'[l][r] = "down"
                    /\ Incoming(r, l)' <=> Incoming(r, l)
    BY <1>2, <1>9, UnchangedTraffic
  <2>5. QED
    BY <2>2, <2>3, <2>4, CalmBy
<1>13. Opened'
  <2>1. NoLink.id = 0 /\ 0 <= links /\ \A l \in Links : NoLink.id # l
    BY Numbers
  <2>2. Items(events'[p]) \subseteq Items(events[p])
    BY <1>1, <1>2, <1>3
  <2>3. link'[p] = link[p] \/ link'[p].id <= links
    BY <1>4, <1>6, <2>1
  <2>4. \A l \in Links : io[l][p] = "hello" => link'[p] = link[p] \/ link'[p].id # l
    <3>1. \A l \in Links : io[l][p] = "hello" => \A e \in Items(s) : e.id # l
      BY <1>1 DEF Opened, OpenedAt
    <3>2. QED
      BY <1>3, <1>6, <2>1, <3>1
  <2>5. QED
    BY <1>2, <2>2, <2>3, <2>4, OpenedBy
<1>14. ConnectedFirst'
  <2>1. First(Tail(s), link'[p].id)
    <3>1. First(Tail(s), link[p].id)
      BY <1>1, <1>5, FirstFacts
    <3>2. First(Tail(s), 0)
      <4>1. Tail(s) \in Seq(Event)
        BY <1>1
      <4>2. QED
        BY <3>1, <4>1, FirstFacts
    <3>3. Head(s).type = "connected" => First(Tail(s), Head(s).id)
      BY <1>1, <1>5, FirstFacts
    <3>4. QED
      BY <1>6, <3>1, <3>2, <3>3, Values
  <2>2. QED
    BY <1>2, <2>1 DEF ConnectedFirst
<1>15. QED
  BY <1>12, <1>13, <1>14

LEMMA QuietAccept ==
    ASSUME Typed, Typed', Opened, ConnectedFirst, NEW p \in Peer, NEW l \in Links, Accept(p, l)
    PROVE  Calm /\ Opened' /\ ConnectedFirst'
<1>1. PICK s \in Seq(Event) : s = events[p]
  BY Known
<1>2. PICK e \in Event : e = LinkEvent("connected", l, NoMessage) /\ e.type = "connected" /\ e.id = l
  BY Values
<1>3. /\ UNCHANGED <<gone, link, wire, links>> /\ events'[p] = Append(s, e)
      /\ io[l][p] = "hello" /\ io'[l][p] = "up"
      /\ \A r \in Peer, k \in Links : ~(r = p /\ k = l) => io'[k][r] = io[k][r]
      /\ \A r \in Peer : r # p => events'[r] = events[r]
  BY <1>1, <1>2 DEF Accept, AddEvent, Typed, TypeOK
<1>4. Items(Append(s, e)) = Items(s) \cup {e}
  BY Appended
<1>5. link[p].id # l /\ (\A x \in Items(s) : x.id # l) /\ l <= links
  <2>1. io[l][p] # "none" /\ l \in Nat /\ links \in Nat
    BY <1>3, Numbers
  <2>2. QED
    BY <1>1, <1>3, <2>1 DEF Opened, OpenedAt
<1>6. Calm
  <2>1. WithinEvents(events'[p], events[p])
    BY <1>1, <1>2, <1>3, WithinEventsFacts
  <2>2. ASSUME NEW k \in Links
        PROVE  (Waiting(p, k)' => Waiting(p, k)) /\ (io[k][p] = "down" => io'[k][p] = "down")
    <3>1. Pending(p, k)' => Pending(p, k) \/ k = l
      <4>1. LinkEvent("connected", k, NoMessage) = e => k = l
        BY <1>2, Values
      <4>2. QED
        BY <1>1, <1>3, <1>4, <4>1 DEF Pending
    <3>2. Waiting(p, l)
      BY <1>3 DEF Waiting
    <3>3. io'[k][p] = io[k][p] \/ k = l
      BY <1>3
    <3>4. QED
      BY <1>3, <3>1, <3>2, <3>3 DEF Waiting
  <2>3. ASSUME NEW k \in Links PROVE Within(wire'[k][p], wire[k][p]) /\ (Incoming(p, k) => Incoming(p, k)')
    <3>1. Within(wire[k][p], wire[k][p])
      BY Known, WithinFacts
    <3>2. Items(s) \subseteq Items(events'[p])
      BY <1>3, <1>4
    <3>3. Incoming(p, k) => Incoming(p, k)'
      BY <1>1, <1>3, <3>2 DEF Incoming
    <3>4. QED
      BY <1>3, <3>1, <3>3
  <2>4. \A r \in Peer : r # p =>
              /\ WithinEvents(events'[r], events[r])
              /\ \A k \in Links :
                    /\ Within(wire'[k][r], wire[k][r])
                    /\ Waiting(r, k)' => Waiting(r, k)
                    /\ io[k][r] = "down" => io'[k][r] = "down"
                    /\ Incoming(r, k)' <=> Incoming(r, k)
    BY <1>3, UnchangedTraffic DEF Waiting
  <2>5. QED
    BY <1>3, <2>1, <2>2, <2>3, <2>4, CalmBy
<1>7. Opened'
  <2>1. \A x \in Items(events'[p]) : x \in Items(events[p]) \/ (x.id <= links /\ io'[x.id][p] # "hello")
    BY <1>1, <1>2, <1>3, <1>4, <1>5
  <2>2. p \notin gone
    BY DEF Accept
  <2>3. QED
    BY <1>3, <1>5, <2>1, <2>2, OpenedBy
<1>8. ConnectedFirst'
  <2>1. First(s, link[p].id)
    BY <1>1 DEF ConnectedFirst
  <2>2. First(Append(s, e), link[p].id)
    BY <1>2, <1>5, <2>1, FirstFacts
  <2>3. QED
    BY <1>3, <2>2 DEF ConnectedFirst
<1>9. QED
  BY <1>6, <1>7, <1>8

\* A message is handed on from the wire to the hub.
LEMMA QuietReceive ==
    ASSUME Typed, Typed', Opened, ConnectedFirst, NEW p \in Peer, NEW l \in Links, LinkReceives(p, l)
    PROVE  Calm /\ Opened' /\ ConnectedFirst'
<1>1. PICK s \in Seq(Event), w \in Seq(Message \cup {NoMessage}) :
         s = events[p] /\ w = wire[l][p] /\ w # <<>> /\ Head(w) # NoMessage
  BY Known DEF LinkReceives
<1>2. PICK e \in Event : e = LinkEvent("message", l, Head(w)) /\ e.type = "message" /\ e.id = l
  <2>1. Head(w) \in Message \cup {NoMessage}
    BY <1>1
  <2>2. QED
    BY <2>1, Values
<1>3. /\ UNCHANGED <<gone, link, io, links>> /\ events'[p] = Append(s, e) /\ wire'[l][p] = Tail(w)
      /\ io[l][p] = "up"
      /\ \A r \in Peer, k \in Links : ~(r = p /\ k = l) => wire'[k][r] = wire[k][r]
      /\ \A r \in Peer : r # p => events'[r] = events[r]
  BY <1>1, <1>2 DEF LinkReceives, AddEvent, Typed, TypeOK
<1>4. Items(Append(s, e)) = Items(s) \cup {e}
  BY Appended
<1>5. l <= links
  <2>1. io[l][p] # "none" /\ l \in Nat /\ links \in Nat
    BY <1>3, Numbers
  <2>2. QED
    BY <1>1, <1>3, <2>1 DEF Opened, OpenedAt
<1>6. \A k \in Links : Pending(p, k)' <=> Pending(p, k)
  <2>1. \A k \in Links : LinkEvent("connected", k, NoMessage) # e
    BY <1>2, Values
  <2>2. QED
    BY <1>1, <1>3, <1>4, <2>1 DEF Pending
<1>7. ASSUME NEW k \in Links
      PROVE  /\ Incoming(p, k)' <=> Incoming(p, k)
             /\ AtMostOne(p, k) => AtMostOne(p, k)'
  <2>1. CASE k = l
    <3>1. Coming(w, s, l) /\ Coming(Tail(w), Append(s, e), l) /\ (Single(w, s, l) => Single(Tail(w), Append(s, e), l))
      BY <1>1, <1>2, HandedOn
    <3>2. Incoming(p, l) /\ Incoming(p, l)'
      BY <1>1, <1>3, <3>1, Traffic
    <3>3. AtMostOne(p, l) => AtMostOne(p, l)'
      BY <1>1, <1>3, <3>1 DEF AtMostOne
    <3>4. QED
      BY <2>1, <3>2, <3>3
  <2>2. CASE k # l
    <3>1. PICK v \in Seq(Message \cup {NoMessage}) : v = wire[k][p] /\ v = wire'[k][p]
      BY <1>3, <2>2, Known
    <3>2. PICK n \in Nat : n = Len(s)
      BY Seqs
    <3>3. PICK t : t = Append(s, e)
      OBVIOUS
    <3>4. /\ Len(t) = n + 1 /\ t[n + 1] = e /\ \A i \in 1..n : i \in 1..n + 1 /\ t[i] = s[i]
          /\ \A i \in 1..n + 1 : i \in 1..n \/ i = n + 1
      BY <3>2, <3>3, Appended
    <3>5. Coming(v, t, k) <=> Coming(v, s, k)
      BY <1>2, <2>2, <3>2, <3>4 DEF Coming
    <3>6. Single(v, s, k) => Single(v, t, k)
      <4>1. \A i \in 1..n + 1 : t[i].type = "message" /\ t[i].id = k => i \in 1..n
        BY <1>2, <2>2, <3>4
      <4>2. QED
        BY <3>2, <3>4, <4>1 DEF Single
    <3>7. Incoming(p, k)' <=> Incoming(p, k)
      BY <1>1, <1>3, <3>1, <3>3, <3>5, Traffic
    <3>8. AtMostOne(p, k) => AtMostOne(p, k)'
      BY <1>1, <1>3, <3>1, <3>3, <3>6 DEF AtMostOne
    <3>9. QED
      BY <3>7, <3>8
  <2>3. QED
    BY <2>1, <2>2
<1>8. Calm
  <2>1. \A r \in Peer, k \in Links : r # p =>
              /\ Incoming(r, k)' <=> Incoming(r, k)
              /\ AtMostOne(r, k) => AtMostOne(r, k)'
              /\ Waiting(r, k)' => Waiting(r, k)
    <3>1. SUFFICES ASSUME NEW r \in Peer, NEW k \in Links, r # p
                   PROVE  /\ Incoming(r, k)' <=> Incoming(r, k)
                          /\ AtMostOne(r, k) => AtMostOne(r, k)'
                          /\ Waiting(r, k)' => Waiting(r, k)
      OBVIOUS
    <3>2. events'[r] = events[r] /\ wire'[k][r] = wire[k][r] /\ io' = io
      BY <1>3, <3>1
    <3>3. Incoming(r, k)' <=> Incoming(r, k)
      BY <3>2, UnchangedTraffic
    <3>4. AtMostOne(r, k) => AtMostOne(r, k)'
      BY <3>2 DEF AtMostOne
    <3>5. Waiting(r, k)' => Waiting(r, k)
      BY <3>2 DEF Waiting, Pending
    <3>6. QED
      BY <3>3, <3>4, <3>5
  <2>2. \A k \in Links : Waiting(p, k)' => Waiting(p, k)
    BY <1>3, <1>6 DEF Waiting
  <2>3. QED
    BY <1>3, <1>7, <2>1, <2>2 DEF Calm
<1>9. Opened'
  <2>1. \A x \in Items(events'[p]) : x \in Items(events[p]) \/ (x.id <= links /\ io'[x.id][p] # "hello")
    BY <1>1, <1>2, <1>3, <1>4, <1>5
  <2>2. \A k \in Links : k > links => k # l
    BY <1>5, Numbers
  <2>3. QED
    BY <1>3, <2>1, <2>2, OpenedBy
<1>10. ConnectedFirst'
  <2>1. First(s, link[p].id)
    BY <1>1 DEF ConnectedFirst
  <2>2. First(Append(s, e), link[p].id)
    BY <1>2, <2>1, FirstFacts
  <2>3. QED
    BY <1>3, <2>2 DEF ConnectedFirst
<1>11. QED
  BY <1>8, <1>9, <1>10

\* The end of a task: the rest of what it was to read is lost, and maybe what it was to write.
LEMMA QuietCut ==
    ASSUME Typed, Typed', Opened, ConnectedFirst, NEW p \in Peer, NEW l \in Links,
           RefuseHello(p, l) \/ LinkEnds(p, l)
    PROVE  Calm /\ Opened' /\ ConnectedFirst'
<1>1. PICK s \in Seq(Event) : s = events[p]
  BY Known
<1>2. PICK e \in Event : e = LinkEvent("disconnected", l, NoMessage) /\ e.type = "disconnected" /\ e.id = l
  BY Values
<1>3. /\ UNCHANGED <<gone, link, links>> /\ Cut(l, p) /\ p \notin gone
      /\ events'[p] = s \/ events'[p] = Append(s, e)
      /\ io[l][p] \in {"hello", "up"}
      /\ \A r \in Peer : r # p => events'[r] = events[r]
  BY <1>1, <1>2 DEF RefuseHello, LinkEnds, AddEvent, Typed, TypeOK
<1>4. /\ \A k \in Links, r \in Peer : ~(k = l /\ r = p) => io'[k][r] = io[k][r]
      /\ io'[l][p] = "down"
      /\ \A k \in Links : k # l => wire'[k] = wire[k]
      /\ wire'[l][p] = <<>>
      /\ \E k \in 0..Len(wire[l][Other(p)]) :
            wire'[l][Other(p)] = Append(SubSeq(wire[l][Other(p)], 1, k), NoMessage)
  BY <1>3, CutType
<1>5. PICK q \in Peer : q = Other(p) /\ q # p /\ p = Other(q) /\ \A r \in Peer : r = p \/ r = q
  BY Pair
<1>6. Items(Append(s, e)) = Items(s) \cup {e}
  BY Appended
<1>7. l <= links
  <2>1. io[l][p] # "none" /\ l \in Nat /\ links \in Nat
    BY <1>3, Numbers
  <2>2. QED
    BY <2>1 DEF Opened, OpenedAt
<1>8. \A r \in Peer, k \in Links : Within(wire'[k][r], wire[k][r])
  <2>1. \A r \in Peer, k \in Links : Within(wire[k][r], wire[k][r]) /\ Within(<<>>, wire[k][r])
    BY Known, WithinFacts
  <2>2. Within(wire'[l][q], wire[l][q])
    <3>1. PICK w \in Seq(Message \cup {NoMessage}) : w = wire[l][q]
      BY Known
    <3>2. PICK k \in 0..Len(w) : wire'[l][q] = Append(SubSeq(w, 1, k), NoMessage)
      BY <1>4, <1>5, <3>1
    <3>3. Within(Append(SubSeq(w, 1, k), NoMessage), w)
      BY WithinFacts
    <3>4. QED
      BY <3>1, <3>2, <3>3
  <2>3. Within(wire'[l][p], wire[l][p])
    BY <1>4, <2>1
  <2>4. \A r \in Peer, k \in Links : k # l => Within(wire'[k][r], wire[k][r])
    BY <1>4, <2>1
  <2>5. QED
    BY <1>5, <2>2, <2>3, <2>4
<1>9. Calm
  <2>1. WithinEvents(events'[p], events[p])
    BY <1>1, <1>2, <1>3, WithinEventsFacts
  <2>2. WithinEvents(events'[q], events[q])
    BY <1>3, <1>5, Known, WithinEventsFacts
  <2>3. \A k \in Links : /\ Pending(p, k)' => Pending(p, k)
                         /\ Pending(q, k)' => Pending(q, k)
    <3>1. \A k \in Links : LinkEvent("connected", k, NoMessage) # e
      BY <1>2, Values
    <3>2. QED
      BY <1>1, <1>3, <1>5, <1>6, <3>1 DEF Pending
  <2>4. \A r \in Peer, k \in Links : /\ Waiting(r, k)' => Waiting(r, k)
                                     /\ io[k][r] = "down" => io'[k][r] = "down"
    BY <1>4, <1>5, <2>3 DEF Waiting
  <2>5. ASSUME NEW r \in Peer, NEW k \in Links
        PROVE  Incoming(r, k) => Incoming(r, k)' \/ io'[k][r] = "down" \/ io'[k][Other(r)] = "down"
    <3>1. CASE k = l
      BY <1>4, <1>5, <3>1
    <3>2. CASE k # l
      <4>1. wire'[k][r] = wire[k][r]
        BY <1>4, <3>2
      <4>2. Items(events[r]) \subseteq Items(events'[r])
        BY <1>1, <1>3, <1>5, <1>6
      <4>3. QED
        BY <4>1, <4>2 DEF Incoming
    <3>3. QED
      BY <3>1, <3>2
  <2>6. QED
    BY <1>3, <1>5, <1>8, <2>1, <2>2, <2>4, <2>5, CalmBy
<1>10. Opened'
  <2>1. \A r \in Peer : \A x \in Items(events'[r]) : x \in Items(events[r]) \/ (x.id <= links /\ io'[x.id][r] # "hello")
    <3>1. \A x \in Items(events'[p]) : x \in Items(events[p]) \/ x = e
      BY <1>1, <1>3, <1>6
    <3>2. e.id <= links /\ io'[e.id][p] # "hello"
      BY <1>2, <1>4, <1>7
    <3>3. \A x \in Items(events'[q]) : x \in Items(events[q])
      BY <1>3, <1>5
    <3>4. QED
      BY <1>5, <3>1, <3>2, <3>3
  <2>2. \A k \in Links : k > links => k # l
    BY <1>7, Numbers
  <2>3. \A r \in Peer, k \in Links : k > links => wire'[k][r] = wire[k][r]
    BY <1>4, <2>2
  <2>4. \A r \in Peer, k \in Links :
           io'[k][r] = io[k][r] \/ (k <= links /\ io'[k][r] \in {"up", "down"} /\ (r \in gone => io'[k][r] = "down"))
    BY <1>4, <1>7
  <2>5. QED
    BY <1>3, <2>1, <2>3, <2>4, OpenedBy
<1>11. ConnectedFirst'
  <2>1. First(s, link[p].id)
    BY <1>1 DEF ConnectedFirst
  <2>2. First(Append(s, e), link[p].id)
    BY <1>2, <2>1, FirstFacts
  <2>3. QED
    BY <1>3, <2>1, <2>2 DEF ConnectedFirst
<1>12. QED
  BY <1>9, <1>10, <1>11

LEMMA QuietLeave ==
    ASSUME Typed, Typed', Opened, ConnectedFirst, NEW p \in Peer, Leave(p)
    PROVE  Calm /\ Opened' /\ ConnectedFirst'
<1>1. PICK q \in Peer : q = Other(p) /\ q # p /\ p = Other(q) /\ \A r \in Peer : r = p \/ r = q
  BY Pair
<1>2. /\ links' = links /\ gone = {} /\ gone' = {p}
      /\ events'[p] = <<>> /\ events'[q] = events[q]
      /\ link'[p] = NoLink /\ link'[q] = link[q]
  BY <1>1 DEF Leave, Typed, TypeOK
<1>3. /\ \A l \in Links : io'[l][q] = io[l][q]
      /\ \A l \in Links : io[l][p] \in {"hello", "up"} =>
            io'[l][p] = "down" /\ wire'[l][p] = <<>> /\ wire'[l][q] = Append(wire[l][q], NoMessage)
      /\ \A l \in Links : io[l][p] \notin {"hello", "up"} => io'[l][p] = io[l][p] /\ wire'[l] = wire[l]
  BY <1>1, LeaveType
<1>4. NoLink.id = 0 /\ 0 <= links /\ \A l \in Links : NoLink.id # l
  BY Numbers
<1>5. \A r \in Peer, l \in Links : Within(wire'[l][r], wire[l][r])
  <2>1. \A r \in Peer, l \in Links : /\ Within(wire[l][r], wire[l][r]) /\ Within(<<>>, wire[l][r])
                                     /\ Within(Append(wire[l][r], NoMessage), wire[l][r])
    BY Known, WithinFacts
  <2>2. SUFFICES ASSUME NEW l \in Links
                 PROVE  Within(wire'[l][p], wire[l][p]) /\ Within(wire'[l][q], wire[l][q])
    BY <1>1
  <2>3. CASE io[l][p] \in {"hello", "up"}
    BY <1>3, <2>1, <2>3
  <2>4. CASE io[l][p] \notin {"hello", "up"}
    BY <1>3, <2>1, <2>4
  <2>5. QED
    BY <2>3, <2>4
<1>6. Calm
  <2>1. WithinEvents(events'[p], events[p]) /\ WithinEvents(events'[q], events[q])
    BY <1>2, Known, WithinEventsFacts
  <2>2. \A r \in Peer, l \in Links : /\ Waiting(r, l)' => Waiting(r, l)
                                     /\ io[l][r] = "down" => io'[l][r] = "down"
    BY <1>1, <1>2, <1>3 DEF Waiting, Pending, Items
  <2>3. ASSUME NEW l \in Links
        PROVE  Incoming(q, l) => Incoming(q, l)' \/ io'[l][q] = "down" \/ io'[l][p] = "down"
    <3>1. CASE io[l][p] \in {"hello", "up"}
      BY <1>3, <3>1
    <3>2. CASE io[l][p] \notin {"hello", "up"}
      BY <1>2, <1>3, <3>2 DEF Incoming
    <3>3. QED
      BY <3>1, <3>2
  <2>4. QED
    BY <1>1, <1>2, <1>5, <2>1, <2>2, <2>3, CalmBy
<1>7. Opened'
  <2>1. OpenedAt(p)'
    <3>1. OpenedAt(p)
      BY DEF Opened
    <3>2. Items(events'[p]) = {}
      BY <1>2 DEF Items
    <3>3. ASSUME NEW l \in Links
          PROVE  /\ l > links => io'[l][p] = "none" /\ wire'[l][p] = <<>>
                 /\ l <= links => io'[l][p] # "none"
                 /\ io'[l][p] \in {"none", "down"}
      <4>1. /\ l > links => io[l][p] = "none" /\ wire[l][p] = <<>>
            /\ l <= links => io[l][p] # "none"
            /\ io[l][p] \in {"none", "hello", "up", "down"}
        BY <3>1, Known DEF OpenedAt
      <4>2. CASE io[l][p] \in {"hello", "up"}
        BY <1>3, <4>1, <4>2
      <4>3. CASE io[l][p] \notin {"hello", "up"}
        BY <1>3, <4>1, <4>3
      <4>4. QED
        BY <4>2, <4>3
    <3>4. QED
      BY <1>2, <1>4, <3>2, <3>3 DEF OpenedAt
  <2>2. OpenedAt(q)'
    <3>1. OpenedAt(q) /\ q \notin gone'
      BY <1>1, <1>2 DEF Opened
    <3>2. \A l \in Links : l > links => wire'[l][q] = wire[l][q]
      <4>1. \A l \in Links : l > links => io[l][p] = "none"
        BY DEF Opened, OpenedAt
      <4>2. QED
        BY <1>3, <4>1
    <3>3. QED
      BY <1>2, <1>3, <3>1, <3>2 DEF OpenedAt
  <2>3. QED
    BY <1>1, <2>1, <2>2 DEF Opened
<1>8. ConnectedFirst'
  <2>1. First(events[q], link[q].id)
    BY DEF ConnectedFirst
  <2>2. First(<<>>, link'[p].id)
    BY DEF First
  <2>3. QED
    BY <1>1, <1>2, <2>1, <2>2 DEF ConnectedFirst
<1>9. QED
  BY <1>6, <1>7, <1>8

\* A hub that has a link is not waiting for it.
LEMMA NotWaiting ==
    ASSUME Typed, Opened, ConnectedFirst, NEW p \in Peer, NEW l \in Links, link[p].id = l
    PROVE  ~Waiting(p, l)
<1>1. io[l][p] # "hello"
  BY DEF Opened, OpenedAt
<1>2. ASSUME Pending(p, l) PROVE FALSE
  <2>1. PICK i \in 1..Len(events[p]) : events[p][i] = LinkEvent("connected", l, NoMessage)
    BY <1>2 DEF Pending, Items
  <2>2. events[p][i].type = "connected" /\ events[p][i].id = l
    BY <2>1, Values
  <2>3. link[p].id # events[p][i].id
    BY <2>2 DEF ConnectedFirst, First
  <2>4. QED
    BY <2>2, <2>3
<1>3. QED
  BY <1>1, <1>2 DEF Waiting

\* Who has a link is one of its ends.
LEMMA EitherEnd ==
    ASSUME Typed, NEW p \in Peer, NEW l \in Links, link[p].id = l
    PROVE  /\ link[p] \in Link /\ link[p].role \in {"initiator", "recipient"}
           /\ link[p].state \in {"new", "awaiting", "active"}
           /\ link[p].role = "initiator" => Dialed(p, l)
           /\ link[p].role = "recipient" => Called(p, l)
<1>1. link[p] \in Link
  BY Known, Values
<1>2. QED
  BY <1>1 DEF Link, Dialed, Called

LEMMA Posted ==
    ASSUME NEW w \in Seq(Message \cup {NoMessage}), NEW s \in Seq(Event), NEW m \in Message, NEW l
    PROVE  /\ Coming(Append(w, m), s, l)
           /\ ~Coming(w, s, l) => Single(Append(w, m), s, l)
<1>1. m # NoMessage
  BY Values
<1>2. PICK n \in Nat : n = Len(w)
  BY Seqs
<1>3. PICK v : v = Append(w, m)
  OBVIOUS
<1>4. /\ Len(v) = n + 1 /\ v[n + 1] = m /\ n + 1 \in 1..n + 1 /\ \A i \in 1..n : v[i] = w[i]
      /\ \A i \in 1..n + 1 : i \in 1..n \/ i = n + 1
  BY <1>2, <1>3, Appended
<1>5. Coming(v, s, l)
  BY <1>1, <1>4 DEF Coming
<1>6. ASSUME ~Coming(w, s, l) PROVE Single(v, s, l)
  <2>1. \A i \in 1..n : w[i] = NoMessage
    BY <1>2, <1>6 DEF Coming
  <2>2. \A i \in 1..n + 1 : v[i] # NoMessage => i = n + 1
    BY <1>4, <2>1
  <2>3. \A j \in 1..Len(s) : ~(s[j].type = "message" /\ s[j].id = l)
    BY <1>6 DEF Coming
  <2>4. QED
    BY <1>4, <2>2, <2>3 DEF Single
<1>7. QED
  BY <1>3, <1>5, <1>6

\* The end of a hub that goes on with its link, and the one across
LEMMA UseKeeps ==
    ASSUME Typed, Typed', Opened, ConnectedFirst, Roles, NEW p \in Peer, NEW k \in Link,
           link[p] \in Link, k.id = link[p].id, k.role = link[p].role,
           link' = [link EXCEPT ![p] = k], UNCHANGED <<gone, io, links>>,
           events' = events \/ (events[p] # <<>> /\ Head(events[p]).type # "connected"
                                /\ events' = [events EXCEPT ![p] = Tail(@)]),
           \A r \in Peer, l \in Links : l # link[p].id => wire'[l][r] = wire[l][r]
    PROVE  /\ Opened' /\ ConnectedFirst' /\ Roles'
           /\ link'[p] = k /\ \A r \in Peer : r # p => link'[r] = link[r]
           /\ \A r \in Peer, l \in Links : /\ Waiting(r, l)' <=> Waiting(r, l)
                                           /\ Called(r, l)' <=> Called(r, l)
                                           /\ Dialed(r, l)' <=> Dialed(r, l)
<1>1. /\ link'[p] = k /\ \A r \in Peer : r # p => link'[r] = link[r]
      /\ \A r \in Peer : r # p => events'[r] = events[r]
      /\ events'[p] = events[p] \/ (events[p] # <<>> /\ Head(events[p]).type # "connected" /\ events'[p] = Tail(events[p]))
  BY DEF Typed, TypeOK
<1>2. PICK s \in Seq(Event) : s = events[p]
  BY Known
<1>3. s # <<>> => Items(s) = {Head(s)} \cup Items(Tail(s)) /\ Tail(s) \in Seq(Event)
  BY Tailed
<1>4. \A l \in Links : Pending(p, l)' <=> Pending(p, l)
  <2>1. \A l \in Links : LinkEvent("connected", l, NoMessage).type = "connected"
    BY Values
  <2>2. QED
    BY <1>1, <1>2, <1>3, <2>1 DEF Pending
<1>5. \A r \in Peer, l \in Links : Waiting(r, l)' <=> Waiting(r, l)
  <2>1. \A r \in Peer, l \in Links : r # p => (Pending(r, l)' <=> Pending(r, l))
    BY <1>1 DEF Pending
  <2>2. QED
    BY <1>4, <2>1 DEF Waiting
<1>6. \A r \in Peer, l \in Links : /\ Called(r, l)' <=> Called(r, l)
                                   /\ Dialed(r, l)' <=> Dialed(r, l)
  BY <1>1, <1>5 DEF Called, Dialed
<1>7. Roles'
  <2>1. ASSUME NEW r \in Peer, NEW l \in Links
        PROVE  /\ Called(r, l)' => ~Called(Other(r), l)' /\ ~Dialed(r, l)'
               /\ Dialed(r, l)' => ~Dialed(Other(r), l)'
    <3>1. PICK q \in Peer : q = Other(r)
      BY Pair
    <3>2. (Called(r, l) => ~Called(q, l) /\ ~Dialed(r, l)) /\ (Dialed(r, l) => ~Dialed(q, l))
      BY <3>1 DEF Roles
    <3>3. (Called(r, l)' => ~Called(q, l)' /\ ~Dialed(r, l)') /\ (Dialed(r, l)' => ~Dialed(q, l)')
      BY <1>6, <3>2
    <3>4. QED
      BY <3>1, <3>3
  <2>2. QED
    BY <2>1 DEF Roles
<1>8. Opened'
  <2>1. link[p].id \in Links /\ link[p].id <= links /\ links \in Nat
    BY Values, Numbers DEF Opened, OpenedAt
  <2>2. \A r \in Peer : link'[r] = link[r] \/ link'[r].id <= links
    BY <1>1, <2>1
  <2>3. \A r \in Peer : \A e \in Items(events'[r]) : e \in Items(events[r])
    BY <1>1, <1>2, <1>3
  <2>4. \A l \in Links : l > links => l # link[p].id
    BY <2>1, Numbers
  <2>5. \A l \in Links : io[l][p] = "hello" => link'[p].id # l
    BY <1>1 DEF Opened, OpenedAt
  <2>6. QED
    BY <1>1, <2>2, <2>3, <2>4, <2>5, OpenedBy
<1>9. ConnectedFirst'
  <2>1. First(s, k.id) /\ \A r \in Peer : First(events[r], link[r].id)
    BY <1>2 DEF ConnectedFirst
  <2>2. s # <<>> => First(Tail(s), k.id)
    BY <2>1, FirstFacts
  <2>3. QED
    BY <1>1, <1>2, <2>1, <2>2 DEF ConnectedFirst
<1>10. QED
  BY <1>1, <1>5, <1>6, <1>7, <1>8, <1>9

\* What is said of the other links stays true when one link is used.
LEMMA OtherLinks ==
    ASSUME Typed, Typed', Protocol, NEW a \in Peer, NEW l \in Links,
           \A r \in Peer : l \in {link[r].id, link'[r].id} => link'[r] = link[r],
           \A r \in Peer : /\ Waiting(r, l)' <=> Waiting(r, l)
                           /\ Incoming(r, l)' <=> Incoming(r, l)
                           /\ AtMostOne(r, l) => AtMostOne(r, l)'
                           /\ io'[l][r] = io[l][r]
    PROVE  Agreed(a, l)'
<1>1. PICK b \in Peer : b = Other(a)
  BY Pair
<1>2. Agreed(a, l)
  BY DEF Protocol
<1>3. \A r \in Peer : /\ link'[r].id = l => link'[r] = link[r]
                      /\ link[r].id = l => link'[r] = link[r]
  OBVIOUS
<1>4. \A r \in Peer : /\ Dialed(r, l)' => Dialed(r, l) /\ link'[r] = link[r]
                      /\ Unopened(r, l)' => Unopened(r, l)
  BY <1>3 DEF Dialed, Unopened
<1>5. Dialed(a, l)' /\ link'[a].state = "new" =>
          /\ ~Incoming(a, l)' /\ ~Incoming(b, l)'
          /\ link'[b].id = l => link'[b].state = "new"
  BY <1>1, <1>2, <1>3, <1>4 DEF Agreed
<1>6. Unopened(b, l)' =>
          /\ AtMostOne(b, l)' /\ ~Incoming(a, l)'
          /\ Dialed(a, l)' => link'[a].state # "active"
  BY <1>1, <1>2, <1>3, <1>4 DEF Agreed
<1>7. link'[b].id = l /\ link'[b].role = "recipient" /\ link'[b].state = "awaiting" =>
          /\ ~Incoming(b, l)' /\ ~Incoming(a, l)'
          /\ Dialed(a, l)' => link'[a].state = "awaiting"
  BY <1>1, <1>2, <1>3, <1>4 DEF Agreed
<1>8. link'[b].id = l /\ link'[b].role = "recipient" /\ link'[b].state = "active" /\ Dialed(a, l)' =>
          /\ link'[a].state # "new"
          /\ link'[a].state = "awaiting" =>
                /\ ~Incoming(b, l)'
                /\ Incoming(a, l)' \/ io'[l][a] = "down" \/ io'[l][b] = "down"
  BY <1>1, <1>2, <1>3, <1>4 DEF Agreed
<1>9. QED
  BY <1>1, <1>5, <1>6, <1>7, <1>8 DEF Agreed

\* A hub sends on its link.
LEMMA PutStep ==
    ASSUME Typed, Typed', Opened, ConnectedFirst, Roles, Protocol, NEW p \in Peer, Put(p)
    PROVE  Opened' /\ ConnectedFirst' /\ Roles' /\ Protocol'
<1>1. PICK q \in Peer : q = Other(p) /\ q # p /\ p = Other(q) /\ \A r \in Peer : r = p \/ r = q
  BY Pair
<1>2. PICK m \in Message, l \in Links, k \in Link :
         /\ m = sending[p] /\ l = link[p].id /\ k = AfterSend(link[p])
         /\ k.id = l /\ k.role = link[p].role /\ link[p] \in Link
         /\ \/ k.role = "initiator" /\ link[p].state = "new" /\ k.state = "awaiting"
            \/ k.role = "recipient" /\ link[p].state = "awaiting" /\ k.state = "active"
            \/ link[p].state = "active" /\ k.state = "active"
  BY SendFacts, Values DEF Put
<1>3. /\ link' = [link EXCEPT ![p] = k] /\ wire' = [wire EXCEPT ![l][q] = Append(@, m)]
      /\ UNCHANGED <<gone, events, io, links>>
  BY <1>1, <1>2 DEF Put
<1>4. /\ wire'[l][q] = Append(wire[l][q], m)
      /\ \A r \in Peer, j \in Links : ~(r = q /\ j = l) => wire'[j][r] = wire[j][r]
  BY <1>1, <1>3 DEF Typed, TypeOK
<1>5. \A r \in Peer, j \in Links : ~(r = q /\ j = l) =>
         /\ Incoming(r, j)' <=> Incoming(r, j)
         /\ AtMostOne(r, j) => AtMostOne(r, j)'
  BY <1>3, <1>4, UnchangedTraffic DEF AtMostOne
<1>6. Incoming(q, l)' /\ (~Incoming(q, l) => AtMostOne(q, l)')
  <2>1. PICK w \in Seq(Message \cup {NoMessage}), s \in Seq(Event) : w = wire[l][q] /\ s = events[q]
    BY Known
  <2>2. Coming(Append(w, m), s, l) /\ (~Coming(w, s, l) => Single(Append(w, m), s, l))
    BY Posted
  <2>3. events'[q] = s /\ wire'[l][q] = Append(w, m)
    BY <1>3, <1>4, <2>1
  <2>4. QED
    BY <2>1, <2>2, <2>3, Traffic DEF AtMostOne
<1>7. /\ Opened' /\ ConnectedFirst' /\ Roles'
      /\ link'[p] = k /\ link'[q] = link[q]
      /\ \A r \in Peer, j \in Links : /\ Waiting(r, j)' <=> Waiting(r, j)
                                      /\ Called(r, j)' <=> Called(r, j)
                                      /\ Dialed(r, j)' <=> Dialed(r, j)
  <2>1. /\ k.id = link[p].id /\ k.role = link[p].role /\ link[p] \in Link /\ events' = events
        /\ UNCHANGED <<gone, io, links>>
        /\ \A r \in Peer, j \in Links : j # link[p].id => wire'[j][r] = wire[j][r]
    BY <1>2, <1>3, <1>4
  <2>2. /\ Opened' /\ ConnectedFirst' /\ Roles'
        /\ link'[p] = k /\ \A r \in Peer : r # p => link'[r] = link[r]
        /\ \A r \in Peer, j \in Links : /\ Waiting(r, j)' <=> Waiting(r, j)
                                        /\ Called(r, j)' <=> Called(r, j)
                                        /\ Dialed(r, j)' <=> Dialed(r, j)
    BY <1>3, <2>1, UseKeeps
  <2>3. QED
    BY <1>1, <2>2
<1>8. Agreed(p, l) /\ Agreed(q, l)
  BY DEF Protocol
<1>9. /\ ~Waiting(p, l)
      /\ k.role = "initiator" => Dialed(p, l)
      /\ k.role = "recipient" => Called(p, l)
      /\ k.role \in {"initiator", "recipient"}
  BY <1>2, NotWaiting, EitherEnd
<1>10. /\ Called(p, l) => ~Called(q, l)
       /\ Called(q, l) => ~Called(p, l) /\ ~Dialed(q, l)
       /\ Dialed(p, l) => ~Dialed(q, l)
  BY <1>1 DEF Roles
<1>11. (Unopened(q, l)' <=> Unopened(q, l)) /\ (Unopened(q, l) => Called(q, l))
  BY <1>7 DEF Unopened, Called
<1>12. Agreed(p, l)'
  <2>1. ~(link'[p].state = "new")
    BY <1>2, <1>7
  <2>2. Unopened(q, l)' => AtMostOne(q, l)' /\ ~Incoming(p, l)' /\ link'[p].state # "active"
    <3>1. SUFFICES ASSUME Unopened(q, l) PROVE AtMostOne(q, l)' /\ ~Incoming(p, l)' /\ link'[p].state # "active"
      BY <1>11
    <3>2. Dialed(p, l) /\ k.role = "initiator"
      BY <1>9, <1>10, <1>11, <3>1
    <3>3. ~Incoming(p, l) /\ link[p].state # "active"
      BY <1>1, <1>8, <3>1, <3>2 DEF Agreed
    <3>4. link[p].state = "new" /\ k.state = "awaiting"
      BY <1>2, <3>2, <3>3
    <3>5. ~Incoming(q, l)
      BY <1>1, <1>8, <3>2, <3>4 DEF Agreed
    <3>6. QED
      BY <1>1, <1>5, <1>6, <1>7, <3>3, <3>4, <3>5
  <2>3. ~(link'[q].id = l /\ link'[q].role = "recipient" /\ link'[q].state = "awaiting")
    <3>1. SUFFICES ASSUME link[q].id = l, link[q].role = "recipient", link[q].state = "awaiting" PROVE FALSE
      BY <1>7
    <3>2. Called(q, l)
      BY <3>1 DEF Called
    <3>3. Dialed(p, l) /\ k.role = "initiator"
      BY <1>9, <1>10, <3>2
    <3>4. link[p].state = "awaiting"
      BY <1>1, <1>8, <3>1, <3>3 DEF Agreed
    <3>5. QED
      BY <1>2, <3>3, <3>4
  <2>4. link'[q].id = l /\ link'[q].role = "recipient" /\ link'[q].state = "active" /\ Dialed(p, l)' =>
           link'[p].state = "active"
    <3>1. SUFFICES ASSUME link[q].id = l, link[q].role = "recipient", link[q].state = "active", Dialed(p, l)
                   PROVE  k.state = "active"
      BY <1>7
    <3>2. link[p].state # "new" /\ link[p].role = "initiator"
      BY <1>1, <1>8, <3>1 DEF Agreed, Dialed
    <3>3. QED
      BY <1>2, <3>2
  <2>5. QED
    BY <1>1, <2>1, <2>2, <2>3, <2>4 DEF Agreed
<1>13. Agreed(q, l)'
  <2>1. Dialed(q, l) => k.role = "recipient"
    BY <1>9, <1>10
  <2>2. Dialed(q, l) => link[q].state # "new" /\ k.state = "active"
    <3>1. SUFFICES ASSUME Dialed(q, l) PROVE link[q].state # "new" /\ k.state = "active"
      OBVIOUS
    <3>2. link[p].id = l /\ link[p].role = "recipient" /\ link[p].state \in {"awaiting", "active"} /\ k.state = "active"
      BY <1>2, <2>1, <3>1
    <3>3. QED
      BY <1>1, <1>8, <3>1, <3>2 DEF Agreed
  <2>3. ~(Dialed(q, l)' /\ link'[q].state = "new")
    BY <1>7, <2>2
  <2>4. ~Unopened(p, l)'
    <3>1. ~Waiting(p, l)' /\ k.state # "new"
      BY <1>2, <1>7, <1>9
    <3>2. QED
      BY <1>7, <3>1 DEF Unopened
  <2>5. ~(link'[p].role = "recipient" /\ link'[p].state = "awaiting")
    BY <1>2, <1>7
  <2>6. Dialed(q, l)' /\ link'[q].state = "awaiting" => ~Incoming(p, l)'
    <3>1. SUFFICES ASSUME Dialed(q, l), link[q].state = "awaiting" PROVE ~Incoming(p, l)
      BY <1>1, <1>5, <1>7
    <3>2. link[p].id = l /\ link[p].role = "recipient" /\ link[p].state \in {"awaiting", "active"}
      BY <1>2, <2>1, <3>1
    <3>3. QED
      BY <1>1, <1>8, <3>1, <3>2 DEF Agreed
  <2>7. QED
    BY <1>1, <1>6, <1>7, <2>2, <2>3, <2>4, <2>5, <2>6 DEF Agreed
<1>14. ASSUME NEW a \in Peer, NEW j \in Links PROVE Agreed(a, j)'
  <2>1. CASE j = l
    BY <1>1, <1>12, <1>13, <2>1
  <2>2. CASE j # l
    <3>1. \A r \in Peer : /\ Waiting(r, j)' <=> Waiting(r, j)
                          /\ Incoming(r, j)' <=> Incoming(r, j)
                          /\ AtMostOne(r, j) => AtMostOne(r, j)'
                          /\ io'[j][r] = io[j][r]
      BY <1>3, <1>5, <1>7, <2>2
    <3>2. \A r \in Peer : j \in {link[r].id, link'[r].id} => link'[r] = link[r]
      BY <1>1, <1>2, <1>7, <2>2
    <3>3. QED
      BY <3>1, <3>2, OtherLinks
  <2>3. QED
    BY <2>1, <2>2
<1>15. Protocol'
  BY <1>14 DEF Protocol
<1>16. QED
  BY <1>7, <1>15

\* A message that was the first event of the hub is not coming any more.
LEMMA Fetched ==
    ASSUME NEW w \in Seq(Message \cup {NoMessage}), NEW s \in Seq(Event), NEW l,
           s # <<>>, Head(s).type = "message", Head(s).id = l
    PROVE  /\ Coming(w, s, l)
           /\ Single(w, s, l) => ~Coming(w, Tail(s), l)
           /\ \A j : j # l /\ Coming(w, s, j) => Coming(w, Tail(s), j)
<1>1. PICK t : t = Tail(s)
  OBVIOUS
<1>2. /\ Head(s) = s[1] /\ 1 \in 1..Len(s) /\ Len(s) \in Nat
      /\ \A i \in 1..Len(t) : i + 1 \in 1..Len(s) /\ t[i] = s[i + 1]
      /\ \A i \in 1..Len(s) : i # 1 => i - 1 \in 1..Len(t) /\ s[i] = t[i - 1]
  BY <1>1, Tailed
<1>3. Coming(w, s, l)
  BY <1>2 DEF Coming
<1>4. ASSUME Single(w, s, l) PROVE ~Coming(w, t, l)
  <2>1. \A i \in 1..Len(w) : w[i] = NoMessage
    BY <1>2, <1>4 DEF Single
  <2>2. ASSUME NEW i \in 1..Len(t), t[i].type = "message", t[i].id = l PROVE FALSE
    <3>1. i + 1 \in 1..Len(s) /\ s[i + 1] = t[i] /\ i + 1 # 1
      BY <1>2
    <3>2. i + 1 = 1
      BY <1>2, <1>4, <2>2, <3>1 DEF Single
    <3>3. QED
      BY <3>1, <3>2
  <2>3. QED
    BY <2>1, <2>2 DEF Coming
<1>5. \A j : j # l /\ Coming(w, s, j) => Coming(w, t, j)
  BY <1>2 DEF Coming
<1>6. QED
  BY <1>1, <1>3, <1>4, <1>5

\* A hub goes on with a message that came on its link.
LEMMA GetStep ==
    ASSUME Typed, Typed', Opened, ConnectedFirst, Roles, Protocol, NEW p \in Peer, Get(p)
    PROVE  Opened' /\ ConnectedFirst' /\ Roles' /\ Protocol'
<1>1. PICK q \in Peer : q = Other(p) /\ q # p /\ p = Other(q) /\ \A r \in Peer : r = p \/ r = q
  BY Pair
<1>2. PICK s \in Seq(Event) : s = events[p] /\ s # <<>>
  BY Known DEF Get
<1>3. /\ Head(s).type = "message" /\ Head(s).id = link[p].id /\ Head(s) \in Event
      /\ AfterMessage(link[p]) # NoLink
  BY <1>2, Tailed DEF Get, Answerable
<1>4. link[p].id \in Links /\ link[p] \in Link
  <2>1. link[p].id \in Links
    BY <1>3 DEF Event
  <2>2. link[p] # NoLink
    BY <2>1, Numbers
  <2>3. QED
    BY <2>1, <2>2, Known
<1>5. PICK l \in Links, k \in Link :
         /\ l = link[p].id /\ k = AfterMessage(link[p])
         /\ k.id = l /\ k.role = link[p].role
         /\ \/ k.role = "recipient" /\ link[p].state = "new" /\ k.state = "awaiting"
            \/ k.role = "initiator" /\ link[p].state = "awaiting" /\ k.state = "active"
            \/ link[p].state = "active" /\ k.state = "active"
  BY <1>3, <1>4, MessageFacts
<1>6. /\ link' = [link EXCEPT ![p] = k] /\ events' = [events EXCEPT ![p] = Tail(@)]
      /\ UNCHANGED <<gone, io, wire, links>>
  BY <1>5 DEF Get
<1>7. /\ Opened' /\ ConnectedFirst' /\ Roles'
      /\ link'[p] = k /\ link'[q] = link[q]
      /\ \A r \in Peer, j \in Links : /\ Waiting(r, j)' <=> Waiting(r, j)
                                      /\ Called(r, j)' <=> Called(r, j)
                                      /\ Dialed(r, j)' <=> Dialed(r, j)
  <2>1. /\ k.id = link[p].id /\ k.role = link[p].role /\ link[p] \in Link
        /\ events[p] # <<>> /\ Head(events[p]).type # "connected"
        /\ \A r \in Peer, j \in Links : j # link[p].id => wire'[j][r] = wire[j][r]
    BY <1>2, <1>3, <1>4, <1>5, <1>6
  <2>2. /\ Opened' /\ ConnectedFirst' /\ Roles'
        /\ link'[p] = k /\ \A r \in Peer : r # p => link'[r] = link[r]
        /\ \A r \in Peer, j \in Links : /\ Waiting(r, j)' <=> Waiting(r, j)
                                        /\ Called(r, j)' <=> Called(r, j)
                                        /\ Dialed(r, j)' <=> Dialed(r, j)
    BY <1>6, <2>1, UseKeeps
  <2>3. QED
    BY <1>1, <2>2
<1>8. events'[p] = Tail(s) /\ events'[q] = events[q] /\ \A r \in Peer, j \in Links : wire'[j][r] = wire[j][r]
  BY <1>1, <1>2, <1>6 DEF Typed, TypeOK
<1>9. \A r \in Peer, j \in Links : /\ Incoming(r, j)' => Incoming(r, j)
                                   /\ AtMostOne(r, j) => AtMostOne(r, j)'
  <2>1. WithinEvents(events'[p], events[p]) /\ WithinEvents(events'[q], events[q])
    BY <1>2, <1>8, Known, WithinEventsFacts
  <2>2. \A r \in Peer, j \in Links : Within(wire'[j][r], wire[j][r])
    BY <1>8, Known, WithinFacts
  <2>3. QED
    BY <1>1, <2>1, <2>2, Quieter
<1>10. \A j \in Links : /\ Incoming(q, j)' <=> Incoming(q, j)
                        /\ j # l => (Incoming(p, j)' <=> Incoming(p, j))
  <2>1. \A j \in Links : Incoming(q, j)' <=> Incoming(q, j)
    BY <1>8, UnchangedTraffic
  <2>2. ASSUME NEW j \in Links, j # l, Incoming(p, j) PROVE Incoming(p, j)'
    <3>1. PICK w \in Seq(Message \cup {NoMessage}) : w = wire[j][p]
      BY Known
    <3>2. Coming(w, s, j) => Coming(w, Tail(s), j)
      BY <1>2, <1>3, <1>5, <2>2, Fetched
    <3>3. QED
      BY <1>2, <1>8, <2>2, <3>1, <3>2, Traffic
  <2>3. QED
    BY <1>9, <2>1, <2>2
<1>11. Incoming(p, l) /\ (AtMostOne(p, l) => ~Incoming(p, l)')
  <2>1. PICK w \in Seq(Message \cup {NoMessage}) : w = wire[l][p]
    BY Known
  <2>2. Coming(w, s, l) /\ (Single(w, s, l) => ~Coming(w, Tail(s), l))
    BY <1>2, <1>3, <1>5, Fetched
  <2>3. QED
    BY <1>2, <1>8, <2>1, <2>2, Traffic DEF AtMostOne
<1>12. Agreed(p, l) /\ Agreed(q, l)
  BY DEF Protocol
<1>13. /\ ~Waiting(p, l)
       /\ k.role = "initiator" => Dialed(p, l)
       /\ k.role = "recipient" => Called(p, l)
       /\ k.role \in {"initiator", "recipient"}
  BY <1>5, NotWaiting, EitherEnd
<1>14. /\ Called(p, l) => ~Called(q, l)
       /\ Called(q, l) => ~Called(p, l) /\ ~Dialed(q, l)
       /\ Dialed(p, l) => ~Dialed(q, l)
  BY <1>1 DEF Roles
<1>15. (Unopened(q, l)' <=> Unopened(q, l)) /\ (Unopened(q, l) => Called(q, l))
  BY <1>7 DEF Unopened, Called
<1>16. Agreed(p, l)'
  <2>1. link'[p].state # "new" \/ ~Dialed(p, l)'
    BY <1>5, <1>7
  <2>2. ~Unopened(q, l)'
    BY <1>1, <1>11, <1>12, <1>15 DEF Agreed
  <2>3. ~(link'[q].id = l /\ link'[q].role = "recipient" /\ link'[q].state = "awaiting")
    BY <1>1, <1>7, <1>11, <1>12 DEF Agreed
  <2>4. Dialed(p, l)' => link'[p].state = "active"
    <3>1. SUFFICES ASSUME Dialed(p, l) PROVE k.state = "active"
      BY <1>7
    <3>2. ~Called(p, l) /\ k.role # "recipient"
      BY <1>13, <1>14, <3>1 DEF Roles
    <3>3. QED
      BY <1>5, <3>2
  <2>5. QED
    BY <1>1, <2>1, <2>2, <2>3, <2>4 DEF Agreed
<1>17. Agreed(q, l)'
  <2>1. Dialed(q, l) => k.role = "recipient"
    BY <1>13, <1>14
  <2>2. Dialed(q, l) => (link[q].state = "awaiting" /\ k.state = "awaiting") \/ (link[q].state = "active" /\ k.state = "active")
    <3>1. SUFFICES ASSUME Dialed(q, l)
                   PROVE  (link[q].state = "awaiting" /\ k.state = "awaiting") \/ (link[q].state = "active" /\ k.state = "active")
      OBVIOUS
    <3>2. link[p].id = l /\ link[p].role = "recipient"
      BY <1>5, <2>1, <3>1
    <3>3. link[q].state \in {"new", "awaiting", "active"}
      BY <3>1, EitherEnd DEF Dialed
    <3>4. link[q].state # "new"
      BY <1>1, <1>11, <1>12, <3>1 DEF Agreed
    <3>5. CASE link[p].state = "new" /\ k.state = "awaiting"
      <4>1. Unopened(p, l)
        BY <3>2, <3>5 DEF Unopened
      <4>2. link[q].state # "active"
        BY <1>1, <1>12, <3>1, <4>1 DEF Agreed
      <4>3. QED
        BY <3>3, <3>4, <3>5, <4>2
    <3>6. CASE link[p].state = "active" /\ k.state = "active"
      <4>1. link[q].state # "awaiting"
        BY <1>1, <1>11, <1>12, <3>1, <3>2, <3>6 DEF Agreed
      <4>2. QED
        BY <3>3, <3>4, <3>6, <4>1
    <3>7. QED
      BY <1>5, <3>2, <3>5, <3>6
  <2>3. ~Unopened(p, l)'
    <3>1. ~Waiting(p, l)' /\ k.state # "new"
      BY <1>5, <1>7, <1>13
    <3>2. QED
      BY <1>7, <3>1 DEF Unopened
  <2>4. link'[p].role = "recipient" /\ link'[p].state = "awaiting" => ~Incoming(p, l)' /\ ~Incoming(q, l)'
    <3>1. SUFFICES ASSUME k.role = "recipient", k.state = "awaiting" PROVE ~Incoming(p, l)' /\ ~Incoming(q, l)'
      BY <1>7
    <3>2. Unopened(p, l)
      BY <1>5, <3>1 DEF Unopened
    <3>3. AtMostOne(p, l) /\ ~Incoming(q, l)
      BY <1>1, <1>12, <3>2 DEF Agreed
    <3>4. QED
      BY <1>10, <1>11, <3>3
  <2>5. ~(Dialed(q, l)' /\ link'[q].state = "new")
    BY <1>7, <2>2
  <2>6. k.state = "active" /\ Dialed(q, l)' => link'[q].state = "active"
    BY <1>7, <2>2
  <2>7. k.state = "awaiting" /\ Dialed(q, l)' => link'[q].state = "awaiting"
    BY <1>7, <2>2
  <2>8. QED
    BY <1>1, <1>7, <2>3, <2>4, <2>5, <2>6, <2>7 DEF Agreed
<1>18. ASSUME NEW a \in Peer, NEW j \in Links PROVE Agreed(a, j)'
  <2>1. CASE j = l
    BY <1>1, <1>16, <1>17, <2>1
  <2>2. CASE j # l
    <3>1. \A r \in Peer : /\ Waiting(r, j)' <=> Waiting(r, j)
                          /\ Incoming(r, j)' <=> Incoming(r, j)
                          /\ AtMostOne(r, j) => AtMostOne(r, j)'
                          /\ io'[j][r] = io[j][r]
      BY <1>1, <1>6, <1>7, <1>9, <1>10, <2>2
    <3>2. \A r \in Peer : j \in {link[r].id, link'[r].id} => link'[r] = link[r]
      BY <1>1, <1>5, <1>7, <2>2
    <3>3. QED
      BY <3>1, <3>2, OtherLinks
  <2>3. QED
    BY <2>1, <2>2
<1>19. Protocol'
  BY <1>18 DEF Protocol
<1>20. QED
  BY <1>7, <1>19

\* A hub opens a link, which nobody has heard of.
LEMMA DialStep ==
    ASSUME Typed, Typed', Opened, ConnectedFirst, Roles, Protocol, NEW p \in Peer, DialSucceeds(p)
    PROVE  Opened' /\ ConnectedFirst' /\ Roles' /\ Protocol'
<1>1. PICK q \in Peer : q = Other(p) /\ q # p /\ p = Other(q) /\ \A r \in Peer : r = p \/ r = q
  BY Pair
<1>2. PICK l : l = links + 1
  OBVIOUS
<1>3. l \in Links /\ links \in Nat /\ l \in Nat /\ links < l /\ links' = l
  <2>1. links < MaxLinks /\ links' = l
    BY <1>2 DEF DialSucceeds
  <2>2. links \in Nat /\ MaxLinks \in Nat
    BY Numbers, ConstantsAssumption
  <2>3. QED
    BY <1>2, <2>1, <2>2 DEF Links
<1>4. PICK k \in Link : /\ k = [id |-> l, role |-> "initiator", state |-> "new"]
                        /\ k.id = l /\ k.role = "initiator" /\ k.state = "new"
  <2>1. PICK k : k = [id |-> l, role |-> "initiator", state |-> "new"]
    OBVIOUS
  <2>2. k \in Link
    BY <1>3, <2>1, Values
  <2>3. QED
    BY <2>1, <2>2
<1>5. /\ UNCHANGED <<gone, events, wire>> /\ p \notin gone /\ q \notin gone
      /\ link[p] = NoLink /\ link'[p] = k /\ link'[q] = link[q]
      /\ io'[l][p] = "up" /\ io'[l][q] = "hello"
      /\ \A r \in Peer, j \in Links : j # l => io'[j][r] = io[j][r]
  BY <1>1, <1>2, <1>3, <1>4 DEF DialSucceeds, Typed, TypeOK
<1>6. \A r \in Peer : /\ link[r].id # l /\ wire[l][r] = <<>> /\ io[l][r] = "none"
                      /\ \A e \in Items(events[r]) : e.id # l
  <2>1. SUFFICES ASSUME NEW r \in Peer
                 PROVE  /\ link[r].id # l /\ wire[l][r] = <<>> /\ io[l][r] = "none"
                        /\ \A e \in Items(events[r]) : e.id # l
    OBVIOUS
  <2>2. /\ link[r].id <= links /\ (\A e \in Items(events[r]) : e.id <= links)
        /\ wire[l][r] = <<>> /\ io[l][r] = "none"
    BY <1>3 DEF Opened, OpenedAt
  <2>3. ~(l <= links)
    BY <1>3
  <2>4. QED
    BY <2>2, <2>3
<1>7. \A r \in Peer, j \in Links : /\ Pending(r, j)' <=> Pending(r, j)
                                   /\ Incoming(r, j)' <=> Incoming(r, j)
                                   /\ AtMostOne(r, j) <=> AtMostOne(r, j)'
  BY <1>5, UnchangedTraffic DEF AtMostOne
<1>8. \A r \in Peer : ~Pending(r, l) /\ ~Incoming(r, l) /\ AtMostOne(r, l)
  <2>1. SUFFICES ASSUME NEW r \in Peer PROVE ~Pending(r, l) /\ ~Incoming(r, l) /\ AtMostOne(r, l)
    OBVIOUS
  <2>2. ~Pending(r, l)
    <3>1. LinkEvent("connected", l, NoMessage).id = l
      BY <1>3, Values
    <3>2. QED
      BY <1>6, <3>1 DEF Pending
  <2>3. Len(wire[l][r]) = 0
    BY <1>6
  <2>4. \A i \in 1..Len(events[r]) : events[r][i].id # l
    BY <1>6 DEF Items
  <2>5. ~Incoming(r, l)
    BY <1>6, <2>3 DEF Incoming
  <2>6. AtMostOne(r, l)
    BY <2>3, <2>4 DEF AtMostOne, Single
  <2>7. QED
    BY <2>2, <2>5, <2>6
<1>9. \A r \in Peer, j \in Links : j # l =>
         /\ Waiting(r, j)' <=> Waiting(r, j)
         /\ Called(r, j)' <=> Called(r, j)
         /\ Dialed(r, j)' <=> Dialed(r, j)
  <2>1. \A r \in Peer, j \in Links : j # l => (Waiting(r, j)' <=> Waiting(r, j))
    BY <1>5, <1>7 DEF Waiting
  <2>2. \A j \in Links : j # l => j # link[p].id /\ j # link'[p].id
    BY <1>4, <1>5, Numbers
  <2>3. QED
    BY <1>1, <1>5, <2>1, <2>2 DEF Called, Dialed
<1>10. /\ ~Called(p, l)' /\ Dialed(p, l)' /\ ~Dialed(q, l)' /\ ~Waiting(p, l)'
  <2>1. ~Waiting(p, l)' /\ link'[q].id # l
    BY <1>3, <1>5, <1>6, <1>7, <1>8 DEF Waiting
  <2>2. QED
    BY <1>4, <1>5, <2>1 DEF Called, Dialed
<1>11. Roles'
  <2>1. ASSUME NEW r \in Peer, NEW j \in Links
        PROVE  /\ Called(r, j)' => ~Called(Other(r), j)' /\ ~Dialed(r, j)'
               /\ Dialed(r, j)' => ~Dialed(Other(r), j)'
    <3>1. PICK b \in Peer : b = Other(r)
      BY Pair
    <3>2. (Called(r, j) => ~Called(b, j) /\ ~Dialed(r, j)) /\ (Dialed(r, j) => ~Dialed(b, j))
      BY <3>1 DEF Roles
    <3>3. (Called(r, j)' => ~Called(b, j)' /\ ~Dialed(r, j)') /\ (Dialed(r, j)' => ~Dialed(b, j)')
      <4>1. CASE j # l
        BY <1>9, <3>2, <4>1
      <4>2. CASE j = l /\ r = p
        BY <1>1, <1>10, <3>1, <4>2
      <4>3. CASE j = l /\ r = q
        BY <1>1, <1>10, <3>1, <4>3
      <4>4. QED
        BY <1>1, <4>1, <4>2, <4>3
    <3>4. QED
      BY <3>1, <3>3
  <2>2. QED
    BY <2>1 DEF Roles
<1>12. Agreed(p, l)'
  <2>1. ~Incoming(p, l)' /\ ~Incoming(q, l)' /\ AtMostOne(q, l)' /\ link'[q].id # l /\ link'[p].state = "new"
    BY <1>3, <1>4, <1>5, <1>6, <1>7, <1>8
  <2>2. QED
    BY <1>1, <2>1 DEF Agreed
<1>13. Agreed(q, l)'
  <2>1. ~Unopened(p, l)' /\ link'[p].role # "recipient"
    BY <1>4, <1>5, <1>10 DEF Unopened
  <2>2. QED
    BY <1>1, <1>10, <2>1 DEF Agreed
<1>14. ASSUME NEW a \in Peer, NEW j \in Links PROVE Agreed(a, j)'
  <2>1. CASE j = l
    BY <1>1, <1>12, <1>13, <2>1
  <2>2. CASE j # l
    <3>1. \A r \in Peer : /\ Waiting(r, j)' <=> Waiting(r, j)
                          /\ Incoming(r, j)' <=> Incoming(r, j)
                          /\ AtMostOne(r, j) => AtMostOne(r, j)'
                          /\ io'[j][r] = io[j][r]
      BY <1>5, <1>7, <1>9, <2>2
    <3>2. \A r \in Peer : j \in {link[r].id, link'[r].id} => link'[r] = link[r]
      BY <1>1, <1>4, <1>5, <2>2, Numbers
    <3>3. QED
      BY <3>1, <3>2, OtherLinks
  <2>3. QED
    BY <2>1, <2>2
<1>15. Protocol'
  BY <1>14 DEF Protocol
<1>16. Opened'
  <2>1. ASSUME NEW r \in Peer PROVE OpenedAt(r)'
    <3>1. OpenedAt(r) /\ r \notin gone'
      BY <1>1, <1>5 DEF Opened
    <3>2. link'[r].id <= l
      <4>1. link[r].id <= links /\ link[r].id \in Nat
        <5>1. link[r] \in Link \cup {NoLink}
          BY Known
        <5>2. \A x \in Link \cup {NoLink} : x.id \in Nat
          BY Numbers DEF Link
        <5>3. QED
          BY <3>1, <5>1, <5>2 DEF OpenedAt
      <4>2. QED
        BY <1>1, <1>3, <1>4, <1>5, <4>1
    <3>3. \A e \in Items(events'[r]) : e.id <= l
      <4>1. \A e \in Items(events[r]) : e.id <= links /\ e.id \in Nat
        <5>1. events[r] \in Seq(Event)
          BY Known
        <5>2. \A e \in Items(events[r]) : e \in Event
          BY <5>1, Seqs
        <5>3. QED
          BY <3>1, <5>2, Numbers DEF OpenedAt, Event
      <4>2. QED
        BY <1>3, <1>5, <4>1
    <3>4. ASSUME NEW j \in Links
          PROVE  /\ j > l => io'[j][r] = "none" /\ wire'[j][r] = <<>>
                 /\ j <= l => io'[j][r] # "none"
                 /\ io'[j][r] = "hello" => link'[r].id # j /\ \A e \in Items(events'[r]) : e.id # j
      <4>1. CASE j = l
        BY <1>1, <1>3, <1>5, <1>6, <4>1
      <4>2. CASE j # l
        <5>1. j \in Nat /\ (j > l => j > links) /\ (j <= l => j <= links)
          BY <1>2, <1>3, <4>2, Numbers
        <5>2. link[r].id # j => link'[r].id # j
          BY <1>1, <1>4, <1>5, <4>2
        <5>3. QED
          BY <1>5, <3>1, <4>2, <5>1, <5>2 DEF OpenedAt
      <4>3. QED
        BY <4>1, <4>2
    <3>5. QED
      BY <1>3, <3>1, <3>2, <3>3, <3>4 DEF OpenedAt
  <2>2. QED
    BY <2>1 DEF Opened
<1>17. ConnectedFirst'
  <2>1. First(events[p], l)
    <3>1. First(events[p], link[p].id) /\ events[p] \in Seq(Event)
      BY Known DEF ConnectedFirst
    <3>2. QED
      BY <1>6, <3>1, FirstFacts
  <2>2. QED
    BY <1>1, <1>4, <1>5, <2>1 DEF ConnectedFirst
<1>18. QED
  BY <1>11, <1>15, <1>16, <1>17

LEMMA NetInit == Init => Net
<1>1. SUFFICES ASSUME Init PROVE Net
  OBVIOUS
<1>2. Typed
  BY <1>1, TypeInit
<1>3. /\ gone = {} /\ links = 0
      /\ \A p \in Peer : /\ link[p] = NoLink /\ events[p] = <<>>
                         /\ \A l \in Links : io[l][p] = "none" /\ wire[l][p] = <<>>
  BY <1>1 DEF Init
<1>4. \A p \in Peer : Items(events[p]) = {} /\ Len(events[p]) = 0
  BY <1>3 DEF Items
<1>5. \A l \in Links : l \in Nat /\ l > 0 /\ ~(l <= 0)
  BY Values
<1>6. NoLink.id = 0 /\ \A l \in Links : NoLink.id # l
  BY <1>2, Numbers
<1>7. Opened
  BY <1>3, <1>4, <1>5, <1>6 DEF Opened, OpenedAt
<1>8. Ended
  BY <1>3 DEF Ended
<1>9. \A p \in Peer, l \in Links : ~Called(p, l) /\ ~Dialed(p, l) /\ ~Unopened(p, l)
  BY <1>3, <1>4, <1>6 DEF Called, Dialed, Unopened, Waiting, Pending
<1>10. Roles
  BY <1>9 DEF Roles
<1>11. ConnectedFirst
  BY <1>4 DEF ConnectedFirst, First
<1>12. Protocol
  <2>1. ASSUME NEW p \in Peer, NEW l \in Links PROVE Agreed(p, l)
    <3>1. PICK q \in Peer : q = Other(p)
      BY Pair
    <3>2. link[q].id # l
      BY <1>3, <1>6
    <3>3. QED
      BY <1>9, <3>1, <3>2 DEF Agreed
  <2>2. QED
    BY <2>1 DEF Protocol
<1>13. QED
  BY <1>7, <1>8, <1>10, <1>11, <1>12 DEF Net

\* A step of one of p's tasks, or of p's user
Acts(p) ==
    \/ OpenView(p) \/ ReadInbox(p)
    \/ \E m \in Message : UserSends(p, m)
    \/ LearnPeer(p) \/ ForgetPeer(p) \/ Leave(p)
    \/ Hub(p)
    \/ \E l \in Links : LinkTask(p, l)

\* It leaves the other's hub and terminal as they are.
LEMMA Apart ==
    ASSUME Typed, NEW p \in Peer, Acts(p), NEW r \in Peer, r # p
    PROVE  /\ link'[r] = link[r] /\ events'[r] = events[r] /\ inbox'[r] = inbox[r]
           /\ commands'[r] = commands[r] /\ sending'[r] = sending[r] /\ view'[r] = view[r]
           /\ sent'[r] = sent[r] /\ shown'[r] = shown[r] /\ carried'[r] = carried[r]
<1>1. /\ link \in [Peer -> Link \cup {NoLink}] /\ events \in [Peer -> Seq(Event)] /\ inbox \in [Peer -> Seq(Item)]
      /\ commands \in [Peer -> Seq(Message \cup {NoMessage})] /\ sending \in [Peer -> Message \cup {NoMessage}]
      /\ view \in [Peer -> View \cup {NoView}] /\ sent \in [Peer -> Seq(Message)] /\ shown \in [Peer -> Seq(Message)]
      /\ carried \in [Peer -> SUBSET Message]
  BY DEF Typed, TypeOK
<1>2. CASE OpenView(p)
  BY <1>1, <1>2 DEF OpenView
<1>3. CASE ReadInbox(p)
  BY <1>1, <1>3 DEF ReadInbox
<1>4. ASSUME NEW m \in Message, UserSends(p, m)
      PROVE  /\ link'[r] = link[r] /\ events'[r] = events[r] /\ inbox'[r] = inbox[r]
             /\ commands'[r] = commands[r] /\ sending'[r] = sending[r] /\ view'[r] = view[r]
             /\ sent'[r] = sent[r] /\ shown'[r] = shown[r] /\ carried'[r] = carried[r]
  BY <1>1, <1>4 DEF UserSends
<1>5. CASE LearnPeer(p)
  BY <1>1, <1>5 DEF LearnPeer, uiVars
<1>6. CASE ForgetPeer(p)
  BY <1>1, <1>6 DEF ForgetPeer, uiVars
<1>7. CASE Leave(p)
  BY <1>1, <1>7 DEF Leave
<1>8. CASE TakeSend(p)
  BY <1>1, <1>8 DEF TakeSend, TakesCommand, uiVars
<1>9. CASE DialFails(p)
  BY <1>1, <1>9 DEF DialFails, Fail, uiVars
<1>10. CASE DialSucceeds(p)
  BY <1>1, <1>10 DEF DialSucceeds, uiVars
<1>11. CASE SendOnLink(p)
  BY <1>1, <1>11 DEF SendOnLink, Fail, uiVars
<1>12. CASE PeerLeft(p)
  BY <1>1, <1>12 DEF PeerLeft, CloseLink, TakesCommand, uiVars
<1>13. CASE HubConnected(p)
  BY <1>1, <1>13 DEF HubConnected, TakesEvent, uiVars
<1>14. CASE HubMessage(p)
  BY <1>1, <1>14 DEF HubMessage, TakesEvent, uiVars
<1>15. CASE HubDisconnected(p)
  BY <1>1, <1>15 DEF HubDisconnected, CloseLink, TakesEvent, uiVars
<1>16. ASSUME NEW l \in Links, LinkTask(p, l)
      PROVE  /\ link'[r] = link[r] /\ events'[r] = events[r] /\ inbox'[r] = inbox[r]
           /\ commands'[r] = commands[r] /\ sending'[r] = sending[r] /\ view'[r] = view[r]
           /\ sent'[r] = sent[r] /\ shown'[r] = shown[r] /\ carried'[r] = carried[r]
  BY <1>1, <1>16 DEF LinkTask, Accept, RefuseHello, LinkReceives, LinkEnds, AddEvent, uiVars
<1>17. QED
  BY <1>2, <1>3, <1>4, <1>5, <1>6, <1>7, <1>8, <1>9, <1>10, <1>11, <1>12, <1>13, <1>14, <1>15, <1>16 DEF Acts, Hub

\* Only a session that is there does anything; the one that leaves takes its all with it.
LEMMA EndedStep ==
    ASSUME Typed, Ended, [Next]_vars
    PROVE  Ended'
<1>1. CASE UNCHANGED vars
  BY <1>1 DEF vars, netVars, uiVars, Ended
<1>2. ASSUME NEW p \in Peer, Acts(p) PROVE Ended'
  <2>1. CASE Leave(p)
    BY <2>1 DEF Leave, Ended, Typed, TypeOK
  <2>2. CASE ~Leave(p)
    <3>1. p \notin gone /\ gone' = gone
      BY <1>2, <2>2 DEF Acts, OpenView, ReadInbox, UserSends, LearnPeer, ForgetPeer, Hub, TakeSend, DialFails, DialSucceeds,
                  SendOnLink, PeerLeft, HubConnected, HubMessage, HubDisconnected, TakesCommand, TakesEvent, HubFree,
                  LinkTask, Accept, RefuseHello, LinkReceives, LinkEnds
    <3>2. gone \subseteq Peer
      BY DEF Typed, TypeOK
    <3>3. \A r \in gone : /\ link'[r] = link[r] /\ events'[r] = events[r] /\ inbox'[r] = inbox[r]
                          /\ commands'[r] = commands[r] /\ sending'[r] = sending[r] /\ view'[r] = view[r]
      BY <1>2, <3>1, <3>2, Apart
    <3>4. QED
      BY <3>1, <3>3 DEF Ended
  <2>3. QED
    BY <2>1, <2>2
<1>3. QED
  BY <1>1, <1>2 DEF Next, Acts

LEMMA NetStep == Typed /\ Net /\ [Next]_vars => Net'
<1>1. SUFFICES ASSUME Typed, Net, [Next]_vars PROVE Net'
  OBVIOUS
<1>2. Typed'
  BY <1>1, TypeStep
<1>3. Opened /\ Ended /\ Roles /\ ConnectedFirst /\ Protocol
  BY <1>1 DEF Net
<1>4. Ended'
  BY <1>1, <1>3, EndedStep
<1>5. ASSUME Calm, Opened', ConnectedFirst' PROVE Net'
  BY <1>1, <1>3, <1>4, <1>5, CalmStep DEF Net
<1>6. CASE Still
  BY <1>1, <1>2, <1>3, <1>5, <1>6, QuietStill
<1>7. ASSUME NEW p \in Peer, Drop(p) PROVE Net'
  BY <1>1, <1>2, <1>3, <1>5, <1>7, QuietStill
<1>8. ASSUME NEW p \in Peer, DialSucceeds(p) \/ Put(p) \/ Get(p) PROVE Net'
  BY <1>1, <1>2, <1>3, <1>4, <1>8, DialStep, PutStep, GetStep DEF Net
<1>9. ASSUME NEW p \in Peer, Take(p) \/ Leave(p) PROVE Net'
  BY <1>1, <1>2, <1>3, <1>5, <1>9, QuietTake, QuietLeave
<1>10. ASSUME NEW p \in Peer, NEW l \in Links, LinkTask(p, l) PROVE Net'
  BY <1>1, <1>2, <1>3, <1>5, <1>10, QuietAccept, QuietReceive, QuietCut DEF LinkTask
<1>11. QED
  BY <1>1, <1>6, <1>7, <1>8, <1>9, <1>10, Kinds

-----------------------------------------------------------------------------
(* What the net says of the hubs *)

LEMMA NetAgrees == Typed /\ Net => HubsAgree
<1>1. SUFFICES ASSUME Typed, Net, NEW p \in Peer, Shared(p), link[p].role = "initiator"
               PROVE  LET k == link[Other(p)] IN
                      /\ k.role = "recipient"
                      /\ link[p].state = "active" => k.state = "active"
                      /\ link[p].state = "awaiting" /\ k.state = "active" =>
                            Incoming(p, k.id) \/ io[k.id][p] = "down" \/ io[k.id][Other(p)] = "down"
  BY DEF HubsAgree
<1>2. PICK q \in Peer : q = Other(p)
  BY Pair
<1>3. link[p] \in Link
  BY <1>1, Known DEF Shared
<1>4. PICK l \in Links : l = link[p].id /\ l = link[q].id
  BY <1>1, <1>2, <1>3, Values DEF Shared
<1>5. Dialed(p, l)
  BY <1>1, <1>4 DEF Dialed
<1>6. ~Dialed(q, l)
  BY <1>1, <1>2, <1>5 DEF Net, Roles
<1>7. link[q].role = "recipient" /\ link[q].state \in {"new", "awaiting", "active"}
  BY <1>1, <1>4, <1>6, EitherEnd
<1>8. link[q].state = "new" => Unopened(q, l)
  BY <1>4, <1>7 DEF Unopened
<1>9. Agreed(p, l)
  BY <1>1 DEF Net, Protocol
<1>10. link[p].state = "active" => link[q].state = "active"
  BY <1>2, <1>4, <1>5, <1>7, <1>8, <1>9 DEF Agreed
<1>11. link[p].state = "awaiting" /\ link[q].state = "active" =>
          Incoming(p, l) \/ io[l][p] = "down" \/ io[l][q] = "down"
  BY <1>2, <1>4, <1>5, <1>7, <1>9 DEF Agreed
<1>12. QED
  BY <1>2, <1>4, <1>7, <1>10, <1>11

LEMMA NetAnswers == Typed /\ Net => HonestNeverDropped
<1>1. SUFFICES ASSUME Typed, Net, NEW p \in Peer, events[p] # <<>>,
                      Head(events[p]).type = "message", Head(events[p]).id = link[p].id
               PROVE  AfterMessage(link[p]) # NoLink
  BY DEF HonestNeverDropped
<1>2. PICK q \in Peer : q = Other(p) /\ p = Other(q)
  BY Pair
<1>3. Head(events[p]) \in Event /\ Head(events[p]) \in Items(events[p])
  BY <1>1, Known, Tailed
<1>4. PICK l \in Links : l = link[p].id
  BY <1>1, <1>3 DEF Event
<1>5. Incoming(p, l)
  BY <1>1, <1>3, <1>4 DEF Incoming
<1>6. link[p] \in Link
  BY <1>1, <1>4, EitherEnd
<1>7. Agreed(p, l) /\ Agreed(q, l)
  BY <1>1 DEF Net, Protocol
<1>8. ~(link[p].role = "initiator" /\ link[p].state = "new")
  BY <1>4, <1>5, <1>7 DEF Agreed, Dialed
<1>9. ~(link[p].role = "recipient" /\ link[p].state = "awaiting")
  BY <1>2, <1>4, <1>5, <1>7 DEF Agreed
<1>10. QED
  BY <1>6, <1>8, <1>9, MessageFacts

-----------------------------------------------------------------------------
(* The views *)

LEMMA PromiseFacts ==
    ASSUME NEW v \in View \cup {NoView}, NEW q \in Seq(Item), NEW status \in Status
    PROVE  /\ \A x \in Item : ~Decisive(x) /\ Promises(v, q, status) => Promises(v, Append(q, x), status)
           /\ \A m \in Message : Promises(v, Append(q, Chat(m, status)), status)
           /\ q # <<>> /\ Promises(v, q, status) => Promises(Shows(v, Head(q)), Tail(q), status)
           /\ Promises(v, q, status) /\ v # [status |-> status, online |-> TRUE] => \A w : Promises(w, q, status)
<1>1. PICK n \in Nat : n = Len(q)
  BY Seqs
<1>2. ASSUME NEW x \in Item
      PROVE  /\ Len(Append(q, x)) = n + 1 /\ Append(q, x)[n + 1] = x /\ n + 1 \in 1..n + 1
             /\ \A i \in 1..n : i \in 1..n + 1 /\ Append(q, x)[i] = q[i] /\ i < n + 1
             /\ \A i \in 1..n + 1 : i \in 1..n \/ i = n + 1
  BY <1>1, Appended
<1>3. ASSUME NEW x \in Item, ~Decisive(x), Promises(v, q, status)
      PROVE  Promises(v, Append(q, x), status)
  <2>1. PICK t : t = Append(q, x)
    OBVIOUS
  <2>2. /\ Len(t) = n + 1 /\ \A i \in 1..n : i \in 1..n + 1 /\ t[i] = q[i]
        /\ \A i \in 1..n + 1 : i \in 1..n \/ t[i] = x
    BY <1>2, <2>1
  <2>3. QED
    BY <1>1, <1>3, <2>1, <2>2 DEF Promises
<1>4. ASSUME NEW m \in Message PROVE Promises(v, Append(q, Chat(m, status)), status)
  <2>1. PICK x \in Item : x = Chat(m, status) /\ x.type = "chat" /\ x.status = status
    BY Values
  <2>2. PICK t : t = Append(q, x)
    OBVIOUS
  <2>3. Len(t) = n + 1 /\ t[n + 1] = x /\ n + 1 \in 1..n + 1
    BY <1>2, <2>2
  <2>4. \A j \in 1..n + 1 : ~(n + 1 < j)
    BY <1>1
  <2>5. QED
    BY <2>1, <2>2, <2>3, <2>4 DEF Promises
<1>5. ASSUME q # <<>>, Promises(v, q, status) PROVE Promises(Shows(v, Head(q)), Tail(q), status)
  <2>1. PICK t : t = Tail(q)
    OBVIOUS
  <2>2. /\ Head(q) = q[1] /\ Head(q) \in Item /\ 1 \in 1..Len(q)
        /\ \A i \in 1..Len(t) : i + 1 \in 1..Len(q) /\ t[i] = q[i + 1]
        /\ \A i \in 1..Len(q) : i # 1 => i - 1 \in 1..Len(t) /\ q[i] = t[i - 1]
    BY <1>5, <2>1, Tailed
  <2>3. /\ Head(q).type = "chat" => Shows(v, Head(q)) = [status |-> Head(q).status, online |-> TRUE]
        /\ ~Decisive(Head(q)) => Shows(v, Head(q)) = v
    BY <2>2, ShowsFacts
  <2>4. CASE v = [status |-> status, online |-> TRUE] /\ \A i \in 1..Len(q) : ~Decisive(q[i])
    BY <2>1, <2>2, <2>3, <2>4 DEF Promises
  <2>5. ASSUME NEW i \in 1..Len(q), q[i].type = "chat", q[i].status = status,
               \A j \in 1..Len(q) : i < j => ~Decisive(q[j])
        PROVE  Promises(Shows(v, Head(q)), t, status)
    <3>1. CASE i = 1
      <4>1. Shows(v, Head(q)) = [status |-> status, online |-> TRUE]
        BY <2>2, <2>3, <2>5, <3>1
      <4>2. \A j \in 1..Len(t) : ~Decisive(t[j])
        <5>1. TAKE j \in 1..Len(t)
        <5>2. j + 1 \in 1..Len(q) /\ t[j] = q[j + 1] /\ 1 < j + 1
          BY <2>2
        <5>3. QED
          BY <2>5, <3>1, <5>2
      <4>3. QED
        BY <4>1, <4>2 DEF Promises
    <3>2. CASE i # 1
      <4>1. i - 1 \in 1..Len(t) /\ t[i - 1] = q[i] /\ i \in Nat
        BY <2>2, <3>2
      <4>2. \A j \in 1..Len(t) : i - 1 < j => ~Decisive(t[j])
        <5>1. SUFFICES ASSUME NEW j \in 1..Len(t), i - 1 < j PROVE ~Decisive(t[j])
          OBVIOUS
        <5>2. j + 1 \in 1..Len(q) /\ t[j] = q[j + 1] /\ i < j + 1
          BY <2>2, <4>1, <5>1
        <5>3. QED
          BY <2>5, <5>2
      <4>3. QED
        BY <2>5, <4>1, <4>2 DEF Promises
    <3>3. QED
      BY <3>1, <3>2
  <2>6. QED
    BY <1>5, <2>1, <2>4, <2>5 DEF Promises
<1>6. Promises(v, q, status) /\ v # [status |-> status, online |-> TRUE] => \A w : Promises(w, q, status)
  BY DEF Promises
<1>7. QED
  BY <1>3, <1>4, <1>5, <1>6

\* The terminal's own steps
LEMMA ViewedTerminal ==
    ASSUME Typed, Typed', NEW p \in Peer, ViewedAt(p),
           OpenView(p) \/ ReadInbox(p) \/ \E m \in Message : UserSends(p, m)
    PROVE  ViewedAt(p)'
<1>1. PICK k : k = link[p]
  OBVIOUS
<1>2. link'[p] = k
  BY <1>1 DEF OpenView, ReadInbox, UserSends
<1>3. PICK v \in View \cup {NoView}, q \in Seq(Item) : v = view[p] /\ q = inbox[p]
  BY Known
<1>4. SUFFICES ASSUME k.state # "new", NoMessage \notin Items(commands'[p])
               PROVE  Promises(view'[p], inbox'[p], StatusOf(k))
  BY <1>2 DEF ViewedAt
<1>5. k \in Link
  BY <1>1, <1>4, Known, Values
<1>6. PICK status \in Status : status = StatusOf(k) /\ status # "none"
  BY <1>5, Values
<1>7. NoMessage \notin Items(commands[p])
  <2>1. CASE OpenView(p) \/ ReadInbox(p)
    BY <1>4, <2>1 DEF OpenView, ReadInbox
  <2>2. ASSUME NEW m \in Message, UserSends(p, m) PROVE NoMessage \notin Items(commands[p])
    <3>1. PICK s \in Seq(Message \cup {NoMessage}) : s = commands[p]
      BY Known
    <3>2. commands'[p] = Append(s, m)
      BY <2>2, <3>1 DEF UserSends, Typed, TypeOK
    <3>3. Items(Append(s, m)) = Items(s) \cup {m}
      BY Appended
    <3>4. QED
      BY <1>4, <3>1, <3>2, <3>3
  <2>3. QED
    BY <2>1, <2>2
<1>8. Promises(v, q, status)
  BY <1>1, <1>3, <1>4, <1>6, <1>7 DEF ViewedAt
<1>9. v = [status |-> status, online |-> TRUE] => v # NoView /\ v.status = status
  BY <1>6, ViewFacts
<1>10. v # [status |-> status, online |-> TRUE] => \A w : Promises(w, q, status)
  BY <1>8, PromiseFacts
<1>11. CASE OpenView(p)
  <2>1. v = NoView /\ inbox'[p] = q
    BY <1>3, <1>11 DEF OpenView
  <2>2. QED
    BY <1>6, <1>9, <1>10, <2>1
<1>12. CASE ReadInbox(p)
  <2>1. q # <<>> /\ view'[p] = Shows(v, Head(q)) /\ inbox'[p] = Tail(q)
    BY <1>3, <1>12 DEF ReadInbox, Typed, TypeOK
  <2>2. QED
    BY <1>6, <1>8, <2>1, PromiseFacts
<1>13. ASSUME NEW m \in Message, UserSends(p, m) PROVE Promises(view'[p], inbox'[p], StatusOf(k))
  <2>1. inbox'[p] = q /\ v # NoView /\ view'[p] = [v EXCEPT !.status = IF @ = "none" THEN "mine" ELSE @]
    BY <1>3, <1>13 DEF UserSends, Typed, TypeOK
  <2>2. v = [status |-> status, online |-> TRUE] => view'[p] = v
    <3>1. SUFFICES ASSUME v = [status |-> status, online |-> TRUE] PROVE view'[p] = v
      OBVIOUS
    <3>2. v \in View /\ v.status = status
      BY <1>9, <2>1, <3>1
    <3>3. view'[p] = [v EXCEPT !.status = status]
      BY <1>6, <2>1, <3>2
    <3>4. QED
      BY <3>2, <3>3 DEF View
  <2>3. QED
    BY <1>6, <1>8, <1>10, <2>1, <2>2
<1>14. QED
  BY <1>11, <1>12, <1>13

\* What a step of the hub, or of one of its tasks, gives to the terminal
LEMMA ViewedHub ==
    ASSUME Typed, Typed', NEW p \in Peer, ViewedAt(p), view'[p] = view[p],
           NoMessage \in Items(commands[p]) => link'[p].state = "new" \/ NoMessage \in Items(commands'[p]),
           \/ link'[p].state = "new"
           \/ NoMessage \in Items(commands'[p])
           \/ link'[p] = link[p] /\ inbox'[p] = inbox[p]
           \/ link'[p] = link[p] /\ \E x \in Item : ~Decisive(x) /\ inbox'[p] = Append(inbox[p], x)
           \/ \E m \in Message : link'[p] \in Link /\ inbox'[p] = Append(inbox[p], Chat(m, StatusOf(link'[p])))
    PROVE  ViewedAt(p)'
<1>1. PICK v \in View \cup {NoView}, q \in Seq(Item) : v = view[p] /\ q = inbox[p]
  BY Known
<1>2. SUFFICES ASSUME link'[p].state # "new", NoMessage \notin Items(commands'[p])
               PROVE  Promises(v, inbox'[p], StatusOf(link'[p]))
  BY <1>1 DEF ViewedAt
<1>3. link[p] \in Link \cup {NoLink}
  BY Known
<1>4. CASE link'[p] = link[p] /\ (inbox'[p] = q \/ \E x \in Item : ~Decisive(x) /\ inbox'[p] = Append(q, x))
  <2>1. link[p] \in Link /\ NoMessage \notin Items(commands[p])
    BY <1>2, <1>3, <1>4, Values
  <2>2. PICK status \in Status : status = StatusOf(link[p])
    BY <2>1, Values
  <2>3. Promises(v, q, status)
    BY <1>1, <1>2, <1>4, <2>1, <2>2 DEF ViewedAt
  <2>4. CASE inbox'[p] = q
    BY <1>4, <2>2, <2>3, <2>4
  <2>5. ASSUME NEW x \in Item, ~Decisive(x), inbox'[p] = Append(q, x)
        PROVE  Promises(v, inbox'[p], StatusOf(link'[p]))
    <3>1. Promises(v, Append(q, x), status)
      BY <2>3, <2>5, PromiseFacts
    <3>2. QED
      BY <1>4, <2>2, <2>5, <3>1
  <2>6. QED
    BY <1>4, <2>4, <2>5
<1>5. ASSUME NEW m \in Message, link'[p] \in Link, inbox'[p] = Append(q, Chat(m, StatusOf(link'[p])))
      PROVE  Promises(v, inbox'[p], StatusOf(link'[p]))
  <2>1. PICK status \in Status : status = StatusOf(link'[p])
    BY <1>5, Values
  <2>2. QED
    BY <1>5, <2>1, PromiseFacts
<1>6. QED
  BY <1>1, <1>2, <1>4, <1>5

LEMMA ViewedStep == Typed /\ Viewed /\ [Next]_vars => Viewed'
<1>1. SUFFICES ASSUME Typed, Viewed, [Next]_vars PROVE Viewed'
  OBVIOUS
<1>2. Typed'
  BY <1>1, TypeStep
<1>3. CASE UNCHANGED vars
  BY <1>1, <1>3 DEF vars, Viewed, ViewedAt
<1>4. ASSUME NEW p \in Peer, Acts(p) PROVE Viewed'
  <2>1. ASSUME NEW r \in Peer, r # p PROVE ViewedAt(r)'
    <3>1. link'[r] = link[r] /\ inbox'[r] = inbox[r] /\ commands'[r] = commands[r] /\ view'[r] = view[r]
      BY <1>1, <1>4, <2>1, Apart
    <3>2. QED
      BY <1>1, <3>1 DEF Viewed, ViewedAt
  <2>b. SUFFICES ViewedAt(p)'
    BY <2>1 DEF Viewed
  <2>2. ViewedAt(p) /\ link[p] \in Link \cup {NoLink} /\ inbox[p] \in Seq(Item)
    BY <1>1, Known DEF Viewed
  <2>3. NoLink.state = "new"
    BY Values
  <2>4. Notice("joined") \in Item /\ Notice("error") \in Item /\ ~Decisive(Notice("joined")) /\ ~Decisive(Notice("error"))
    BY Values DEF Decisive
  <2>a. PICK c \in Seq(Message \cup {NoMessage}) : c = commands[p]
    BY <1>1, Known
  <2>5. CASE OpenView(p) \/ ReadInbox(p) \/ \E m \in Message : UserSends(p, m)
    BY <1>1, <1>2, <2>2, <2>5, ViewedTerminal
  <2>6. CASE LearnPeer(p)
    <3>1. /\ view' = view /\ link' = link /\ commands' = commands
          /\ inbox'[p] = Append(inbox[p], Notice("joined"))
      BY <1>1, <2>6 DEF LearnPeer, uiVars, Typed, TypeOK
    <3>2. QED
      BY <1>1, <1>2, <2>2, <2>4, <3>1, ViewedHub
  <2>7. CASE ForgetPeer(p)
    <3>1. PICK k \in 0..Len(c) :
             commands' = [commands EXCEPT ![p] = SubSeq(@, 1, k) \o <<NoMessage>> \o SubSeq(@, k + 1, Len(@))]
      BY <2>a, <2>7 DEF ForgetPeer
    <3>2. commands'[p] = SubSeq(c, 1, k) \o <<NoMessage>> \o SubSeq(c, k + 1, Len(c))
      BY <1>1, <2>a, <3>1 DEF Typed, TypeOK
    <3>3. NoMessage \in Items(SubSeq(c, 1, k) \o <<NoMessage>> \o SubSeq(c, k + 1, Len(c)))
      <4>1. PICK d : d = SubSeq(c, 1, k) \o <<NoMessage>> \o SubSeq(c, k + 1, Len(c))
        OBVIOUS
      <4>2. NoMessage \in Message \cup {NoMessage}
        OBVIOUS
      <4>3. Splice(d, c, k, NoMessage)
        BY <4>1 DEF Splice
      <4>4. Items(d) = Items(c) \cup {NoMessage}
        BY <4>2, <4>3, Inserted
      <4>5. QED
        BY <4>1, <4>4
    <3>4. QED
      BY <3>2, <3>3 DEF ViewedAt
  <2>8. CASE Leave(p)
    <3>1. link'[p] = NoLink
      BY <1>1, <2>8 DEF Leave, Typed, TypeOK
    <3>2. QED
      BY <2>3, <3>1 DEF ViewedAt
  <2>9. CASE TakeSend(p)
    <3>1. /\ c # <<>> /\ Head(c) # NoMessage /\ commands'[p] = Tail(c)
          /\ view' = view /\ link' = link /\ inbox' = inbox
      BY <1>1, <2>a, <2>9 DEF TakeSend, TakesCommand, uiVars, Typed, TypeOK
    <3>2. Items(c) = {Head(c)} \cup Items(Tail(c))
      BY <3>1, Tailed
    <3>3. NoMessage \in Items(commands[p]) => NoMessage \in Items(commands'[p])
      BY <2>a, <3>1, <3>2
    <3>4. QED
      BY <1>1, <1>2, <2>2, <3>1, <3>3, ViewedHub
  <2>10. CASE DialFails(p) \/ DialSucceeds(p)
    <3>1. link'[p].state = "new"
      BY <1>1, <2>3, <2>10 DEF DialFails, DialSucceeds, Typed, TypeOK
    <3>2. QED
      BY <3>1 DEF ViewedAt
  <2>11. CASE SendOnLink(p)
    <3>1. /\ view' = view /\ commands' = commands /\ sending[p] \in Message /\ link[p] \in Link
          /\ inbox' = [inbox EXCEPT ![p] = inbox'[p]] /\ link' = [link EXCEPT ![p] = link'[p]]
          /\ \/ link' = link /\ inbox'[p] = Append(inbox[p], Notice("error"))
             \/ /\ link'[p] = AfterSend(link[p]) /\ AfterSend(link[p]) # NoLink
                /\ inbox'[p] = Append(inbox[p], Chat(sending[p], StatusOf(AfterSend(link[p]))))
             \/ link'[p] = NoLink
      BY <1>1, <2>2, <2>11, Known DEF SendOnLink, Fail, uiVars, Typed, TypeOK
    <3>2. AfterSend(link[p]) # NoLink => AfterSend(link[p]) \in Link
      BY <3>1, SendFacts
    <3>3. QED
      BY <1>1, <1>2, <2>2, <2>3, <2>4, <3>1, <3>2, ViewedHub
  <2>12. CASE PeerLeft(p)
    <3>1. link'[p] = NoLink
      BY <1>1, <2>12 DEF PeerLeft, CloseLink, Typed, TypeOK
    <3>2. QED
      BY <2>3, <3>1 DEF ViewedAt
  <2>13. CASE HubConnected(p)
    <3>1. /\ view' = view /\ commands' = commands /\ inbox' = inbox
          /\ link'[p] = link[p] \/ link'[p].state = "new"
      BY <1>1, <2>13 DEF HubConnected, uiVars, Typed, TypeOK
    <3>2. QED
      BY <1>1, <1>2, <2>2, <3>1, ViewedHub
  <2>14. CASE HubMessage(p)
    <3>1. /\ view' = view /\ commands' = commands /\ events[p] # <<>> /\ Head(events[p]).type = "message"
          /\ \/ link' = link /\ inbox' = inbox
             \/ /\ link'[p] = AfterMessage(link[p]) /\ AfterMessage(link[p]) # NoLink
                /\ Head(events[p]).id = link[p].id
                /\ inbox'[p] = Append(inbox[p], Chat(Head(events[p]).msg, StatusOf(AfterMessage(link[p]))))
      BY <1>1, <2>14 DEF HubMessage, TakesEvent, uiVars, Typed, TypeOK
    <3>2. Head(events[p]) \in Event /\ Head(events[p]) \in NamedEvent
      BY <1>1, <3>1, GivenType
    <3>3. Head(events[p]).msg \in Message /\ Head(events[p]).id \in Links
      BY <3>1, <3>2 DEF NamedEvent, Event
    <3>4. Head(events[p]).id = link[p].id /\ AfterMessage(link[p]) # NoLink => AfterMessage(link[p]) \in Link
      BY <1>1, <3>3, EitherEnd, MessageFacts
    <3>5. QED
      BY <1>1, <1>2, <2>2, <3>1, <3>3, <3>4, ViewedHub
  <2>15. CASE HubDisconnected(p)
    <3>1. /\ view' = view /\ commands' = commands
          /\ (link' = link /\ inbox' = inbox) \/ link'[p] = NoLink
      BY <1>1, <2>15 DEF HubDisconnected, CloseLink, uiVars, Typed, TypeOK
    <3>2. QED
      BY <1>1, <1>2, <2>2, <2>3, <3>1, ViewedHub
  <2>16. ASSUME NEW l \in Links, LinkTask(p, l) PROVE ViewedAt(p)'
    <3>1. UNCHANGED <<view, commands, link, inbox>>
      BY <2>16 DEF LinkTask, Accept, RefuseHello, LinkReceives, LinkEnds, uiVars
    <3>2. QED
      BY <2>2, <3>1 DEF ViewedAt
  <2>17. QED
    BY <1>4, <2>5, <2>6, <2>7, <2>8, <2>9, <2>10, <2>11, <2>12, <2>13, <2>14, <2>15, <2>16 DEF Acts, Hub
<1>5. QED
  BY <1>1, <1>3, <1>4 DEF Next, Acts

-----------------------------------------------------------------------------
(* The states agree *)

LEMMA ViewedFollows == Typed /\ Viewed => ViewFollowsHub
<1>1. SUFFICES ASSUME Typed, Viewed, NEW p \in Peer, Settled(p), link[p].state # "new"
               PROVE  view[p].online /\ view[p].status = StatusOf(link[p])
  BY DEF ViewFollowsHub
<1>2. Items(commands[p]) = {} /\ Len(inbox[p]) = 0
  BY <1>1 DEF Settled, Items
<1>3. Promises(view[p], inbox[p], StatusOf(link[p]))
  BY <1>1, <1>2 DEF Viewed, ViewedAt
<1>4. view[p] = [status |-> StatusOf(link[p]), online |-> TRUE]
  BY <1>2, <1>3 DEF Promises
<1>5. QED
  BY <1>4

LEMMA AgreementCorrect == Spec => []Agreement
<1>1. Init => Agreement
  <2>1. Init => Viewed
    <3>1. NoLink.state = "new"
      BY Values
    <3>2. QED
      BY <3>1 DEF Init, Viewed, ViewedAt
  <2>2. QED
    BY <2>1, TypeInit, NetInit DEF Agreement
<1>2. Agreement /\ [Next]_vars => Agreement'
  BY TypeStep, NetStep, ViewedStep DEF Agreement
<1>3. QED
  BY <1>1, <1>2, PTL DEF Spec

\* Two hubs that hold the same link agree on it, and each terminal shows its hub's
\* state once nothing is under way (direct.rs: run_direct_hub; tui.rs: the PrivateView).
THEOREM StatesAgreeCorrect == Spec => []StatesAgree
<1>1. Agreement => StatesAgree
  BY NetAgrees, ViewedFollows DEF Agreement, StatesAgree, Typed
<1>2. QED
  BY <1>1, AgreementCorrect, PTL

\* What the hub drops as out of turn was never sent by a hub like it on that link
\* (direct.rs: the states in which a message that comes in is ignored).
THEOREM HonestNeverDroppedCorrect == Spec => []HonestNeverDropped
<1>1. Agreement => HonestNeverDropped
  BY NetAnswers DEF Agreement
<1>2. QED
  BY <1>1, AgreementCorrect, PTL

-----------------------------------------------------------------------------
(* Nothing is lost *)

LEMMA SettledArrived == Typed /\ Net /\ Delivery => NothingLost
<1>1. SUFFICES ASSUME Typed, Net, Delivery,
                      \A p \in Peer : Settled(p) /\ \A l \in Links : Over(l, p),
                      NEW p \in Peer \ gone, NEW m \in Items(sent[p]), m \notin told
               PROVE  m \in Items(shown[Other(p)])
  BY DEF NothingLost
<1>2. PICK q \in Peer : q = Other(p) /\ q # p /\ Other(q) = p /\ p \in Peer
  BY Pair
<1>3. m \in Message /\ m # NoMessage
  <2>1. sent[p] \in Seq(Message)
    BY <1>1, <1>2, Known
  <2>2. QED
    BY <2>1, Seqs, Values
<1>4. \A r \in Peer : /\ Items(commands[r]) = {} /\ Items(events[r]) = {} /\ Items(inbox[r]) = {}
                      /\ sending[r] = NoMessage
  BY <1>1 DEF Settled, Items
<1>5. m \in carried[p] /\ link[p] # NoLink
  <2>1. /\ Items(sent[p]) \subseteq Items(commands[p]) \cup {sending[p]} \cup told \cup carried[p]
        /\ link[p] = NoLink => carried[p] = {}
    BY <1>1, <1>2 DEF Delivery, Accounted
  <2>2. m \in carried[p]
    BY <1>1, <1>2, <1>3, <1>4, <2>1
  <2>3. QED
    BY <2>1, <2>2
<1>6. PICK l \in Links : l = link[p].id
  BY <1>1, <1>2, <1>5, Known, Values
<1>7. /\ io[l][p] \in {"up", "down"}
      /\ io[l][q] \in {"hello", "up", "down"}
  BY <1>1, <1>2, <1>6, Known, Numbers DEF Net, Opened, OpenedAt
<1>8. io[l][p] = "up"
  BY <1>1, <1>2, <1>4, <1>6, <1>7 DEF Delivery, EndsTold, Held
<1>9. Over(l, p) /\ Over(l, q)
  BY <1>1, <1>2, <1>6
<1>10. Items(wire[l][p]) = {} /\ io[l][q] # "down"
  <2>1. wire[l][p] = <<>>
    BY <1>8, <1>9 DEF Over
  <2>2. Items(wire[l][p]) = {}
    BY <2>1 DEF Items
  <2>3. QED
    BY <1>1, <1>2, <1>8, <2>2 DEF Delivery, EndsTold
<1>11. io[l][q] = "up" /\ wire[l][q] = <<>> /\ Held(q, l)
  BY <1>7, <1>9, <1>10 DEF Over
<1>12. Reaches(q, l, m)
  BY <1>1, <1>2, <1>5, <1>6, <1>8, <1>11 DEF Delivery, Arrives, ArrivesAt, Expects
<1>13. Items(wire[l][q]) = {}
  BY <1>11 DEF Items
<1>14. QED
  BY <1>2, <1>4, <1>12, <1>13 DEF Reaches

\* What happens to the commands, to the message being dealt with and to what the hub
\* has told: nothing is passed over.
LEMMA AccountedStep == Typed /\ Accounted /\ [Next]_vars => Accounted'
<1>1. SUFFICES ASSUME Typed, Accounted, [Next]_vars, NEW r \in Peer
               PROVE  /\ link'[r] = NoLink => carried'[r] = {}
                      /\ r \notin gone' =>
                            Items(sent'[r]) \subseteq Items(commands'[r]) \cup {sending'[r]} \cup told' \cup carried'[r]
  BY DEF Accounted
<1>2. Typed'
  BY <1>1, TypeStep
<1>3. /\ link[r] = NoLink => carried[r] = {}
      /\ r \notin gone =>
            Items(sent[r]) \subseteq Items(commands[r]) \cup {sending[r]} \cup told \cup carried[r]
  BY <1>1 DEF Accounted
<1>4. NoMessage \notin Items(sent[r])
  <2>1. sent[r] \in Seq(Message)
    BY <1>1, Known
  <2>2. QED
    BY <2>1, Seqs, Values
<1>5. CASE UNCHANGED vars
  BY <1>3, <1>5 DEF vars, uiVars, netVars
<1>6. CASE \E p \in Peer : Acts(p)
  <2>1. PICK p \in Peer : Acts(p)
    BY <1>6
  <2>2. CASE r # p
    <3>1. /\ link'[r] = link[r] /\ commands'[r] = commands[r] /\ sending'[r] = sending[r]
          /\ sent'[r] = sent[r] /\ carried'[r] = carried[r]
      BY <1>1, <2>1, <2>2, Apart
    <3>2. told \subseteq told' /\ gone \subseteq gone'
      BY <2>1 DEF Acts, OpenView, ReadInbox, UserSends, LearnPeer, ForgetPeer, Leave, Hub, LinkTask,
         TakeSend, DialFails, DialSucceeds, SendOnLink, PeerLeft, HubConnected, HubMessage,
         HubDisconnected, Accept, RefuseHello, LinkReceives, LinkEnds, CloseLink, Fail
    <3>3. QED
      BY <1>3, <3>1, <3>2
  <2>3. CASE r = p
    <3>1. /\ commands[p] \in Seq(Message \cup {NoMessage}) /\ commands \in [Peer -> Seq(Message \cup {NoMessage})]
          /\ sending \in [Peer -> Message \cup {NoMessage}] /\ link \in [Peer -> Link \cup {NoLink}]
          /\ carried \in [Peer -> SUBSET Message] /\ sent \in [Peer -> Seq(Message)]
          /\ link'[p] \in Link \cup {NoLink}
      BY <1>1, <1>2, Known DEF Typed, TypeOK
    <3>2. CASE \/ OpenView(p) \/ ReadInbox(p) \/ LearnPeer(p) \/ HubConnected(p) \/ HubMessage(p)
               \/ HubDisconnected(p) \/ \E l \in Links : LinkTask(p, l)
      <4>1. sent' = sent /\ commands' = commands /\ sending' = sending /\ gone' = gone
        BY <3>2 DEF OpenView, ReadInbox, LearnPeer, HubConnected, HubMessage, HubDisconnected, LinkTask,
           Accept, RefuseHello, LinkReceives, LinkEnds, uiVars
      <4>2. \/ carried' = carried /\ told' = told /\ (link'[p] = NoLink => link[p] = NoLink)
            \/ carried'[p] = {} /\ told' = told \cup carried[p]
        <5>1. CASE HubConnected(p)
          BY <3>1, <5>1 DEF HubConnected
        <5>2. CASE HubMessage(p)
          BY <3>1, <5>2 DEF HubMessage
        <5>3. CASE HubDisconnected(p)
          BY <3>1, <5>3 DEF HubDisconnected, CloseLink
        <5>4. CASE OpenView(p) \/ ReadInbox(p) \/ LearnPeer(p) \/ \E l \in Links : LinkTask(p, l)
          BY <5>4 DEF OpenView, ReadInbox, LearnPeer, LinkTask, Accept, RefuseHello, LinkReceives, LinkEnds
        <5>5. QED
          BY <3>2, <5>1, <5>2, <5>3, <5>4
      <4>3. QED
        BY <1>3, <2>3, <4>1, <4>2
    <3>3. ASSUME NEW m \in Message, UserSends(p, m)
          PROVE  /\ link'[p] = NoLink => carried'[p] = {}
                 /\ Items(sent'[p]) \subseteq Items(commands'[p]) \cup {sending'[p]} \cup told' \cup carried'[p]
                 /\ p \notin gone
      <4>1. /\ sent'[p] = Append(sent[p], m) /\ commands'[p] = Append(commands[p], m)
            /\ sending' = sending /\ told' = told /\ carried' = carried /\ link' = link /\ p \notin gone
        BY <3>1, <3>3 DEF UserSends
      <4>2. /\ sent[p] \in Seq(Message) /\ m \in Message \cup {NoMessage}
        BY <3>1
      <4>3. Items(sent'[p]) = Items(sent[p]) \cup {m}
        BY <4>1, <4>2, Appended
      <4>4. Items(commands'[p]) = Items(commands[p]) \cup {m}
        <5>1. PICK S, c : S = Message \cup {NoMessage} /\ c = commands[p]
          OBVIOUS
        <5>2. c \in Seq(S) /\ m \in S
          BY <3>1, <5>1
        <5>3. Items(Append(c, m)) = Items(c) \cup {m}
          BY <5>2, Appended
        <5>4. QED
          BY <4>1, <5>1, <5>3
      <4>5. QED
        BY <1>3, <2>3, <4>1, <4>3, <4>4
    <3>4. CASE ForgetPeer(p)
      <4>1. PICK k \in 0..Len(commands[p]) :
               commands' = [commands EXCEPT ![p] =
                  SubSeq(@, 1, k) \o <<NoMessage>> \o SubSeq(@, k + 1, Len(@))]
        BY <3>4 DEF ForgetPeer
      <4>2. Splice(commands'[p], commands[p], k, NoMessage)
        BY <3>1, <4>1 DEF Splice
      <4>3. NoMessage \in Message \cup {NoMessage}
        OBVIOUS
      <4>4. Items(commands[p]) \subseteq Items(commands'[p])
        <5>1. PICK S, c, d : S = Message \cup {NoMessage} /\ c = commands[p] /\ d = commands'[p]
          OBVIOUS
        <5>2. c \in Seq(S) /\ NoMessage \in S /\ k \in 0..Len(c) /\ Splice(d, c, k, NoMessage)
          BY <3>1, <4>2, <4>3, <5>1
        <5>3. Items(d) = Items(c) \cup {NoMessage}
          BY <5>2, Inserted
        <5>4. QED
          BY <5>1, <5>3
      <4>5. sent' = sent /\ sending' = sending /\ gone' = gone /\ carried' = carried /\ told' = told /\ link' = link
        BY <3>4 DEF ForgetPeer, uiVars
      <4>6. QED
        BY <1>3, <2>3, <4>4, <4>5
    <3>5. CASE Leave(p)
      BY <2>3, <3>1, <3>5 DEF Leave
    <3>6. CASE TakeSend(p)
      <4>1. /\ commands[p] # <<>> /\ commands'[p] = Tail(commands[p]) /\ sending'[p] = Head(commands[p])
            /\ sending[p] = NoMessage /\ gone' = gone
            /\ sent' = sent /\ carried' = carried /\ told' = told /\ link' = link
        BY <3>1, <3>6 DEF TakeSend, TakesCommand, HubFree, uiVars
      <4>2. Items(commands[p]) = {Head(commands[p])} \cup Items(commands'[p])
        BY <3>1, <4>1, Tailed
      <4>3. QED
        BY <1>3, <1>4, <2>3, <4>1, <4>2
    <3>7. CASE DialFails(p)
      BY <1>3, <2>3, <3>1, <3>7 DEF DialFails, Fail, uiVars
    <3>8. CASE DialSucceeds(p)
      <4>1. /\ sent' = sent /\ sending' = sending /\ commands' = commands /\ gone' = gone
            /\ carried' = carried /\ told' = told /\ link[p] = NoLink
        BY <3>8 DEF DialSucceeds, uiVars
      <4>2. QED
        BY <1>3, <2>3, <4>1
    <3>9. CASE SendOnLink(p)
      <4>1. /\ sent' = sent /\ commands' = commands /\ gone' = gone /\ sending'[p] = NoMessage
            /\ link[p] # NoLink
            /\ \/ told' = told \cup {sending[p]} /\ carried' = carried /\ link' = link
               \/ told' = told /\ carried'[p] = carried[p] \cup {sending[p]} /\ link'[p] # NoLink
               \/ told' = told \cup {sending[p]} \cup carried[p] /\ carried'[p] = {}
        BY <3>1, <3>9 DEF SendOnLink, Fail, uiVars
      <4>2. QED
        BY <1>3, <1>4, <2>3, <4>1
    <3>10. CASE PeerLeft(p)
      <4>1. /\ commands[p] # <<>> /\ commands'[p] = Tail(commands[p]) /\ Head(commands[p]) = NoMessage
            /\ gone' = gone /\ sent' = sent /\ sending' = sending
            /\ \/ carried' = carried /\ told' = told /\ link' = link
               \/ carried'[p] = {} /\ told' = told \cup carried[p]
        BY <3>1, <3>10 DEF PeerLeft, CloseLink, TakesCommand, uiVars
      <4>2. Items(commands[p]) = {NoMessage} \cup Items(commands'[p])
        BY <3>1, <4>1, Tailed
      <4>3. QED
        BY <1>3, <1>4, <2>3, <4>1, <4>2
    <3>11. QED
      BY <2>1, <2>3, <3>2, <3>3, <3>4, <3>5, <3>6, <3>7, <3>8, <3>9, <3>10 DEF Acts, Hub
  <2>4. QED
    BY <2>2, <2>3
<1>7. QED
  BY <1>1, <1>5, <1>6 DEF Next, Acts

\* An end that is down has told so, unless the step makes it so.
LEMMA EndsToldBy ==
    ASSUME EndsTold,
           \A r \in Peer, l \in Links :
              /\ io'[l][r] = "down" /\ Held(r, l)' =>
                    \/ LinkEvent("disconnected", l, NoMessage) \in Items(events'[r])
                    \/ /\ io[l][r] = "down" /\ Held(r, l)
                       /\ LinkEvent("disconnected", l, NoMessage) \notin Items(events[r])
              /\ io'[l][r] \in {"hello", "up"} /\ io'[l][Other(r)] = "down" =>
                    \/ NoMessage \in Items(wire'[l][r])
                    \/ /\ io[l][r] \in {"hello", "up"} /\ io[l][Other(r)] = "down"
                       /\ NoMessage \notin Items(wire[l][r])
    PROVE  EndsTold'
  BY DEF EndsTold

\* A hub that takes its first event does not pass over the end of its link.
LEMMA TakesEnd ==
    ASSUME Typed, ConnectedFirst, NEW p \in Peer, Take(p) \/ Get(p), NEW l \in Links, Held(p, l)'
    PROVE  /\ Held(p, l)
           /\ LinkEvent("disconnected", l, NoMessage) \in Items(events[p]) =>
                 LinkEvent("disconnected", l, NoMessage) \in Items(events'[p])
<1>1. PICK s \in Seq(Event) : s = events[p] /\ s # <<>>
  BY Known DEF Take, Get
<1>2. /\ events'[p] = Tail(s)
      /\ \/ link'[p] = link[p] /\ ~(Head(s).type = "disconnected" /\ Head(s).id = link[p].id)
         \/ link'[p] = NoLink
         \/ Head(s).type = "connected" /\ link'[p].id = Head(s).id
         \/ Head(s).type = "message" /\ link'[p].id = link[p].id
  <2>1. CASE Take(p)
    BY <1>1, <2>1 DEF Take, Typed, TypeOK
  <2>2. CASE Get(p)
    <3>1. /\ events'[p] = Tail(s) /\ Head(s).type = "message" /\ Head(s).id = link[p].id
          /\ link'[p] = AfterMessage(link[p]) /\ AfterMessage(link[p]) # NoLink /\ Head(s) \in Event
      BY <1>1, <2>2 DEF Get, Answerable, Typed, TypeOK
    <3>2. link[p] \in Link
      <4>1. link[p].id \in Links
        BY <3>1 DEF Event
      <4>2. QED
        BY <4>1, Known, Values, Numbers
    <3>3. QED
      BY <3>1, <3>2, MessageFacts
  <2>3. QED
    BY <2>1, <2>2
<1>3. /\ Head(s) = s[1] /\ 1 \in 1..Len(s) /\ Head(s) \in Event
      /\ \A i \in 1..Len(s) : i # 1 => i - 1 \in 1..Len(Tail(s)) /\ s[i] = Tail(s)[i - 1]
      /\ \A i \in 1..Len(Tail(s)) : i + 1 \in 1..Len(s) /\ Tail(s)[i] = s[i + 1]
      /\ Items(s) = {Head(s)} \cup Items(Tail(s))
  BY <1>1, Tailed
<1>4. First(s, link[p].id)
  BY <1>1 DEF ConnectedFirst
<1>5. NoLink.id # l
  BY Numbers
<1>6. Head(s).type = "connected" => Head(s) = LinkEvent("connected", Head(s).id, NoMessage)
  BY <1>3, <1>4 DEF First
<1>7. Held(p, l)
  <2>1. CASE link'[p].id = l
    BY <1>1, <1>2, <1>3, <1>5, <1>6, <2>1 DEF Held
  <2>2. CASE LinkEvent("connected", l, NoMessage) \in Items(events'[p])
    BY <1>1, <1>2, <1>3, <2>2 DEF Held
  <2>3. QED
    BY <2>1, <2>2 DEF Held
<1>8. Head(s).id = l /\ Head(s).type = "disconnected" => FALSE
  <2>1. SUFFICES ASSUME Head(s).id = l, Head(s).type = "disconnected" PROVE FALSE
    OBVIOUS
  <2>2. ~(\E i \in 1..Len(s) : s[i].type = "connected" /\ s[i].id = l)
    BY <1>3, <1>4, <2>1 DEF First
  <2>3. LinkEvent("connected", l, NoMessage) \notin Items(s)
    <3>1. LinkEvent("connected", l, NoMessage).type = "connected" /\ LinkEvent("connected", l, NoMessage).id = l
      BY Values
    <3>2. QED
      BY <2>2, <3>1 DEF Items
  <2>4. link'[p].id # l
    BY <1>2, <1>5, <2>1
  <2>5. QED
    BY <1>2, <1>3, <2>3, <2>4 DEF Held
<1>9. LinkEvent("disconnected", l, NoMessage).type = "disconnected" /\ LinkEvent("disconnected", l, NoMessage).id = l
  BY Values
<1>10. LinkEvent("disconnected", l, NoMessage) \in Items(s) => LinkEvent("disconnected", l, NoMessage) \in Items(Tail(s))
  BY <1>3, <1>8, <1>9
<1>11. QED
  BY <1>1, <1>2, <1>7, <1>10

LEMMA EndsToldHub ==
    ASSUME Typed, Typed', Opened, ConnectedFirst, EndsTold, NEW p \in Peer,
           Still \/ Drop(p) \/ DialSucceeds(p) \/ Put(p) \/ Get(p) \/ Take(p)
    PROVE  EndsTold'
<1>1. PICK q \in Peer : q = Other(p) /\ q # p /\ \A r \in Peer : r = p \/ r = q
  BY Pair
<1>2. NoLink.id = 0 /\ \A l \in Links : NoLink.id # l
  BY Numbers
<1>3. CASE Still
  BY <1>3, EndsToldBy DEF Still, Held
<1>4. CASE Drop(p)
  <2>1. UNCHANGED <<events, io, wire>> /\ \A r \in Peer : link'[r] = link[r] \/ link'[r] = NoLink
    BY <1>4 DEF Drop, Typed, TypeOK
  <2>2. \A r \in Peer, l \in Links : Held(r, l)' => Held(r, l)
    BY <1>2, <2>1 DEF Held
  <2>3. QED
    BY <2>1, <2>2, EndsToldBy
<1>5. CASE DialSucceeds(p)
  <2>1. PICK n \in Links : n = links + 1 /\ links \in Nat
    BY <1>5, Numbers, ConstantsAssumption DEF DialSucceeds, Links
  <2>2. /\ UNCHANGED <<events, wire>> /\ \A r \in Peer : r # p => link'[r] = link[r]
        /\ link'[p].id = n
        /\ \A l \in Links, r \in Peer : l # n => io'[l][r] = io[l][r]
        /\ \A r \in Peer : io'[n][r] \in {"up", "hello"}
    BY <1>5, <2>1 DEF DialSucceeds, netVars, Typed, TypeOK
  <2>3. \A r \in Peer, l \in Links : io'[l][r] = "down" => l # n /\ io[l][r] = "down"
    BY <2>2
  <2>4. \A r \in Peer, l \in Links : l # n /\ Held(r, l)' => Held(r, l)
    BY <1>1, <2>2 DEF Held
  <2>5. ASSUME NEW r \in Peer, NEW l \in Links
        PROVE  /\ io'[l][r] = "down" /\ Held(r, l)' => io[l][r] = "down" /\ Held(r, l)
               /\ io'[l][r] \in {"hello", "up"} /\ io'[l][Other(r)] = "down" =>
                     io[l][r] \in {"hello", "up"} /\ io[l][Other(r)] = "down"
    <3>1. Other(r) \in Peer
      BY Pair
    <3>2. QED
      BY <2>2, <2>3, <2>4, <3>1
  <2>6. QED
    BY <2>2, <2>5, EndsToldBy
<1>6. CASE Put(p)
  <2>1. /\ UNCHANGED <<events, io>> /\ link[p] \in Link /\ link'[p] = AfterSend(link[p]) /\ AfterSend(link[p]) # NoLink
        /\ \A r \in Peer : r # p => link'[r] = link[r]
        /\ wire' = [wire EXCEPT ![link[p].id][q] = Append(@, sending[p])] /\ sending[p] \in Message
    BY <1>1, <1>6 DEF Put, Typed, TypeOK
  <2>2. link'[p].id = link[p].id
    BY <2>1, SendFacts
  <2>3. \A r \in Peer, l \in Links : Held(r, l)' => Held(r, l)
    BY <1>1, <2>1, <2>2 DEF Held
  <2>4. ASSUME NEW r \in Peer, NEW l \in Links, NoMessage \in Items(wire[l][r])
        PROVE  NoMessage \in Items(wire'[l][r])
    <3>1. CASE l = link[p].id /\ r = q
      <4>1. wire'[l][q] = Append(wire[l][q], sending[p])
        BY <2>1, <3>1 DEF Typed, TypeOK
      <4>2. PICK S, w : S = Message \cup {NoMessage} /\ w = wire[l][q]
        OBVIOUS
      <4>3. w \in Seq(S) /\ sending[p] \in S
        BY <2>1, <4>2, Known
      <4>4. Items(Append(w, sending[p])) = Items(w) \cup {sending[p]}
        BY <4>3, Appended
      <4>5. QED
        BY <2>4, <3>1, <4>1, <4>2, <4>4
    <3>2. CASE ~(l = link[p].id /\ r = q)
      <4>1. wire'[l][r] = wire[l][r]
        BY <2>1, <3>2 DEF Typed, TypeOK
      <4>2. QED
        BY <2>4, <4>1
    <3>3. QED
      BY <3>1, <3>2
  <2>5. QED
    BY <2>1, <2>3, <2>4, EndsToldBy
<1>7. CASE Get(p) \/ Take(p)
  <2>1. /\ UNCHANGED <<io, wire>> /\ \A r \in Peer : r # p => link'[r] = link[r] /\ events'[r] = events[r]
    BY <1>7 DEF Get, Take, Typed, TypeOK
  <2>2. \A l \in Links : Held(p, l)' =>
           /\ Held(p, l)
           /\ LinkEvent("disconnected", l, NoMessage) \in Items(events[p]) =>
                 LinkEvent("disconnected", l, NoMessage) \in Items(events'[p])
    BY <1>7, TakesEnd
  <2>3. \A l \in Links : Held(q, l)' => Held(q, l) /\ events'[q] = events[q]
    BY <1>1, <2>1 DEF Held
  <2>4. QED
    BY <1>1, <2>1, <2>2, <2>3, EndsToldBy
<1>8. QED
  BY <1>3, <1>4, <1>5, <1>6, <1>7

LEMMA EndsToldTask ==
    ASSUME Typed, Typed', Opened, ConnectedFirst, EndsTold, NEW p \in Peer, NEW l \in Links, LinkTask(p, l)
    PROVE  EndsTold'
<1>1. PICK q \in Peer : q = Other(p) /\ q # p /\ p = Other(q) /\ \A r \in Peer : r = p \/ r = q
  BY Pair
<1>2. PICK s \in Seq(Event) : s = events[p]
  BY Known
<1>3. \A e \in Event : Items(Append(s, e)) = Items(s) \cup {e}
  BY Appended
<1>4. CASE Accept(p, l)
  <2>1. PICK e \in Event : e = LinkEvent("connected", l, NoMessage) /\ e.type = "connected" /\ e.id = l
    BY Values
  <2>2. /\ UNCHANGED <<link, wire>> /\ events'[p] = Append(s, e)
        /\ io[l][p] = "hello" /\ io'[l][p] = "up"
        /\ \A r \in Peer, k \in Links : ~(r = p /\ k = l) => io'[k][r] = io[k][r]
        /\ \A r \in Peer : r # p => events'[r] = events[r]
    BY <1>2, <1>4, <2>1 DEF Accept, AddEvent, Typed, TypeOK
  <2>3. Items(events'[p]) = Items(events[p]) \cup {e}
    BY <1>2, <1>3, <2>2
  <2>4. \A k \in Links : k # l /\ Held(p, k)' => Held(p, k)
    <3>1. \A k \in Links : LinkEvent("connected", k, NoMessage).id = k
      BY Values
    <3>2. QED
      BY <2>1, <2>2, <2>3, <3>1 DEF Held
  <2>5. \A k \in Links : Held(q, k)' => Held(q, k)
    BY <1>1, <2>2 DEF Held
  <2>6. \A k \in Links : io'[k][p] = "down" => k # l /\ io[k][p] = "down"
    BY <2>2
  <2>7. \A k \in Links : io'[k][q] = io[k][q] /\ (io'[k][p] \in {"hello", "up"} => io[k][p] \in {"hello", "up"})
    BY <1>1, <2>2
  <2>8. /\ \A k \in Links : io'[k][p] = "down" /\ Held(p, k)' => io[k][p] = "down" /\ Held(p, k)
        /\ \A k \in Links : io'[k][q] = "down" /\ Held(q, k)' => io[k][q] = "down" /\ Held(q, k)
    BY <2>4, <2>5, <2>6, <2>7
  <2>9. events'[q] = events[q] /\ Items(events[p]) \subseteq Items(events'[p])
    BY <1>1, <2>2, <2>3
  <2>10. ASSUME NEW r \in Peer, NEW k \in Links
         PROVE  /\ io'[k][r] = "down" /\ Held(r, k)' => io[k][r] = "down" /\ Held(r, k)
                /\ io'[k][r] \in {"hello", "up"} /\ io'[k][Other(r)] = "down" =>
                      io[k][r] \in {"hello", "up"} /\ io[k][Other(r)] = "down"
                /\ Items(events[r]) \subseteq Items(events'[r])
    <3>1. Other(q) = p /\ (r = p \/ r = q)
      BY <1>1
    <3>2. QED
      BY <1>1, <2>6, <2>7, <2>8, <2>9, <3>1
  <2>11. QED
    BY <2>2, <2>10, EndsToldBy
<1>5. CASE LinkReceives(p, l)
  <2>1. PICK w : w = wire[l][p]
    OBVIOUS
  <2>2. PICK S : S = Message \cup {NoMessage}
    OBVIOUS
  <2>3. w \in Seq(S) /\ w # <<>> /\ Head(w) # NoMessage /\ Head(w) \in S
    BY <1>5, <2>1, <2>2, Known DEF LinkReceives
  <2>4. PICK e \in Event : e = LinkEvent("message", l, Head(w)) /\ e.type = "message"
    BY <2>2, <2>3, Values
  <2>5. /\ UNCHANGED <<link, io>> /\ events'[p] = Append(s, e) /\ wire'[l][p] = Tail(w)
        /\ \A r \in Peer, k \in Links : ~(r = p /\ k = l) => wire'[k][r] = wire[k][r]
        /\ \A r \in Peer : r # p => events'[r] = events[r]
    BY <1>2, <1>5, <2>1, <2>4 DEF LinkReceives, AddEvent, Typed, TypeOK
  <2>6. Items(events'[p]) = Items(events[p]) \cup {e}
    BY <1>2, <1>3, <2>5
  <2>7. Items(w) = {Head(w)} \cup Items(Tail(w))
    BY <2>3, Tailed
  <2>8. \A r \in Peer, k \in Links : Held(r, k)' => Held(r, k)
    <3>1. \A k \in Links : LinkEvent("connected", k, NoMessage).type = "connected"
      BY Values
    <3>2. QED
      BY <1>1, <2>4, <2>5, <2>6, <3>1 DEF Held
  <2>9. \A r \in Peer : Items(events[r]) \subseteq Items(events'[r])
    BY <1>1, <2>5, <2>6
  <2>10. \A r \in Peer, k \in Links : NoMessage \in Items(wire[k][r]) => NoMessage \in Items(wire'[k][r])
    BY <2>1, <2>3, <2>5, <2>7
  <2>11. QED
    BY <2>5, <2>8, <2>9, <2>10, EndsToldBy
<1>6. CASE RefuseHello(p, l) \/ LinkEnds(p, l)
  <2>1. PICK e \in Event : e = LinkEvent("disconnected", l, NoMessage) /\ e.type = "disconnected" /\ e.id = l
    BY Values
  <2>2. /\ UNCHANGED link /\ Cut(l, p)
        /\ \/ events' = events /\ io[l][p] = "hello"
           \/ events'[p] = Append(s, e)
        /\ \A r \in Peer : r # p => events'[r] = events[r]
    BY <1>2, <1>6, <2>1 DEF RefuseHello, LinkEnds, AddEvent, Typed, TypeOK
  <2>3. /\ \A k \in Links, r \in Peer : ~(k = l /\ r = p) => io'[k][r] = io[k][r]
        /\ io'[l][p] = "down"
        /\ \A k \in Links : k # l => wire'[k] = wire[k]
        /\ \E k \in 0..Len(wire[l][q]) : wire'[l][q] = Append(SubSeq(wire[l][q], 1, k), NoMessage)
    BY <1>1, <2>2, CutType
  <2>4. NoMessage \in Items(wire'[l][q])
    <3>1. PICK S, w : S = Message \cup {NoMessage} /\ w = wire[l][q]
      OBVIOUS
    <3>2. w \in Seq(S) /\ NoMessage \in S
      BY <3>1, Known
    <3>3. PICK k \in 0..Len(w) : wire'[l][q] = Append(SubSeq(w, 1, k), NoMessage)
      BY <2>3, <3>1
    <3>4. NoMessage \in Items(Append(SubSeq(w, 1, k), NoMessage))
      BY <3>2, CutShort
    <3>5. QED
      BY <3>3, <3>4
  <2>5. Items(events'[p]) = Items(events[p]) \/ Items(events'[p]) = Items(events[p]) \cup {e}
    BY <1>2, <1>3, <2>2
  <2>6. \A r \in Peer, k \in Links : Held(r, k)' => Held(r, k)
    <3>1. \A k \in Links : LinkEvent("connected", k, NoMessage).type = "connected"
      BY Values
    <3>2. QED
      BY <1>1, <2>1, <2>2, <2>5, <3>1 DEF Held
  <2>7. Held(p, l)' => e \in Items(events'[p])
    <3>1. io[l][p] = "hello" => ~Held(p, l)
      <4>1. LinkEvent("connected", l, NoMessage).id = l
        BY Values
      <4>2. QED
        BY <4>1 DEF Opened, OpenedAt, Held
    <3>2. QED
      BY <1>2, <1>3, <2>2, <2>6, <3>1
  <2>8. \A r \in Peer : Items(events[r]) \subseteq Items(events'[r])
    BY <1>1, <2>2, <2>5
  <2>9. ASSUME NEW r \in Peer, NEW k \in Links
        PROVE  /\ io'[k][r] = "down" /\ Held(r, k)' =>
                    \/ LinkEvent("disconnected", k, NoMessage) \in Items(events'[r])
                    \/ /\ io[k][r] = "down" /\ Held(r, k)
                       /\ LinkEvent("disconnected", k, NoMessage) \notin Items(events[r])
               /\ io'[k][r] \in {"hello", "up"} /\ io'[k][Other(r)] = "down" =>
                    \/ NoMessage \in Items(wire'[k][r])
                    \/ /\ io[k][r] \in {"hello", "up"} /\ io[k][Other(r)] = "down"
                       /\ NoMessage \notin Items(wire[k][r])
    <3>1. CASE k = l /\ r = p
      BY <2>1, <2>3, <2>7, <3>1
    <3>2. CASE k = l /\ r = q
      BY <1>1, <2>3, <2>4, <2>6, <2>8, <3>2
    <3>3. CASE k # l
      <4>1. io'[k][p] = io[k][p] /\ io'[k][q] = io[k][q] /\ wire'[k] = wire[k]
        BY <1>1, <2>3, <3>3
      <4>2. QED
        BY <1>1, <2>6, <2>8, <4>1
    <3>4. QED
      BY <1>1, <3>1, <3>2, <3>3
  <2>10. QED
    BY <2>9, EndsToldBy
<1>7. QED
  BY <1>4, <1>5, <1>6 DEF LinkTask

LEMMA EndsToldLeave ==
    ASSUME Typed, EndsTold, NEW p \in Peer, Leave(p)
    PROVE  EndsTold'
<1>1. PICK q \in Peer : q = Other(p) /\ q # p /\ p = Other(q) /\ \A r \in Peer : r = p \/ r = q
  BY Pair
<1>2. /\ link'[p] = NoLink /\ link'[q] = link[q] /\ events'[p] = <<>> /\ events'[q] = events[q]
  BY <1>1 DEF Leave, Typed, TypeOK
<1>3. \A l \in Links :
         /\ io'[l][q] = io[l][q]
         /\ io'[l][p] \in {"none", "down"}
         /\ io[l][p] \in {"hello", "up"} => wire'[l][q] = Append(wire[l][q], NoMessage)
         /\ io[l][p] \notin {"hello", "up"} => io'[l][p] = io[l][p] /\ wire'[l] = wire[l]
  <2>1. TAKE l \in Links
  <2>2. io[l][p] \in {"none", "hello", "up", "down"}
    BY Known
  <2>3. QED
    BY <1>1, <2>2, LeaveType
<1>4. \A l \in Links : ~Held(p, l)'
  <2>1. Items(<<>>) = {}
    BY DEF Items
  <2>2. QED
    BY <1>2, <2>1, Numbers DEF Held
<1>5. \A l \in Links : Held(q, l)' <=> Held(q, l)
  BY <1>2 DEF Held
<1>6. \A l \in Links : io[l][p] \in {"hello", "up"} => NoMessage \in Items(wire'[l][q])
  <2>1. SUFFICES ASSUME NEW l \in Links, io[l][p] \in {"hello", "up"}
                 PROVE  NoMessage \in Items(wire'[l][q])
    OBVIOUS
  <2>2. PICK S, w : S = Message \cup {NoMessage} /\ w = wire[l][q]
    OBVIOUS
  <2>3. w \in Seq(S) /\ NoMessage \in S
    BY <2>2, Known
  <2>4. NoMessage \in Items(Append(w, NoMessage))
    BY <2>3, Appended
  <2>5. QED
    BY <1>3, <2>1, <2>2, <2>4
<1>7. ASSUME NEW r \in Peer, NEW l \in Links
      PROVE  /\ io'[l][r] = "down" /\ Held(r, l)' =>
                    \/ LinkEvent("disconnected", l, NoMessage) \in Items(events'[r])
                    \/ /\ io[l][r] = "down" /\ Held(r, l)
                       /\ LinkEvent("disconnected", l, NoMessage) \notin Items(events[r])
             /\ io'[l][r] \in {"hello", "up"} /\ io'[l][Other(r)] = "down" =>
                    \/ NoMessage \in Items(wire'[l][r])
                    \/ /\ io[l][r] \in {"hello", "up"} /\ io[l][Other(r)] = "down"
                       /\ NoMessage \notin Items(wire[l][r])
  <2>1. CASE r = p
    BY <1>3, <1>4, <2>1
  <2>2. CASE r = q
    <3>1. io'[l][q] = "down" /\ Held(q, l)' => io[l][q] = "down" /\ Held(q, l)
      BY <1>3, <1>5
    <3>2. CASE io[l][p] \in {"hello", "up"}
      BY <1>1, <1>2, <1>6, <2>2, <3>1, <3>2
    <3>3. CASE io[l][p] \notin {"hello", "up"}
      <4>1. io'[l][p] = io[l][p] /\ wire'[l][q] = wire[l][q] /\ io'[l][q] = io[l][q]
        BY <1>3, <3>3
      <4>2. QED
        BY <1>1, <1>2, <2>2, <3>1, <4>1
    <3>4. QED
      BY <3>2, <3>3
  <2>3. QED
    BY <1>1, <2>1, <2>2
<1>8. QED
  BY <1>7, EndsToldBy

LEMMA EndsToldStep == Typed /\ Net /\ EndsTold /\ [Next]_vars => EndsTold'
<1>1. SUFFICES ASSUME Typed, Net, EndsTold, [Next]_vars PROVE EndsTold'
  OBVIOUS
<1>2. Typed' /\ Opened /\ ConnectedFirst
  BY <1>1, TypeStep DEF Net
<1>3. CASE Still
  <2>1. PICK p \in Peer : TRUE
    <3>1. Cardinality(Peer) = 2 /\ Cardinality({}) = 0
      BY ConstantsAssumption, FS_EmptySet
    <3>2. QED
      BY <3>1
  <2>2. QED
    BY <1>1, <1>2, <1>3, <2>1, EndsToldHub
<1>4. ASSUME NEW p \in Peer,
             \/ Drop(p) \/ DialSucceeds(p) \/ Put(p) \/ Get(p) \/ Take(p) \/ Leave(p)
             \/ \E l \in Links : LinkTask(p, l)
      PROVE  EndsTold'
  BY <1>1, <1>2, <1>4, EndsToldHub, EndsToldTask, EndsToldLeave
<1>5. QED
  BY <1>1, <1>3, <1>4, Kinds

-----------------------------------------------------------------------------
(* What a link carried arrives *)

\* What is said of one kind of place is said of all.
LEMMA ReachesBy ==
    ASSUME NEW q \in Peer, NEW l, NEW m, Reaches(q, l, m),
           m \in Items(wire[l][q]) => m \in Items(wire'[l][q]) \/ LinkEvent("message", l, m) \in Items(events'[q]),
           LinkEvent("message", l, m) \in Items(events[q]) =>
               \/ LinkEvent("message", l, m) \in Items(events'[q])
               \/ \E x \in Items(inbox'[q]) : x.type = "chat" /\ x.msg = m,
           \A x \in Items(inbox[q]) :
               x.type = "chat" /\ x.msg = m => x \in Items(inbox'[q]) \/ m \in Items(shown'[q]),
           Items(shown[q]) \subseteq Items(shown'[q])
    PROVE  Reaches(q, l, m)'
  BY DEF Reaches

\* p's own steps: what its link carried stays, and what it puts there is on the wire.
LEMMA ArrivesFrom ==
    ASSUME Typed, Typed', Opened, Accounted, NEW p \in Peer, Acts(p), NEW l \in Links, ArrivesAt(p, l)
    PROVE  ArrivesAt(p, l)'
<1>1. PICK q \in Peer : q = Other(p) /\ q # p /\ p = Other(q)
  BY Pair
<1>2. SUFFICES ASSUME link'[p].id = l, io'[l][p] = "up", Expects(q, l)', NEW m \in carried'[p]
               PROVE  Reaches(q, l, m)'
  BY <1>1 DEF ArrivesAt
<1>3. /\ link'[q] = link[q] /\ events'[q] = events[q] /\ inbox'[q] = inbox[q] /\ shown'[q] = shown[q]
  BY <1>1, Apart
<1>4. /\ link[p] \in Link \cup {NoLink} /\ link'[p] \in Link \cup {NoLink} /\ link'[p] # NoLink
      /\ link[p] = NoLink => carried[p] = {}
      /\ io[l][p] = "hello" => link[p].id # l
      /\ link[p].id # l \/ l <= links
  <2>1. link[p] \in Link \cup {NoLink} /\ link'[p] \in Link \cup {NoLink}
    BY DEF Typed, TypeOK
  <2>2. link'[p] # NoLink
    BY <1>2, Numbers
  <2>3. link[p] = NoLink => carried[p] = {}
    BY DEF Accounted
  <2>4. io[l][p] = "hello" => link[p].id # l
    BY DEF Opened, OpenedAt
  <2>5. link[p].id # l \/ l <= links
    BY DEF Opened, OpenedAt
  <2>6. QED
    BY <2>1, <2>2, <2>3, <2>4, <2>5
<1>5. /\ link \in [Peer -> Link \cup {NoLink}] /\ carried \in [Peer -> SUBSET Message]
      /\ io \in [Links -> [Peer -> {"none", "hello", "up", "down"}]]
      /\ wire \in [Links -> [Peer -> Seq(Message \cup {NoMessage})]]
  BY DEF Typed, TypeOK
<1>a. /\ link[p].id = l /\ io[l][p] = "up" /\ io'[l][q] = io[l][q]
      /\ \/ m \in carried[p] /\ Items(wire[l][q]) \subseteq Items(wire'[l][q])
         \/ m \in Items(wire'[l][q])
  <2>1. CASE OpenView(p) \/ ReadInbox(p) \/ (\E x \in Message : UserSends(p, x)) \/ LearnPeer(p) \/ ForgetPeer(p)
             \/ TakeSend(p) \/ DialFails(p)
    <3>1. UNCHANGED <<link, carried, io, wire>>
      BY <2>1 DEF OpenView, ReadInbox, UserSends, LearnPeer, ForgetPeer, TakeSend, DialFails, netVars
    <3>2. QED
      BY <1>2, <3>1
  <2>2. CASE Leave(p)
    BY <1>2, <1>5, <2>2 DEF Leave
  <2>3. CASE DialSucceeds(p)
    BY <1>2, <1>4, <2>3 DEF DialSucceeds
  <2>4. CASE PeerLeft(p) \/ HubDisconnected(p)
    <3>1. carried'[p] = {} \/ UNCHANGED <<link, carried, io, wire>>
      BY <1>5, <2>4 DEF PeerLeft, HubDisconnected, CloseLink, netVars
    <3>2. QED
      BY <1>2, <3>1
  <2>5. CASE HubConnected(p)
    <3>1. /\ UNCHANGED <<carried, io, wire>> /\ (link[p] # NoLink => link' = link)
      BY <2>5 DEF HubConnected, netVars
    <3>2. QED
      BY <1>2, <1>4, <3>1
  <2>6. CASE HubMessage(p)
    <3>1. /\ UNCHANGED <<carried, io, wire>>
          /\ \/ link' = link
             \/ link'[p] = AfterMessage(link[p]) /\ AfterMessage(link[p]) # NoLink
      BY <1>5, <2>6 DEF HubMessage, netVars
    <3>2. link[p] # NoLink
      BY <1>2, <1>4, <3>1
    <3>3. link'[p].id = link[p].id
      BY <1>4, <3>1, <3>2, MessageFacts
    <3>4. QED
      BY <1>2, <3>1, <3>3
  <2>7. CASE SendOnLink(p)
    <3>1. /\ io' = io /\ link[p] \in Link
          /\ \/ UNCHANGED <<link, wire, carried>>
             \/ /\ link'[p] = AfterSend(link[p]) /\ AfterSend(link[p]) # NoLink
                /\ wire' = [wire EXCEPT ![link[p].id][q] = Append(@, sending[p])]
                /\ carried'[p] = carried[p] \cup {sending[p]} /\ sending[p] \in Message
             \/ carried'[p] = {}
      BY <1>1, <1>4, <1>5, <2>7, Known DEF SendOnLink
    <3>2. CASE /\ link'[p] = AfterSend(link[p]) /\ AfterSend(link[p]) # NoLink
               /\ wire' = [wire EXCEPT ![link[p].id][q] = Append(@, sending[p])]
               /\ carried'[p] = carried[p] \cup {sending[p]} /\ sending[p] \in Message
      <4>1. link[p].id = l
        BY <1>2, <3>1, <3>2, SendFacts
      <4>2. wire'[l][q] = Append(wire[l][q], sending[p])
        BY <1>5, <3>2, <4>1
      <4>3. Items(wire'[l][q]) = Items(wire[l][q]) \cup {sending[p]}
        <5>1. PICK S, w : S = Message \cup {NoMessage} /\ w = wire[l][q]
          OBVIOUS
        <5>2. w \in Seq(S) /\ sending[p] \in S
          BY <3>2, <5>1, Known
        <5>3. Items(Append(w, sending[p])) = Items(w) \cup {sending[p]}
          BY <5>2, Appended
        <5>4. QED
          BY <4>2, <5>1, <5>3
      <4>4. QED
        BY <1>2, <3>1, <3>2, <4>1, <4>3
    <3>3. QED
      BY <1>2, <3>1, <3>2
  <2>8. ASSUME NEW k \in Links, LinkTask(p, k)
        PROVE  UNCHANGED <<link, carried>> /\ io[l][p] = "up" /\ io'[l][q] = io[l][q]
               /\ Items(wire[l][q]) \subseteq Items(wire'[l][q])
    <3>1. CASE Accept(p, k)
      <4>1. /\ UNCHANGED <<link, carried, wire>> /\ io[k][p] = "hello" /\ io' = [io EXCEPT ![k][p] = "up"]
        BY <3>1 DEF Accept
      <4>2. k # l
        BY <1>2, <1>4, <4>1
      <4>3. QED
        BY <1>2, <1>5, <4>1, <4>2
    <3>2. CASE RefuseHello(p, k) \/ LinkEnds(p, k)
      <4>1. UNCHANGED <<link, carried>> /\ Cut(k, p)
        BY <3>2 DEF RefuseHello, LinkEnds
      <4>2. k # l
        BY <1>2, <4>1, CutType
      <4>3. io'[l][p] = io[l][p] /\ io'[l][q] = io[l][q] /\ wire'[l] = wire[l]
        BY <4>1, <4>2, CutType
      <4>4. QED
        BY <1>2, <4>1, <4>3
    <3>3. CASE LinkReceives(p, k)
      <4>1. /\ UNCHANGED <<link, carried, io>> /\ wire' = [wire EXCEPT ![k][p] = Tail(@)]
        BY <3>3 DEF LinkReceives
      <4>2. wire'[l][q] = wire[l][q]
        BY <1>1, <1>5, <4>1
      <4>3. QED
        BY <1>2, <4>1, <4>2
    <3>4. QED
      BY <2>8, <3>1, <3>2, <3>3 DEF LinkTask
  <2>9. QED
    BY <1>2, <2>1, <2>2, <2>3, <2>4, <2>5, <2>6, <2>7, <2>8 DEF Acts, Hub
<1>6. Expects(q, l)
  BY <1>2, <1>3, <1>a DEF Expects, Held
<1>7. CASE m \in carried[p] /\ Items(wire[l][q]) \subseteq Items(wire'[l][q])
  <2>1. Reaches(q, l, m)
    BY <1>1, <1>6, <1>7, <1>a DEF ArrivesAt
  <2>2. QED
    BY <1>3, <1>7, <2>1, ReachesBy
<1>8. CASE m \in Items(wire'[l][q])
  BY <1>8 DEF Reaches
<1>9. QED
  BY <1>7, <1>8, <1>a

\* The other's steps: what is on its way to it moves on.
LEMMA ArrivesTo ==
    ASSUME Typed, Typed', Net, NEW q \in Peer, Acts(q), NEW l \in Links, ArrivesAt(Other(q), l)
    PROVE  ArrivesAt(Other(q), l)'
<1>1. PICK p \in Peer : p = Other(q) /\ q # p /\ q = Other(p)
  BY Pair
<1>2. SUFFICES ASSUME link'[p].id = l, io'[l][p] = "up", Expects(q, l)', NEW m \in carried'[p]
               PROVE  Reaches(q, l, m)'
  BY <1>1 DEF ArrivesAt
<1>3. link'[p] = link[p] /\ carried'[p] = carried[p]
  BY <1>1, Apart
<1>4. /\ link \in [Peer -> Link \cup {NoLink}] /\ link[q] \in Link \cup {NoLink}
      /\ io \in [Links -> [Peer -> {"none", "hello", "up", "down"}]]
      /\ wire \in [Links -> [Peer -> Seq(Message \cup {NoMessage})]]
      /\ inbox \in [Peer -> Seq(Item)] /\ shown \in [Peer -> Seq(Message)] /\ events \in [Peer -> Seq(Event)]
      /\ NoLink.id # l
  BY Numbers DEF Typed, TypeOK
<1>5. m \in Message
  BY <1>2, <1>3, Known
<1>6. /\ io[l][q] = "hello" => link[q].id # l /\ \A e \in Items(events[q]) : e.id # l
      /\ l <= links
  BY <1>1, <1>2, <1>3 DEF Net, Opened, OpenedAt
<1>7. LinkEvent("message", l, m).type = "message" /\ LinkEvent("message", l, m).id = l /\ LinkEvent("message", l, m).msg = m
  BY <1>5, Values
<1>8. \A x \in Item : Items(Append(inbox[q], x)) = Items(inbox[q]) \cup {x}
  BY <1>4, Appended
<1>9. \A e \in Event : Items(Append(events[q], e)) = Items(events[q]) \cup {e}
  BY <1>4, Appended
<1>10. events[q] # <<>> => Items(events[q]) = {Head(events[q])} \cup Items(Tail(events[q]))
  BY <1>4, Tailed
<1>a. {Notice("joined"), Notice("left"), Notice("closed"), Notice("error")} \subseteq Item
  BY Values
<1>11. Expects(q, l) /\ io[l][p] = "up" => Reaches(q, l, m)
  BY <1>1, <1>2, <1>3 DEF ArrivesAt
\* the terminal and the gateway
<1>12. CASE \/ OpenView(q) \/ (\E x \in Message : UserSends(q, x)) \/ LearnPeer(q) \/ ForgetPeer(q)
            \/ TakeSend(q) \/ DialFails(q)
  <2>1. /\ UNCHANGED <<link, events, io, wire, shown>>
        /\ inbox'[q] = inbox[q] \/ \E x \in Item : inbox'[q] = Append(inbox[q], x)
    <3>1. CASE OpenView(q) \/ (\E x \in Message : UserSends(q, x)) \/ TakeSend(q)
      BY <3>1 DEF OpenView, UserSends, TakeSend, netVars, uiVars
    <3>2. CASE LearnPeer(q)
      BY <1>4, <1>a, <3>2 DEF LearnPeer, netVars, uiVars
    <3>3. CASE ForgetPeer(q)
      BY <1>4, <1>a, <3>3 DEF ForgetPeer, netVars, uiVars
    <3>4. CASE DialFails(q)
      BY <1>4, <1>a, <3>4 DEF DialFails, Fail, netVars, uiVars
    <3>5. QED
      BY <1>12, <3>1, <3>2, <3>3, <3>4
  <2>2. Items(inbox[q]) \subseteq Items(inbox'[q])
    BY <1>8, <2>1
  <2>3. Expects(q, l)
    BY <1>2, <2>1 DEF Expects, Held
  <2>4. Reaches(q, l, m)
    BY <1>2, <1>11, <2>1, <2>3
  <2>5. QED
    BY <2>1, <2>2, <2>4, ReachesBy
<1>13. CASE ReadInbox(q)
  <2>1. /\ UNCHANGED <<link, events, io, wire>> /\ inbox[q] # <<>> /\ inbox'[q] = Tail(inbox[q])
        /\ shown'[q] = IF Head(inbox[q]).type = "chat" THEN Append(shown[q], Head(inbox[q]).msg) ELSE shown[q]
    BY <1>4, <1>13 DEF ReadInbox, netVars
  <2>2. Items(inbox[q]) = {Head(inbox[q])} \cup Items(inbox'[q]) /\ Head(inbox[q]) \in Items(inbox[q])
    BY <1>4, <2>1, Tailed
  <2>3. Head(inbox[q]).type = "chat" => Items(shown'[q]) = Items(shown[q]) \cup {Head(inbox[q]).msg}
    <3>1. inbox[q] \in Seq(NamedItem)
      BY Known
    <3>2. Head(inbox[q]) \in NamedItem
      BY <2>1, <3>1, Tailed
    <3>3. Head(inbox[q]).type = "chat" => Head(inbox[q]).msg \in Message
      BY <3>2 DEF NamedItem
    <3>4. QED
      BY <1>4, <2>1, <3>3, Appended
  <2>4. Expects(q, l)
    BY <1>2, <2>1 DEF Expects, Held
  <2>5. Reaches(q, l, m)
    BY <1>2, <1>11, <2>1, <2>4
  <2>6. QED
    BY <2>1, <2>2, <2>3, <2>5, ReachesBy
<1>14. CASE Leave(q)
  <2>1. io'[l][q] \in {"none", "down"}
    <3>1. io[l][q] \in {"none", "hello", "up", "down"}
      BY <1>4
    <3>2. QED
      BY <1>14, <3>1, LeaveType
  <2>2. QED
    BY <1>2, <2>1 DEF Expects
\* the hub
<1>15. CASE DialSucceeds(q)
  <2>1. /\ UNCHANGED <<events, wire, inbox, shown>> /\ io' = [io EXCEPT ![links + 1] = [r \in Peer |-> IF r = q THEN "up" ELSE "hello"]]
        /\ link'[q].id = links + 1
    BY <1>4, <1>15 DEF DialSucceeds, uiVars
  <2>2. l # links + 1
    BY <1>6, Numbers
  <2>3. io'[l] = io[l]
    BY <1>4, <2>1, <2>2
  <2>4. Expects(q, l)
    BY <1>2, <2>1, <2>2, <2>3 DEF Expects, Held
  <2>5. Reaches(q, l, m)
    BY <1>2, <1>11, <2>3, <2>4
  <2>6. QED
    BY <2>1, <2>5, ReachesBy
<1>16. CASE SendOnLink(q) \/ PeerLeft(q)
  <2>1. UNCHANGED <<events, io, shown>>
    BY <1>16 DEF SendOnLink, PeerLeft, netVars, uiVars
  <2>2. wire'[l][q] = wire[l][q]
    <3>1. CASE PeerLeft(q)
      BY <3>1 DEF PeerLeft, netVars
    <3>2. CASE SendOnLink(q)
      <4>1. PICK k, x : wire' = wire \/ wire' = [wire EXCEPT ![k][p] = x]
        BY <1>1, <3>2 DEF SendOnLink
      <4>2. wire'[l] = wire[l] \/ wire'[l] = [wire[l] EXCEPT ![p] = x]
        BY <1>4, <4>1
      <4>3. wire[l] \in [Peer -> Seq(Message \cup {NoMessage})]
        BY <1>4
      <4>4. QED
        BY <1>1, <4>2, <4>3
    <3>3. QED
      BY <1>16, <3>1, <3>2
  <2>3. inbox'[q] = inbox[q] \/ \E x \in Item : inbox'[q] = Append(inbox[q], x)
    <3>1. CASE PeerLeft(q)
      BY <1>4, <1>a, <3>1 DEF PeerLeft, CloseLink
    <3>2. CASE SendOnLink(q)
      <4>1. Chat(sending[q], StatusOf(AfterSend(link[q]))) \in Item \/ AfterSend(link[q]) = NoLink
        <5>1. link[q] \in Link /\ sending[q] \in Message \cup {NoMessage}
          BY <1>4, <3>2, Known DEF SendOnLink
        <5>2. AfterSend(link[q]) # NoLink => StatusOf(AfterSend(link[q])) \in Status
          BY <5>1, SendFacts, Values
        <5>3. QED
          BY <5>1, <5>2, Values
      <4>2. QED
        BY <1>4, <1>a, <3>2, <4>1 DEF SendOnLink, Fail
    <3>3. QED
      BY <1>16, <3>1, <3>2
  <2>4. link'[q].id = link[q].id \/ link'[q] = NoLink
    <3>1. CASE PeerLeft(q)
      BY <1>4, <3>1 DEF PeerLeft, CloseLink
    <3>2. CASE SendOnLink(q)
      <4>1. link[q] \in Link
        BY <1>4, <3>2 DEF SendOnLink
      <4>2. link'[q] = link[q] \/ link'[q] = NoLink \/ (AfterSend(link[q]) # NoLink /\ link'[q] = AfterSend(link[q]))
        BY <1>4, <3>2 DEF SendOnLink
      <4>3. QED
        BY <4>1, <4>2, SendFacts
    <3>3. QED
      BY <1>16, <3>1, <3>2
  <2>5. Items(inbox[q]) \subseteq Items(inbox'[q])
    BY <1>8, <2>3
  <2>6. Expects(q, l)
    BY <1>2, <1>4, <2>1, <2>4 DEF Expects, Held
  <2>7. Reaches(q, l, m)
    BY <1>2, <1>11, <2>1, <2>6
  <2>8. QED
    BY <2>1, <2>2, <2>5, <2>7, ReachesBy
<1>17. CASE HubConnected(q) \/ HubMessage(q) \/ HubDisconnected(q)
  <2>1. /\ UNCHANGED <<io, wire, shown>> /\ events[q] # <<>> /\ events'[q] = Tail(events[q]) /\ Head(events[q]) \in Event
    BY <1>4, <1>17, Tailed DEF HubConnected, HubMessage, HubDisconnected, TakesEvent, netVars, uiVars
  <2>2. Held(q, l)' => Held(q, l)
    <3>1. Take(q) \/ Get(q)
      BY <1>17 DEF HubConnected, HubMessage, HubDisconnected, TakesEvent, HubFree, CloseLink, Take, Get, Answerable, netVars
    <3>2. QED
      BY <3>1, TakesEnd DEF Net
  <2>3. Expects(q, l)
    BY <1>2, <2>1, <2>2 DEF Expects
  <2>4. Reaches(q, l, m)
    BY <1>2, <1>11, <2>1, <2>3
  <2>5. CASE Head(events[q]) # LinkEvent("message", l, m)
    <3>1. LinkEvent("message", l, m) \in Items(events[q]) => LinkEvent("message", l, m) \in Items(events'[q])
      BY <1>10, <2>1, <2>5
    <3>2. Items(inbox[q]) \subseteq Items(inbox'[q])
      <4>1. CASE HubConnected(q)
        BY <4>1 DEF HubConnected
      <4>2. CASE HubDisconnected(q)
        <5>1. Notice("closed") \in Item
          BY Values
        <5>2. inbox'[q] = inbox[q] \/ inbox'[q] = Append(inbox[q], Notice("closed"))
          BY <1>4, <4>2 DEF HubDisconnected, CloseLink
        <5>3. QED
          BY <1>8, <5>1, <5>2
      <4>3. CASE HubMessage(q)
        <5>1. CASE inbox' = inbox
          BY <5>1
        <5>2. CASE inbox' # inbox
          <6>1. /\ inbox'[q] = Append(inbox[q], Chat(Head(events[q]).msg, StatusOf(AfterMessage(link[q]))))
                /\ AfterMessage(link[q]) # NoLink /\ Head(events[q]).id = link[q].id
            BY <1>4, <4>3, <5>2 DEF HubMessage
          <6>2. link[q] \in Link
            BY <1>4, <2>1, <6>1, Numbers DEF Event
          <6>3. StatusOf(AfterMessage(link[q])) \in Status /\ Head(events[q]).msg \in Message \cup {NoMessage}
            BY <2>1, <6>1, <6>2, MessageFacts, Values DEF Event
          <6>4. Chat(Head(events[q]).msg, StatusOf(AfterMessage(link[q]))) \in Item
            BY <6>3, Values
          <6>5. QED
            BY <1>8, <6>1, <6>4
        <5>3. QED
          BY <5>1, <5>2
      <4>4. QED
        BY <1>17, <4>1, <4>2, <4>3
    <3>3. QED
      BY <2>1, <2>4, <3>1, <3>2, ReachesBy
  <2>6. CASE Head(events[q]) = LinkEvent("message", l, m)
    <3>1. HubMessage(q)
      BY <1>7, <1>17, <2>6 DEF HubConnected, HubDisconnected, TakesEvent
    <3>2. io[l][q] # "hello"
      <4>1. Head(events[q]) \in Items(events[q])
        BY <1>4, <2>1, Tailed
      <4>2. QED
        BY <1>6, <1>7, <2>6, <4>1
    <3>3. Held(q, l)
      BY <2>3, <3>2 DEF Expects
    <3>4. LinkEvent("connected", l, NoMessage) \notin Items(events[q])
      <4>1. First(events[q], link[q].id)
        BY DEF Net, ConnectedFirst
      <4>2. PICK s \in Seq(Event) : s = events[q] /\ s # <<>>
        BY <1>4, <2>1
      <4>3. s[1] = Head(s) /\ 1 \in 1..Len(s) /\ Len(s) \in Nat
        BY <4>2, Tailed
      <4>4. \A i \in 1..Len(s) : s[i].type = "connected" => s[i].id # l
        BY <1>7, <2>6, <4>1, <4>2, <4>3 DEF First
      <4>5. LinkEvent("connected", l, NoMessage).type = "connected" /\ LinkEvent("connected", l, NoMessage).id = l
        BY Values
      <4>6. QED
        BY <4>2, <4>4, <4>5 DEF Items
    <3>5. link[q].id = l
      BY <3>3, <3>4 DEF Held
    <3>6. AfterMessage(link[q]) # NoLink
      BY <1>7, <2>1, <2>6, <3>5, NetAnswers DEF HonestNeverDropped
    <3>7. inbox'[q] = Append(inbox[q], Chat(m, StatusOf(AfterMessage(link[q]))))
      BY <1>4, <1>7, <2>6, <3>1, <3>5, <3>6 DEF HubMessage
    <3>8. StatusOf(AfterMessage(link[q])) \in Status
      <4>1. link[q] \in Link
        BY <1>4, <3>5
      <4>2. QED
        BY <3>6, <4>1, MessageFacts, Values
    <3>9. PICK x \in Item : x = Chat(m, StatusOf(AfterMessage(link[q]))) /\ x.type = "chat" /\ x.msg = m
      BY <1>5, <3>8, Values
    <3>10. x \in Items(inbox'[q])
      BY <1>8, <3>7, <3>9
    <3>11. QED
      BY <3>9, <3>10 DEF Reaches
  <2>7. QED
    BY <2>5, <2>6
\* the tasks of its ends
<1>18. ASSUME NEW k \in Links, LinkTask(q, k)
       PROVE  Reaches(q, l, m)'
  <2>1. UNCHANGED <<link, inbox, shown>>
    BY <1>18 DEF LinkTask, Accept, RefuseHello, LinkReceives, LinkEnds, uiVars
  <2>2. CASE Accept(q, k)
    <3>1. PICK e \in Event : e = LinkEvent("connected", k, NoMessage) /\ e.type = "connected" /\ e.id = k
      BY Values
    <3>2. /\ wire' = wire /\ events'[q] = Append(events[q], e) /\ io[k][q] = "hello" /\ io' = [io EXCEPT ![k][q] = "up"]
      BY <1>4, <2>2, <3>1 DEF Accept, AddEvent
    <3>3. Items(events'[q]) = Items(events[q]) \cup {e}
      BY <1>9, <3>2
    <3>4. io[l][p] = "up"
      BY <1>1, <1>2, <1>4, <3>2
    <3>5. Expects(q, l)
      <4>1. CASE k = l
        BY <3>2, <4>1 DEF Expects
      <4>2. CASE k # l
        <5>1. io'[l][q] = io[l][q]
          BY <1>4, <3>2, <4>2
        <5>2. LinkEvent("connected", l, NoMessage).id = l
          BY Values
        <5>3. QED
          BY <1>2, <2>1, <3>1, <3>3, <4>2, <5>1, <5>2 DEF Expects, Held
      <4>3. QED
        BY <4>1, <4>2
    <3>6. QED
      BY <1>11, <2>1, <3>2, <3>3, <3>4, <3>5, ReachesBy
  <2>3. CASE RefuseHello(q, k) \/ LinkEnds(q, k)
    <3>1. PICK e \in Event : e = LinkEvent("disconnected", k, NoMessage) /\ e.type = "disconnected"
      BY Values
    <3>2. Cut(k, q) /\ (events' = events \/ events'[q] = Append(events[q], e))
      BY <1>4, <2>3, <3>1 DEF RefuseHello, LinkEnds, AddEvent
    <3>3. k # l
      BY <1>2, <3>2, CutType DEF Expects
    <3>4. io'[l][p] = io[l][p] /\ io'[l][q] = io[l][q] /\ wire'[l] = wire[l]
      BY <3>2, <3>3, CutType
    <3>5. Items(events'[q]) = Items(events[q]) \/ Items(events'[q]) = Items(events[q]) \cup {e}
      BY <1>9, <3>2
    <3>6. Held(q, l)' => Held(q, l)
      <4>1. LinkEvent("connected", l, NoMessage).type = "connected"
        BY Values
      <4>2. QED
        BY <2>1, <3>1, <3>5, <4>1 DEF Held
    <3>7. Reaches(q, l, m)
      BY <1>2, <1>11, <3>4, <3>6 DEF Expects
    <3>8. QED
      BY <2>1, <3>4, <3>5, <3>7, ReachesBy
  <2>4. CASE LinkReceives(q, k)
    <3>1. PICK S, w : S = Message \cup {NoMessage} /\ w = wire[k][q]
      OBVIOUS
    <3>2. w \in Seq(S) /\ w # <<>> /\ Head(w) \in S /\ Head(w) # NoMessage /\ Items(w) = {Head(w)} \cup Items(Tail(w))
      BY <2>4, <3>1, Known, Tailed DEF LinkReceives
    <3>3. PICK e \in Event : e = LinkEvent("message", k, Head(w)) /\ e.type = "message"
      BY <3>1, <3>2, Values
    <3>4. /\ io' = io /\ events'[q] = Append(events[q], e) /\ wire' = [wire EXCEPT ![k][q] = Tail(w)]
      BY <1>4, <2>4, <3>1, <3>3 DEF LinkReceives, AddEvent
    <3>5. Items(events'[q]) = Items(events[q]) \cup {e}
      BY <1>9, <3>4
    <3>6. Held(q, l)' => Held(q, l)
      <4>1. LinkEvent("connected", l, NoMessage).type = "connected"
        BY Values
      <4>2. QED
        BY <2>1, <3>3, <3>5, <4>1 DEF Held
    <3>7. Reaches(q, l, m)
      BY <1>2, <1>11, <3>4, <3>6 DEF Expects
    <3>8. m \in Items(wire[l][q]) => m \in Items(wire'[l][q]) \/ LinkEvent("message", l, m) \in Items(events'[q])
      <4>1. CASE k = l
        <5>1. wire'[l][q] = Tail(w)
          BY <1>4, <3>4, <4>1
        <5>2. QED
          BY <3>1, <3>2, <3>3, <3>5, <4>1, <5>1
      <4>2. CASE k # l
        <5>1. wire'[l][q] = wire[l][q]
          BY <1>4, <3>4, <4>2
        <5>2. QED
          BY <5>1
      <4>3. QED
        BY <4>1, <4>2
    <3>9. QED
      BY <2>1, <3>5, <3>7, <3>8, ReachesBy
  <2>5. QED
    BY <1>18, <2>2, <2>3, <2>4 DEF LinkTask
<1>19. QED
  BY <1>12, <1>13, <1>14, <1>15, <1>16, <1>17, <1>18 DEF Acts, Hub

LEMMA ArrivesStep == Typed /\ Net /\ Accounted /\ Arrives /\ [Next]_vars => Arrives'
<1>1. SUFFICES ASSUME Typed, Net, Accounted, Arrives, [Next]_vars, NEW r \in Peer, NEW l \in Links
               PROVE  ArrivesAt(r, l)'
  BY DEF Arrives
<1>2. Typed' /\ Opened /\ ArrivesAt(r, l)
  BY <1>1, TypeStep DEF Net, Arrives
<1>3. CASE UNCHANGED vars
  BY <1>2, <1>3 DEF vars, uiVars, netVars, ArrivesAt, Expects, Held, Reaches
<1>4. ASSUME NEW p \in Peer, Acts(p) PROVE ArrivesAt(r, l)'
  <2>1. r = p \/ r = Other(p)
    BY Pair
  <2>2. CASE r = p
    BY <1>1, <1>2, <1>4, <2>2, ArrivesFrom
  <2>3. CASE r = Other(p)
    <3>1. ArrivesAt(Other(p), l)
      BY <1>2, <2>3
    <3>2. ArrivesAt(Other(p), l)'
      BY <1>1, <1>2, <1>4, <3>1, ArrivesTo
    <3>3. QED
      BY <2>3, <3>2
  <2>4. QED
    BY <2>1, <2>2, <2>3
<1>5. QED
  BY <1>1, <1>3, <1>4 DEF Next, Acts

LEMMA DeliveryInit == Init => Delivery
<1>1. SUFFICES ASSUME Init PROVE Delivery
  OBVIOUS
<1>2. \A p \in Peer : /\ link[p] = NoLink /\ carried[p] = {} /\ events[p] = <<>> /\ sent[p] = <<>>
                      /\ \A l \in Links : io[l][p] = "none"
  BY <1>1 DEF Init
<1>3. Accounted
  BY <1>2 DEF Accounted, Items
<1>4. EndsTold
  BY <1>2 DEF EndsTold
<1>5. Arrives
  BY <1>2 DEF Arrives, ArrivesAt
<1>6. QED
  BY <1>3, <1>4, <1>5 DEF Delivery

\* Once no task has anything left to do, each message was shown to the other user or its
\* author was told, whatever failed (direct.rs: run_direct_hub, link_io).
THEOREM NothingLostCorrect == Spec => []NothingLost
<1>1. Init => Delivery
  BY DeliveryInit
<1>2. Agreement /\ Delivery /\ [Next]_vars => Delivery'
  BY AccountedStep, EndsToldStep, ArrivesStep DEF Agreement, Delivery
<1>3. Agreement /\ Delivery => NothingLost
  BY SettledArrived DEF Agreement
<1>4. QED
  BY <1>1, <1>2, <1>3, AgreementCorrect, PTL DEF Spec

-----------------------------------------------------------------------------
(* Orders in sequences *)

LEMMA HasOrder ==
    ASSUME NEW s, NEW X, NEW Y
    PROVE  /\ Order(s, X, Y) => Has(s, X) /\ Has(s, Y)
           /\ ~Has(<<>>, X) /\ ~Order(<<>>, X, Y)
  BY DEF Has, Order

LEMMA TailOrder ==
    ASSUME NEW S, NEW s \in Seq(S), s # <<>>, NEW X, NEW Y
    PROVE  /\ Has(s, X) <=> Head(s) \in X \/ Has(Tail(s), X)
           /\ Order(Tail(s), X, Y) => Order(s, X, Y)
           /\ Head(s) \in X /\ Has(Tail(s), Y) => Order(s, X, Y)
           /\ Order(s, X, Y) => Order(Tail(s), X, Y) \/ (Head(s) \in X /\ Has(Tail(s), Y))
<1>1. PICK n \in Nat \ {0} : n = Len(s) /\ n - 1 = Len(Tail(s))
  BY Tailed
<1>2. PICK t : t = Tail(s)
  OBVIOUS
<1>3. /\ Head(s) = s[1]
      /\ \A i \in 1..n - 1 : i + 1 \in 1..n /\ t[i] = s[i + 1]
      /\ \A i \in 1..n : i # 1 => i - 1 \in 1..n - 1 /\ s[i] = t[i - 1]
  BY <1>1, <1>2, Tailed
<1>4. Has(s, X) <=> Head(s) \in X \/ Has(t, X)
  <2>1. ASSUME Has(s, X) PROVE Head(s) \in X \/ Has(t, X)
    <3>1. PICK i \in 1..n : s[i] \in X
      BY <1>1, <2>1 DEF Has
    <3>2. QED
      BY <1>1, <1>2, <1>3, <3>1 DEF Has
  <2>2. ASSUME Head(s) \in X PROVE Has(s, X)
    <3>1. 1 \in 1..n
      BY <1>1
    <3>2. QED
      BY <1>1, <1>3, <2>2, <3>1 DEF Has
  <2>3. ASSUME Has(t, X) PROVE Has(s, X)
    BY <1>1, <1>2, <1>3, <2>3 DEF Has
  <2>4. QED
    BY <2>1, <2>2, <2>3
<1>5. Order(t, X, Y) => Order(s, X, Y)
  <2>1. SUFFICES ASSUME Order(t, X, Y) PROVE Order(s, X, Y)
    OBVIOUS
  <2>2. PICK i \in 1..n - 1, j \in 1..n - 1 : i < j /\ t[i] \in X /\ t[j] \in Y
    BY <1>1, <1>2, <2>1 DEF Order
  <2>3. i + 1 \in 1..n /\ j + 1 \in 1..n /\ i + 1 < j + 1 /\ s[i + 1] \in X /\ s[j + 1] \in Y
    BY <1>3, <2>2
  <2>4. QED
    BY <1>1, <2>3 DEF Order
<1>6. Head(s) \in X /\ Has(t, Y) => Order(s, X, Y)
  <2>1. SUFFICES ASSUME Head(s) \in X, Has(t, Y) PROVE Order(s, X, Y)
    OBVIOUS
  <2>2. PICK j \in 1..n - 1 : t[j] \in Y
    BY <1>1, <1>2, <2>1 DEF Has
  <2>3. 1 \in 1..n /\ j + 1 \in 1..n /\ 1 < j + 1 /\ s[1] \in X /\ s[j + 1] \in Y
    BY <1>1, <1>3, <2>1, <2>2
  <2>4. QED
    BY <1>1, <2>3 DEF Order
<1>7. Order(s, X, Y) => Order(t, X, Y) \/ (Head(s) \in X /\ Has(t, Y))
  <2>1. SUFFICES ASSUME Order(s, X, Y) PROVE Order(t, X, Y) \/ (Head(s) \in X /\ Has(t, Y))
    OBVIOUS
  <2>2. PICK i \in 1..n, j \in 1..n : i < j /\ s[i] \in X /\ s[j] \in Y
    BY <1>1, <2>1 DEF Order
  <2>3. j - 1 \in 1..n - 1 /\ t[j - 1] \in Y
    BY <1>3, <2>2
  <2>4. CASE i = 1
    BY <1>1, <1>2, <1>3, <2>2, <2>3, <2>4 DEF Has
  <2>5. CASE i # 1
    <3>1. i - 1 \in 1..n - 1 /\ t[i - 1] \in X /\ i - 1 < j - 1
      BY <1>3, <2>2, <2>5
    <3>2. QED
      BY <1>1, <1>2, <2>3, <3>1 DEF Order
  <2>6. QED
    BY <2>4, <2>5
<1>8. QED
  BY <1>2, <1>4, <1>5, <1>6, <1>7

LEMMA AppendOrder ==
    ASSUME NEW S, NEW s \in Seq(S), NEW x \in S, NEW X, NEW Y
    PROVE  /\ Has(Append(s, x), X) <=> Has(s, X) \/ x \in X
           /\ Order(Append(s, x), X, Y) <=> Order(s, X, Y) \/ (Has(s, X) /\ x \in Y)
<1>1. PICK n \in Nat : n = Len(s) /\ n + 1 = Len(Append(s, x))
  BY Appended
<1>2. PICK t : t = Append(s, x)
  OBVIOUS
<1>3. t[n + 1] = x /\ \A i \in 1..n : i \in 1..n + 1 /\ t[i] = s[i]
  BY <1>1, <1>2, Appended
<1>4. \A i \in 1..n + 1 : i \in 1..n \/ i = n + 1
  BY <1>1
<1>5. n + 1 \in 1..n + 1 /\ \A i \in 1..n : i < n + 1
  BY <1>1
<1>6. Has(t, X) <=> Has(s, X) \/ x \in X
  BY <1>1, <1>2, <1>3, <1>4, <1>5 DEF Has
<1>7. ASSUME Order(t, X, Y) PROVE Order(s, X, Y) \/ (Has(s, X) /\ x \in Y)
  <2>1. PICK i \in 1..n + 1, j \in 1..n + 1 : i < j /\ t[i] \in X /\ t[j] \in Y
    BY <1>1, <1>2, <1>7 DEF Order
  <2>2. i \in 1..n
    BY <1>1, <2>1
  <2>3. CASE j \in 1..n
    BY <1>1, <1>3, <2>1, <2>2, <2>3 DEF Order
  <2>4. CASE j = n + 1
    BY <1>1, <1>3, <2>1, <2>2, <2>4 DEF Has
  <2>5. QED
    BY <1>4, <2>3, <2>4
<1>8. ASSUME Order(s, X, Y) PROVE Order(t, X, Y)
  BY <1>1, <1>2, <1>3, <1>8 DEF Order
<1>9. ASSUME Has(s, X), x \in Y PROVE Order(t, X, Y)
  BY <1>1, <1>2, <1>3, <1>5, <1>9 DEF Order, Has
<1>10. QED
  BY <1>2, <1>6, <1>7, <1>8, <1>9

\* What is left of a wire that was cut
LEMMA CutOrder ==
    ASSUME NEW S, NEW s \in Seq(S), NEW x \in S, NEW k \in 0..Len(s), NEW X, NEW Y, x \notin X, x \notin Y
    PROVE  /\ Has(Append(SubSeq(s, 1, k), x), X) => Has(s, X)
           /\ Order(Append(SubSeq(s, 1, k), x), X, Y) => Order(s, X, Y)
<1>1. PICK t : t = Append(SubSeq(s, 1, k), x)
  OBVIOUS
<1>2. \A i \in 1..Len(t) : t[i] = x \/ (i \in 1..Len(s) /\ t[i] = s[i])
  BY <1>1, CutShort
<1>3. Has(t, X) => Has(s, X)
  BY <1>2 DEF Has
<1>4. Order(t, X, Y) => Order(s, X, Y)
  BY <1>2 DEF Order
<1>5. QED
  BY <1>1, <1>3, <1>4

LEMMA SpliceOrder ==
    ASSUME NEW S, NEW s \in Seq(S), NEW x \in S, NEW k \in 0..Len(s), NEW c, Splice(c, s, k, x),
           NEW X, NEW Y, x \notin X, x \notin Y
    PROVE  /\ Has(c, X) <=> Has(s, X)
           /\ Order(c, X, Y) => Order(s, X, Y)
<1>1. /\ \A i \in 1..Len(c) : \/ i = k + 1
                              \/ i <= k /\ i \in 1..Len(s) /\ c[i] = s[i]
                              \/ k + 1 < i /\ i - 1 \in 1..Len(s) /\ c[i] = s[i - 1]
      /\ \A i \in 1..Len(s) : (i \in 1..Len(c) /\ c[i] = s[i]) \/ (i + 1 \in 1..Len(c) /\ c[i + 1] = s[i])
      /\ c[k + 1] = x
  BY Inserted
<1>2. Has(c, X) => Has(s, X)
  BY <1>1 DEF Has
<1>3. Has(s, X) => Has(c, X)
  BY <1>1 DEF Has
<1>4. Order(c, X, Y) => Order(s, X, Y)
  <2>1. SUFFICES ASSUME NEW i \in 1..Len(c), NEW j \in 1..Len(c), i < j, c[i] \in X, c[j] \in Y
                 PROVE  Order(s, X, Y)
    BY DEF Order
  <2>2. i # k + 1 /\ j # k + 1
    BY <1>1, <2>1
  <2>3. PICK n \in Nat : n = Len(s)
    OBVIOUS
  <2>4. k \in Nat /\ i \in Nat /\ j \in Nat
    BY <2>1
  <2>5. PICK d \in 1..n : s[d] = c[i] /\ ((d = i /\ i <= k) \/ (d = i - 1 /\ k + 1 < i))
    BY <1>1, <2>2, <2>3
  <2>6. PICK f \in 1..n : s[f] = c[j] /\ ((f = j /\ j <= k) \/ (f = j - 1 /\ k + 1 < j))
    BY <1>1, <2>2, <2>3
  <2>7. d < f
    BY <2>1, <2>4, <2>5, <2>6
  <2>8. QED
    BY <2>1, <2>3, <2>5, <2>6, <2>7 DEF Order
<1>5. QED
  BY <1>2, <1>3, <1>4

-----------------------------------------------------------------------------
(* The order in which a hub deals with what its user wrote *)

LEMMA Deals ==
    ASSUME Typed, NEW p \in Peer, Acts(p)
    PROVE  \/ sent'[p] = sent[p] /\ commands'[p] = commands[p] /\ sending'[p] = sending[p]
           \/ /\ sending'[p] = sending[p]
              /\ \E x \in Message \ Sent : sent'[p] = Append(sent[p], x) /\ commands'[p] = Append(commands[p], x)
           \/ /\ sent'[p] = sent[p] /\ sending'[p] = sending[p]
              /\ \E k \in 0..Len(commands[p]) : Splice(commands'[p], commands[p], k, NoMessage)
           \/ sent'[p] = sent[p] /\ commands'[p] = <<>> /\ sending'[p] = NoMessage
           \/ /\ sent'[p] = sent[p] /\ sending[p] = NoMessage /\ commands[p] # <<>>
              /\ sending'[p] = Head(commands[p]) /\ commands'[p] = Tail(commands[p])
           \/ sent'[p] = sent[p] /\ commands'[p] = commands[p] /\ sending'[p] = NoMessage
           \/ /\ sent'[p] = sent[p] /\ sending'[p] = sending[p] /\ commands[p] # <<>>
              /\ Head(commands[p]) = NoMessage /\ commands'[p] = Tail(commands[p])
<1>1. /\ commands \in [Peer -> Seq(Message \cup {NoMessage})] /\ sending \in [Peer -> Message \cup {NoMessage}]
      /\ sent \in [Peer -> Seq(Message)]
  BY DEF Typed, TypeOK
<1>2. CASE \/ OpenView(p) \/ ReadInbox(p) \/ LearnPeer(p) \/ DialSucceeds(p) \/ HubConnected(p) \/ HubMessage(p)
           \/ HubDisconnected(p) \/ \E l \in Links : LinkTask(p, l)
  BY <1>2 DEF OpenView, ReadInbox, LearnPeer, DialSucceeds, HubConnected, HubMessage, HubDisconnected, LinkTask,
     Accept, RefuseHello, LinkReceives, LinkEnds, uiVars
<1>3. CASE \E x \in Message : UserSends(p, x)
  BY <1>1, <1>3 DEF UserSends
<1>4. CASE ForgetPeer(p)
  <2>1. PICK k \in 0..Len(commands[p]) :
           commands' = [commands EXCEPT ![p] =
              SubSeq(@, 1, k) \o <<NoMessage>> \o SubSeq(@, k + 1, Len(@))]
    BY <1>4 DEF ForgetPeer
  <2>2. Splice(commands'[p], commands[p], k, NoMessage)
    BY <1>1, <2>1 DEF Splice
  <2>3. sent' = sent /\ sending' = sending
    BY <1>4 DEF ForgetPeer, uiVars
  <2>4. QED
    BY <2>2, <2>3
<1>5. CASE Leave(p)
  BY <1>1, <1>5 DEF Leave
<1>6. CASE TakeSend(p)
  BY <1>1, <1>6 DEF TakeSend, TakesCommand, HubFree, uiVars
<1>7. CASE DialFails(p) \/ SendOnLink(p)
  BY <1>1, <1>7 DEF DialFails, SendOnLink, uiVars
<1>8. CASE PeerLeft(p)
  BY <1>1, <1>8 DEF PeerLeft, TakesCommand, uiVars
<1>9. QED
  BY <1>2, <1>3, <1>4, <1>5, <1>6, <1>7, <1>8 DEF Acts, Hub

\* What is written stays written, in its order; what is new is new.
LEMMA SentStep ==
    ASSUME Typed, [Next]_vars, NEW a \in Peer, NEW m \in Message, NEW n \in Message
    PROVE  /\ Wrote(a, m, n) => Wrote(a, m, n)'
           /\ Has(sent[a], {m}) => Has(sent[a], {m})'
           /\ Has(sent[a], {m})' => Has(sent[a], {m}) \/ \A b \in Peer : ~Has(sent[b], {m})
           /\ Wrote(a, m, m)' => Wrote(a, m, m)
<1>1. CASE sent'[a] = sent[a]
  BY <1>1 DEF Wrote
<1>2. ASSUME NEW x \in Message \ Sent, sent'[a] = Append(sent[a], x)
      PROVE  /\ Wrote(a, m, n) => Wrote(a, m, n)'
             /\ Has(sent[a], {m}) => Has(sent[a], {m})'
             /\ Has(sent[a], {m})' => Has(sent[a], {m}) \/ \A b \in Peer : ~Has(sent[b], {m})
             /\ Wrote(a, m, m)' => Wrote(a, m, m)
  <2>1. PICK s \in Seq(Message) : s = sent[a]
    BY Known
  <2>2. \A b \in Peer : ~Has(sent[b], {x})
    BY <1>2 DEF Sent, Items, Has
  <2>3. Has(Append(s, x), {m}) <=> Has(s, {m}) \/ x = m
    BY <1>2, AppendOrder
  <2>4. /\ Order(Append(s, x), {m}, {n}) <=> Order(s, {m}, {n}) \/ (Has(s, {m}) /\ x = n)
        /\ Order(Append(s, x), {m}, {m}) <=> Order(s, {m}, {m}) \/ (Has(s, {m}) /\ x = m)
    BY <1>2, AppendOrder
  <2>5. QED
    BY <1>2, <2>1, <2>2, <2>3, <2>4 DEF Wrote
<1>3. CASE UNCHANGED vars
  BY <1>1, <1>3 DEF vars, uiVars
<1>4. ASSUME NEW p \in Peer, Acts(p)
      PROVE  sent'[a] = sent[a] \/ \E x \in Message \ Sent : sent'[a] = Append(sent[a], x)
  <2>1. CASE p = a
    BY <1>4, <2>1, Deals
  <2>2. CASE p # a
    BY <1>4, <2>2, Apart
  <2>3. QED
    BY <2>1, <2>2
<1>5. QED
  BY <1>1, <1>2, <1>3, <1>4 DEF Next, Acts

LEMMA DistinctStep == Typed /\ Distinct /\ [Next]_vars => Distinct'
<1>1. SUFFICES ASSUME Typed, Distinct, [Next]_vars, NEW a \in Peer, NEW m \in Message
               PROVE  ~Wrote(a, m, m)' /\ ~(Has(sent[a], {m})' /\ Has(sent[Other(a)], {m})')
  BY DEF Distinct
<1>2. PICK b \in Peer : b = Other(a)
  BY Pair
<1>3. ~Wrote(a, m, m) /\ ~(Has(sent[a], {m}) /\ Has(sent[b], {m}))
  BY <1>1, <1>2 DEF Distinct
<1>4. ~Wrote(a, m, m)'
  BY <1>1, <1>3, SentStep
<1>5. ~(Has(sent[a], {m})' /\ Has(sent[b], {m})')
  <2>1. SUFFICES ASSUME Has(sent[a], {m})', Has(sent[b], {m})' PROVE FALSE
    OBVIOUS
  <2>2. ~Has(sent[a], {m}) /\ ~Has(sent[b], {m})
    BY <1>1, <1>3, <2>1, SentStep
  <2>3. CASE UNCHANGED vars
    BY <2>1, <2>2, <2>3 DEF vars, uiVars
  <2>4. ASSUME NEW p \in Peer, Acts(p) PROVE sent'[a] = sent[a] \/ sent'[b] = sent[b]
    BY <1>1, <1>2, <2>4, Pair, Apart
  <2>5. QED
    BY <1>1, <2>1, <2>2, <2>3, <2>4 DEF Next, Acts
<1>6. QED
  BY <1>2, <1>4, <1>5

LEMMA InTurnStep ==
    ASSUME Typed, InTurn, [Next]_vars, NEW a \in Peer, NEW m \in Message
    PROVE  /\ Handled(a, m) => Handled(a, m)'
           /\ m = sending'[a] \/ Has(commands'[a], {m}) => Has(sent'[a], {m})
           /\ \A n \in Message : Turn(a, m, n)' => Wrote(a, m, n)'
<1>1. /\ m = sending[a] \/ Has(commands[a], {m}) => Has(sent[a], {m})
      /\ \A n \in Message : Turn(a, m, n) => Wrote(a, m, n)
      /\ \A n \in Message : n = sending[a] \/ Has(commands[a], {n}) => Has(sent[a], {n})
      /\ m # NoMessage
  BY Values DEF InTurn
<1>2. Has(sent[a], {m}) => Has(sent'[a], {m})
  BY SentStep
<1>3. \A n \in Message : Wrote(a, m, n) => Wrote(a, m, n)'
  BY SentStep
<1>4. PICK S, c : S = Message \cup {NoMessage} /\ c = commands[a] /\ c \in Seq(S)
  BY Known
<1>5. CASE sent'[a] = sent[a] /\ commands'[a] = commands[a] /\ sending'[a] = sending[a]
  BY <1>1, <1>3, <1>5 DEF Handled, Turn
<1>6. ASSUME sending'[a] = sending[a], NEW x \in Message \ Sent,
             sent'[a] = Append(sent[a], x), commands'[a] = Append(c, x)
      PROVE  /\ Handled(a, m) => Handled(a, m)'
             /\ m = sending'[a] \/ Has(commands'[a], {m}) => Has(sent'[a], {m})
             /\ \A n \in Message : Turn(a, m, n)' => Wrote(a, m, n)'
  <2>1. PICK s \in Seq(Message) : s = sent[a]
    BY Known
  <2>2. ~Has(s, {x})
    BY <1>6, <2>1 DEF Sent, Items, Has
  <2>3. x \in S
    BY <1>4, <1>6
  <2>4. \A n \in Message : /\ Has(Append(c, x), {n}) <=> Has(c, {n}) \/ x = n
                           /\ Order(Append(c, x), {m}, {n}) <=> Order(c, {m}, {n}) \/ (Has(c, {m}) /\ x = n)
    <3>1. c \in Seq(S)
      BY <1>4
    <3>2. QED
      BY <2>3, <3>1, AppendOrder
  <2>5. \A n \in Message : /\ Has(Append(s, x), {n}) <=> Has(s, {n}) \/ x = n
                           /\ Order(Append(s, x), {m}, {n}) <=> Order(s, {m}, {n}) \/ (Has(s, {m}) /\ x = n)
    BY <1>6, AppendOrder
  <2>6. Handled(a, m) => Handled(a, m)'
    BY <1>4, <1>6, <2>1, <2>2, <2>4, <2>5 DEF Handled
  <2>7. m = sending'[a] \/ Has(commands'[a], {m}) => Has(sent'[a], {m})
    BY <1>1, <1>4, <1>6, <2>1, <2>4, <2>5
  <2>8. ASSUME NEW n \in Message, Turn(a, m, n)' PROVE Wrote(a, m, n)'
    <3>1. Handled(a, m)' => Handled(a, m)
      BY <1>4, <1>6, <2>1, <2>4, <2>5 DEF Handled
    <3>2. Turn(a, m, n) \/ (n = x /\ Has(s, {m}))
      <4>1. CASE Order(Append(c, x), {m}, {n})
        BY <1>1, <1>4, <2>1, <2>4, <4>1 DEF Turn
      <4>2. CASE m = sending[a] /\ Has(Append(c, x), {n})
        BY <1>1, <1>4, <2>1, <2>4, <4>2 DEF Turn
      <4>3. CASE Handled(a, m)' /\ (n = sending[a] \/ Has(Append(c, x), {n}))
        BY <1>4, <2>1, <2>4, <3>1, <4>3 DEF Turn, Handled
      <4>4. QED
        BY <1>6, <2>8, <4>1, <4>2, <4>3 DEF Turn
    <3>3. CASE Turn(a, m, n)
      BY <1>1, <1>3, <3>3
    <3>4. CASE n = x /\ Has(s, {m})
      BY <1>6, <2>1, <2>5, <3>4 DEF Wrote
    <3>5. QED
      BY <3>2, <3>3, <3>4
  <2>9. QED
    BY <2>6, <2>7, <2>8
<1>7. ASSUME sent'[a] = sent[a], sending'[a] = sending[a], NEW k \in 0..Len(c), Splice(commands'[a], c, k, NoMessage)
      PROVE  /\ Handled(a, m) => Handled(a, m)'
             /\ m = sending'[a] \/ Has(commands'[a], {m}) => Has(sent'[a], {m})
             /\ \A n \in Message : Turn(a, m, n)' => Wrote(a, m, n)'
  <2>1. NoMessage \in S /\ \A n \in Message : NoMessage \notin {n}
    BY <1>4, Values
  <2>2. PICK d : d = commands'[a]
    OBVIOUS
  <2>3. \A n \in Message : (Has(d, {n}) <=> Has(c, {n})) /\ (Order(d, {m}, {n}) => Order(c, {m}, {n}))
    BY <1>4, <1>7, <2>1, <2>2, SpliceOrder
  <2>4. Handled(a, m)' <=> Handled(a, m)
    BY <1>4, <1>7, <2>2, <2>3 DEF Handled
  <2>5. \A n \in Message : Turn(a, m, n)' => Turn(a, m, n)
    BY <1>4, <1>7, <2>2, <2>3, <2>4 DEF Turn
  <2>6. QED
    BY <1>1, <1>3, <1>4, <1>7, <2>2, <2>3, <2>4, <2>5
<1>8. CASE sent'[a] = sent[a] /\ commands'[a] = <<>> /\ sending'[a] = NoMessage
  <2>1. \A n \in Message : ~Has(<<>>, {n}) /\ ~Order(<<>>, {m}, {n})
    BY HasOrder
  <2>2. \A n \in Message : n # NoMessage
    BY Values
  <2>3. QED
    BY <1>1, <1>8, <2>1, <2>2 DEF Handled, Turn
<1>9. CASE /\ sent'[a] = sent[a] /\ sending[a] = NoMessage /\ commands[a] # <<>>
           /\ sending'[a] = Head(commands[a]) /\ commands'[a] = Tail(commands[a])
  <2>1. \A n \in Message : /\ Has(c, {n}) <=> Head(c) = n \/ Has(Tail(c), {n})
                           /\ Order(Tail(c), {m}, {n}) => Order(c, {m}, {n})
                           /\ Head(c) = m /\ Has(Tail(c), {n}) => Order(c, {m}, {n})
    BY <1>4, <1>9, TailOrder
  <2>2. Handled(a, m)' <=> Handled(a, m)
    BY <1>1, <1>4, <1>9, <2>1 DEF Handled
  <2>3. \A n \in Message : Turn(a, m, n)' => Turn(a, m, n)
    BY <1>4, <1>9, <2>1, <2>2 DEF Turn
  <2>4. QED
    BY <1>1, <1>3, <1>4, <1>9, <2>1, <2>2, <2>3
<1>10. CASE sent'[a] = sent[a] /\ commands'[a] = commands[a] /\ sending'[a] = NoMessage
  <2>1. \A n \in Message : n # NoMessage
    BY Values
  <2>2. Handled(a, m)' => Handled(a, m) \/ m = sending[a]
    BY <1>10 DEF Handled
  <2>3. \A n \in Message : Turn(a, m, n)' => Turn(a, m, n)
    BY <1>1, <1>10, <2>1, <2>2 DEF Turn
  <2>4. QED
    BY <1>1, <1>3, <1>10, <2>3 DEF Handled
<1>11. CASE /\ sent'[a] = sent[a] /\ sending'[a] = sending[a] /\ commands[a] # <<>>
            /\ Head(commands[a]) = NoMessage /\ commands'[a] = Tail(commands[a])
  <2>1. \A n \in Message : /\ Has(c, {n}) <=> Head(c) = n \/ Has(Tail(c), {n})
                           /\ Order(Tail(c), {m}, {n}) => Order(c, {m}, {n})
    BY <1>4, <1>11, TailOrder
  <2>2. \A n \in Message : Has(c, {n}) <=> Has(Tail(c), {n})
    BY <1>4, <1>11, <2>1, Values
  <2>3. Handled(a, m)' <=> Handled(a, m)
    BY <1>4, <1>11, <2>2 DEF Handled
  <2>4. \A n \in Message : Turn(a, m, n)' => Turn(a, m, n)
    BY <1>4, <1>11, <2>1, <2>2, <2>3 DEF Turn
  <2>5. QED
    BY <1>1, <1>3, <1>4, <1>11, <2>2, <2>3, <2>4
<1>12. CASE UNCHANGED vars
  BY <1>5, <1>12 DEF vars, uiVars
<1>13. ASSUME NEW p \in Peer, Acts(p), p # a
       PROVE  sent'[a] = sent[a] /\ commands'[a] = commands[a] /\ sending'[a] = sending[a]
  BY <1>13, Apart
<1>14. CASE Acts(a)
  <2>1. QED
    BY <1>4, <1>5, <1>6, <1>7, <1>8, <1>9, <1>10, <1>11, <1>14, Deals
<1>15. QED
  BY <1>5, <1>12, <1>13, <1>14 DEF Next, Acts

-----------------------------------------------------------------------------
(* A step hands a message on, at one place, or loses it *)

Here(p, m) == Near(p, m) \/ Far(p, m)

LEMMA PriorHere ==
    ASSUME NEW p \in Peer, NEW m \in Message, NEW n \in Message
    PROVE  /\ Prior(p, m, n) => Here(p, m) /\ Here(p, n)
           /\ Far(p, m) <=> Queued(p, m) \/ \E l \in Links : Wired(p, l, m)
           /\ Near(p, m) <=> Seen(p, m) \/ Listed(p, m)
<1>1. /\ Order(shown[p], {m}, {n}) => Seen(p, m) /\ Seen(p, n)
      /\ Order(inbox[p], Chats(m), Chats(n)) => Listed(p, m) /\ Listed(p, n)
      /\ Order(events[p], Posts(m), Posts(n)) => Queued(p, m) /\ Queued(p, n)
      /\ \A l \in Links : Order(wire[l][p], {m}, {n}) => Wired(p, l, m) /\ Wired(p, l, n)
  BY HasOrder DEF Seen, Listed, Queued, Wired
<1>2. QED
  BY <1>1 DEF Prior, Here, Near, Far

\* What is at p was there; what is ahead of another was, or they are on two wires.
Passes(p) ==
    \A m, n \in Message :
        /\ Near(p, m)' => Here(p, m)
        /\ Far(p, m)' => Far(p, m)
        /\ \A l \in Links : Wired(p, l, m)' => Wired(p, l, m)
        /\ Prior(p, m, n)' =>
              \/ Prior(p, m, n)
              \/ \E k, l \in Links : k # l /\ Wired(p, k, m) /\ Wired(p, l, n)

\* t is s, or what is left of it, or s with x behind it.
Rest(t, s) == t = s \/ t = <<>> \/ (s # <<>> /\ t = Tail(s))
More(t, s, x) == t = Append(s, x) \/ \E k \in 0..Len(s) : t = Append(SubSeq(s, 1, k), x)

LEMMA Thinner ==
    ASSUME NEW S, NEW s \in Seq(S), NEW t, NEW X, NEW Y,
           Rest(t, s) \/ \E x \in S : x \notin X /\ x \notin Y /\ More(t, s, x)
    PROVE  (Has(t, X) => Has(s, X)) /\ (Order(t, X, Y) => Order(s, X, Y))
<1>1. CASE t = s
  BY <1>1
<1>2. CASE t = <<>>
  BY <1>2, HasOrder
<1>3. CASE s # <<>> /\ t = Tail(s)
  BY <1>3, TailOrder
<1>4. ASSUME NEW x \in S, x \notin X, x \notin Y, t = Append(s, x)
      PROVE  (Has(t, X) => Has(s, X)) /\ (Order(t, X, Y) => Order(s, X, Y))
  BY <1>4, AppendOrder
<1>5. ASSUME NEW x \in S, x \notin X, x \notin Y, NEW k \in 0..Len(s), t = Append(SubSeq(s, 1, k), x)
      PROVE  (Has(t, X) => Has(s, X)) /\ (Order(t, X, Y) => Order(s, X, Y))
  BY <1>5, CutOrder
<1>6. QED
  BY <1>1, <1>2, <1>3, <1>4, <1>5 DEF Rest, More

InboxThins(p) == Rest(inbox'[p], inbox[p]) \/ \E x \in Item : x.type # "chat" /\ More(inbox'[p], inbox[p], x)
EventsThin(p) == Rest(events'[p], events[p]) \/ \E e \in Event : e.type # "message" /\ More(events'[p], events[p], e)
WireThins(p, l) == Rest(wire'[l][p], wire[l][p]) \/ More(wire'[l][p], wire[l][p], NoMessage)

LEMMA PlacesThin ==
    ASSUME Typed, NEW p \in Peer, NEW m \in Message, NEW n \in Message
    PROVE  /\ InboxThins(p) =>
                 /\ Listed(p, m)' => Listed(p, m)
                 /\ Order(inbox'[p], Chats(m), Chats(n)) => Order(inbox[p], Chats(m), Chats(n))
           /\ EventsThin(p) =>
                 /\ Queued(p, m)' => Queued(p, m)
                 /\ Order(events'[p], Posts(m), Posts(n)) => Order(events[p], Posts(m), Posts(n))
           /\ \A l \in Links : WireThins(p, l) =>
                 /\ Wired(p, l, m)' => Wired(p, l, m)
                 /\ Order(wire'[l][p], {m}, {n}) => Order(wire[l][p], {m}, {n})
<1>1. ASSUME InboxThins(p)
      PROVE  /\ Listed(p, m)' => Listed(p, m)
             /\ Order(inbox'[p], Chats(m), Chats(n)) => Order(inbox[p], Chats(m), Chats(n))
  <2>1. PICK s \in Seq(Item) : s = inbox[p]
    BY Known
  <2>2. PICK t : t = inbox'[p]
    OBVIOUS
  <2>3. Rest(t, s) \/ \E x \in Item : x \notin Chats(m) /\ x \notin Chats(n) /\ More(t, s, x)
    BY <1>1, <2>1, <2>2 DEF InboxThins, Chats
  <2>4. (Has(t, Chats(m)) => Has(s, Chats(m))) /\ (Order(t, Chats(m), Chats(n)) => Order(s, Chats(m), Chats(n)))
    BY <2>3, Thinner
  <2>5. QED
    BY <2>1, <2>2, <2>4 DEF Listed
<1>2. ASSUME EventsThin(p)
      PROVE  /\ Queued(p, m)' => Queued(p, m)
             /\ Order(events'[p], Posts(m), Posts(n)) => Order(events[p], Posts(m), Posts(n))
  <2>1. PICK s \in Seq(Event) : s = events[p]
    BY Known
  <2>2. PICK t : t = events'[p]
    OBVIOUS
  <2>3. Rest(t, s) \/ \E x \in Event : x \notin Posts(m) /\ x \notin Posts(n) /\ More(t, s, x)
    BY <1>2, <2>1, <2>2 DEF EventsThin, Posts
  <2>4. (Has(t, Posts(m)) => Has(s, Posts(m))) /\ (Order(t, Posts(m), Posts(n)) => Order(s, Posts(m), Posts(n)))
    BY <2>3, Thinner
  <2>5. QED
    BY <2>1, <2>2, <2>4 DEF Queued
<1>3. ASSUME NEW l \in Links, WireThins(p, l)
      PROVE  /\ Wired(p, l, m)' => Wired(p, l, m)
             /\ Order(wire'[l][p], {m}, {n}) => Order(wire[l][p], {m}, {n})
  <2>1. PICK S, s : S = Message \cup {NoMessage} /\ s = wire[l][p]
    OBVIOUS
  <2>2. s \in Seq(S) /\ NoMessage \in S /\ NoMessage \notin {m} /\ NoMessage \notin {n}
    BY <2>1, Known, Values
  <2>3. PICK t : t = wire'[l][p]
    OBVIOUS
  <2>4. Rest(t, s) \/ \E x \in S : x \notin {m} /\ x \notin {n} /\ More(t, s, x)
    BY <1>3, <2>1, <2>2, <2>3 DEF WireThins
  <2>5. (Has(t, {m}) => Has(s, {m})) /\ (Order(t, {m}, {n}) => Order(s, {m}, {n}))
    BY <2>2, <2>4, Thinner
  <2>6. QED
    BY <2>1, <2>3, <2>5 DEF Wired
<1>4. QED
  BY <1>1, <1>2, <1>3

\* Messages are lost at most.
LEMMA LosesPasses ==
    ASSUME Typed, NEW p \in Peer, shown'[p] = shown[p], InboxThins(p), EventsThin(p), \A l \in Links : WireThins(p, l)
    PROVE  Passes(p)
<1>1. ASSUME NEW m \in Message
      PROVE  /\ Seen(p, m)' <=> Seen(p, m)
             /\ Listed(p, m)' => Listed(p, m)
             /\ Queued(p, m)' => Queued(p, m)
             /\ \A l \in Links : Wired(p, l, m)' => Wired(p, l, m)
  BY <1>1, PlacesThin DEF Seen
<1>2. ASSUME NEW m \in Message, NEW n \in Message
      PROVE  Prior(p, m, n)' => Prior(p, m, n)
  <2>1. /\ Order(inbox'[p], Chats(m), Chats(n)) => Order(inbox[p], Chats(m), Chats(n))
        /\ Order(events'[p], Posts(m), Posts(n)) => Order(events[p], Posts(m), Posts(n))
        /\ \A l \in Links : Order(wire'[l][p], {m}, {n}) => Order(wire[l][p], {m}, {n})
    BY PlacesThin
  <2>2. QED
    BY <1>1, <2>1 DEF Prior, Far
<1>3. QED
  BY <1>1, <1>2 DEF Passes, Here, Near, Far

\* The terminal shows the first item of its inbox.
LEMMA ReadPasses ==
    ASSUME Typed, NEW p \in Peer, inbox[p] # <<>>, Head(inbox[p]).type = "chat",
           shown'[p] = Append(shown[p], Head(inbox[p]).msg), inbox'[p] = Tail(inbox[p]),
           events'[p] = events[p], \A l \in Links : wire'[l][p] = wire[l][p]
    PROVE  Passes(p)
<1>1. PICK s \in Seq(NamedItem), w \in Seq(Message) : s = inbox[p] /\ w = shown[p]
  BY Known
<1>2. PICK x : x = Head(s).msg
  OBVIOUS
<1>3. Head(s) \in NamedItem /\ Head(s).type = "chat" /\ x \in Message
  BY <1>1, <1>2, Tailed DEF NamedItem
<1>4. \A m \in Message : Head(s) \in Chats(m) <=> m = x
  BY <1>2, <1>3 DEF Chats
<1>5. ASSUME NEW m \in Message
      PROVE  /\ Queued(p, m)' <=> Queued(p, m)
             /\ \A l \in Links : Wired(p, l, m)' <=> Wired(p, l, m)
             /\ Seen(p, m)' <=> Seen(p, m) \/ m = x
             /\ Listed(p, m) <=> m = x \/ Listed(p, m)'
  <2>1. Has(s, Chats(m)) <=> m = x \/ Has(Tail(s), Chats(m))
    BY <1>1, <1>4, TailOrder
  <2>2. Has(Append(w, x), {m}) <=> Has(w, {m}) \/ m = x
    <3>1. Has(Append(w, x), {m}) <=> Has(w, {m}) \/ x \in {m}
      BY <1>3, AppendOrder
    <3>2. QED
      BY <3>1
  <2>3. QED
    BY <1>1, <1>2, <2>1, <2>2 DEF Queued, Wired, Seen, Listed
<1>6. ASSUME NEW m \in Message, NEW n \in Message
      PROVE  Prior(p, m, n)' => Prior(p, m, n)
  <2>1. /\ Order(Tail(s), Chats(m), Chats(n)) => Order(s, Chats(m), Chats(n))
        /\ m = x /\ Has(Tail(s), Chats(n)) => Order(s, Chats(m), Chats(n))
    BY <1>1, <1>4, TailOrder
  <2>2. Order(Append(w, x), {m}, {n}) <=> Order(w, {m}, {n}) \/ (Has(w, {m}) /\ n = x)
    BY <1>3, AppendOrder
  <2>3. Order(shown'[p], {m}, {n}) => Order(shown[p], {m}, {n}) \/ (Seen(p, m) /\ n = x)
    BY <1>1, <1>2, <2>2 DEF Seen
  <2>4. /\ Order(inbox'[p], Chats(m), Chats(n)) => Order(inbox[p], Chats(m), Chats(n))
        /\ m = x /\ Listed(p, n)' => Order(inbox[p], Chats(m), Chats(n))
    BY <1>1, <2>1 DEF Listed
  <2>5. Far(p, n)' <=> Far(p, n)
    BY <1>5 DEF Far
  <2>6. QED
    BY <1>5, <2>3, <2>4, <2>5 DEF Prior
<1>7. QED
  BY <1>5, <1>6 DEF Passes, Here, Near, Far

\* The hub takes a message.
LEMMA GetPasses ==
    ASSUME Typed, NEW p \in Peer, events[p] # <<>>, Head(events[p]).type = "message",
           NEW status \in Status, inbox'[p] = Append(inbox[p], Chat(Head(events[p]).msg, status)),
           events'[p] = Tail(events[p]), shown'[p] = shown[p], \A l \in Links : wire'[l][p] = wire[l][p]
    PROVE  Passes(p)
<1>1. PICK s \in Seq(NamedEvent), w \in Seq(NamedItem) : s = events[p] /\ w = inbox[p]
  BY Known
<1>2. PICK x : x = Head(s).msg
  OBVIOUS
<1>3. Head(s) \in NamedEvent /\ Head(s).type = "message" /\ x \in Message
  BY <1>1, <1>2, Tailed DEF NamedEvent
<1>4. PICK c \in NamedItem : c = Chat(x, status) /\ c.type = "chat" /\ c.msg = x
  BY <1>3, Values
<1>5. \A m \in Message : (Head(s) \in Posts(m) <=> m = x) /\ (c \in Chats(m) <=> m = x)
  BY <1>2, <1>3, <1>4 DEF Chats, Posts
<1>6. inbox'[p] = Append(w, c) /\ events'[p] = Tail(s)
  BY <1>1, <1>2, <1>4
<1>7. ASSUME NEW m \in Message
      PROVE  /\ Queued(p, m) <=> m = x \/ Queued(p, m)'
             /\ \A l \in Links : Wired(p, l, m)' <=> Wired(p, l, m)
             /\ Seen(p, m)' <=> Seen(p, m)
             /\ Listed(p, m)' <=> m = x \/ Listed(p, m)
  <2>1. Has(s, Posts(m)) <=> m = x \/ Has(Tail(s), Posts(m))
    BY <1>1, <1>5, TailOrder
  <2>2. Has(Append(w, c), Chats(m)) <=> Has(w, Chats(m)) \/ m = x
    BY <1>5, AppendOrder
  <2>3. QED
    BY <1>1, <1>6, <2>1, <2>2 DEF Queued, Wired, Seen, Listed
<1>8. ASSUME NEW m \in Message, NEW n \in Message
      PROVE  Prior(p, m, n)' => Prior(p, m, n)
  <2>1. /\ Order(Tail(s), Posts(m), Posts(n)) => Order(s, Posts(m), Posts(n))
        /\ m = x /\ Has(Tail(s), Posts(n)) => Order(s, Posts(m), Posts(n))
    BY <1>1, <1>5, TailOrder
  <2>2. Order(Append(w, c), Chats(m), Chats(n)) <=> Order(w, Chats(m), Chats(n)) \/ (Has(w, Chats(m)) /\ n = x)
    BY <1>5, AppendOrder
  <2>3. Order(inbox'[p], Chats(m), Chats(n)) => Order(inbox[p], Chats(m), Chats(n)) \/ (Listed(p, m) /\ n = x)
    BY <1>1, <1>6, <2>2 DEF Listed
  <2>4. /\ Order(events'[p], Posts(m), Posts(n)) => Order(events[p], Posts(m), Posts(n))
        /\ m = x /\ Queued(p, n)' => Order(events[p], Posts(m), Posts(n))
    BY <1>1, <1>6, <2>1 DEF Queued
  <2>5. (Far(p, n)' => Far(p, n)) /\ (n = x => Far(p, n))
    BY <1>7 DEF Far
  <2>6. CASE Order(shown'[p], {m}, {n}) \/ Order(inbox'[p], Chats(m), Chats(n)) \/ Order(events'[p], Posts(m), Posts(n))
             \/ \E l \in Links : Order(wire'[l][p], {m}, {n})
    BY <2>3, <2>4, <2>5, <2>6 DEF Prior
  <2>7. CASE Seen(p, m)' /\ (Listed(p, n)' \/ Far(p, n)')
    BY <1>7, <2>5, <2>7 DEF Prior
  <2>8. CASE Listed(p, m)' /\ Far(p, n)'
    <3>1. Queued(p, n)' \/ \E l \in Links : Wired(p, l, n)'
      BY <2>8 DEF Far
    <3>2. CASE m = x
      BY <1>7, <2>4, <3>1, <3>2 DEF Prior
    <3>3. CASE m # x
      BY <1>7, <2>5, <2>8, <3>3 DEF Prior
    <3>4. QED
      BY <3>2, <3>3
  <2>9. CASE Queued(p, m)' /\ \E l \in Links : Wired(p, l, n)'
    BY <1>7, <2>9 DEF Prior
  <2>10. QED
    BY <2>6, <2>7, <2>8, <2>9 DEF Prior
<1>9. QED
  BY <1>7, <1>8 DEF Passes, Here, Near, Far

\* The task of a link's end takes a message off the wire.
LEMMA ReceivePasses ==
    ASSUME Typed, NEW p \in Peer, NEW l \in Links, wire[l][p] # <<>>, Head(wire[l][p]) # NoMessage,
           events'[p] = Append(events[p], LinkEvent("message", l, Head(wire[l][p]))),
           wire'[l][p] = Tail(wire[l][p]), \A k \in Links : k # l => wire'[k][p] = wire[k][p],
           shown'[p] = shown[p], inbox'[p] = inbox[p]
    PROVE  Passes(p)
<1>0. PICK w \in Seq(NamedEvent) : w = events[p]
  BY Known
<1>1. PICK S, s : S = Message \cup {NoMessage} /\ s = wire[l][p]
  OBVIOUS
<1>2. s \in Seq(S) /\ s # <<>>
  BY <1>1, Known
<1>3. PICK x : x = Head(s)
  OBVIOUS
<1>4. x \in Message
  BY <1>1, <1>2, <1>3, Tailed
<1>5. PICK e \in NamedEvent : e = LinkEvent("message", l, x) /\ e.type = "message" /\ e.msg = x
  BY <1>4, Values
<1>6. \A m \in Message : e \in Posts(m) <=> m = x
  BY <1>5 DEF Posts
<1>7. events'[p] = Append(w, e) /\ wire'[l][p] = Tail(s)
  BY <1>0, <1>1, <1>3, <1>5
<1>8. ASSUME NEW m \in Message
      PROVE  /\ Wired(p, l, m) <=> m = x \/ Wired(p, l, m)'
             /\ \A k \in Links : k # l => (Wired(p, k, m)' <=> Wired(p, k, m))
             /\ Queued(p, m)' <=> m = x \/ Queued(p, m)
             /\ Seen(p, m)' <=> Seen(p, m)
             /\ Listed(p, m)' <=> Listed(p, m)
  <2>1. Has(s, {m}) <=> m = x \/ Has(Tail(s), {m})
    BY <1>2, <1>3, TailOrder
  <2>2. Has(Append(w, e), Posts(m)) <=> Has(w, Posts(m)) \/ m = x
    BY <1>6, AppendOrder
  <2>3. QED
    BY <1>0, <1>1, <1>7, <2>1, <2>2 DEF Queued, Wired, Seen, Listed
<1>9. ASSUME NEW m \in Message, NEW n \in Message
      PROVE  Prior(p, m, n)' => \/ Prior(p, m, n)
                                \/ \E k, h \in Links : k # h /\ Wired(p, k, m) /\ Wired(p, h, n)
  <2>1. /\ Order(Tail(s), {m}, {n}) => Order(s, {m}, {n})
        /\ m = x /\ Has(Tail(s), {n}) => Order(s, {m}, {n})
    BY <1>2, <1>3, TailOrder
  <2>2. Order(Append(w, e), Posts(m), Posts(n)) <=> Order(w, Posts(m), Posts(n)) \/ (Has(w, Posts(m)) /\ n = x)
    BY <1>6, AppendOrder
  <2>3. Order(events'[p], Posts(m), Posts(n)) => Order(events[p], Posts(m), Posts(n)) \/ (Queued(p, m) /\ n = x)
    BY <1>0, <1>7, <2>2 DEF Queued
  <2>4. /\ Order(wire'[l][p], {m}, {n}) => Order(wire[l][p], {m}, {n})
        /\ m = x /\ Wired(p, l, n)' => Order(wire[l][p], {m}, {n})
    BY <1>1, <1>7, <2>1 DEF Wired
  <2>5. \A k \in Links : Wired(p, k, n)' => Wired(p, k, n)
    BY <1>8
  <2>6. (Far(p, n)' => Far(p, n)) /\ (n = x => Wired(p, l, n))
    BY <1>8, <2>5 DEF Far
  <2>7. CASE Order(shown'[p], {m}, {n}) \/ Order(inbox'[p], Chats(m), Chats(n)) \/ Order(events'[p], Posts(m), Posts(n))
    BY <2>3, <2>6, <2>7 DEF Prior
  <2>8. ASSUME NEW k \in Links, Order(wire'[k][p], {m}, {n}) PROVE Prior(p, m, n)
    <3>1. CASE k = l
      BY <2>4, <2>8, <3>1 DEF Prior
    <3>2. CASE k # l
      BY <2>8, <3>2 DEF Prior
    <3>3. QED
      BY <3>1, <3>2
  <2>9. CASE (Seen(p, m)' /\ (Listed(p, n)' \/ Far(p, n)')) \/ (Listed(p, m)' /\ Far(p, n)')
    BY <1>8, <2>6, <2>9 DEF Prior
  <2>10. ASSUME Queued(p, m)', NEW k \in Links, Wired(p, k, n)'
         PROVE  \/ Prior(p, m, n)
                \/ \E g, h \in Links : g # h /\ Wired(p, g, m) /\ Wired(p, h, n)
    <3>1. Wired(p, k, n)
      BY <2>5, <2>10
    <3>2. CASE Queued(p, m)
      BY <3>1, <3>2 DEF Prior
    <3>3. CASE m = x /\ k = l
      BY <2>4, <2>10, <3>3 DEF Prior
    <3>4. CASE m = x /\ k # l
      BY <1>8, <3>1, <3>4
    <3>5. QED
      BY <1>8, <2>10, <3>2, <3>3, <3>4
  <2>11. QED
    BY <2>7, <2>8, <2>9, <2>10 DEF Prior
<1>10. QED
  BY <1>8, <1>9 DEF Passes, Here, Near, Far

-----------------------------------------------------------------------------
(* What a step leaves of the order *)

LEMMA ToldGrows == Typed /\ [Next]_vars => told \subseteq told' /\ gone \subseteq gone'
<1>1. SUFFICES ASSUME Typed, [Next]_vars PROVE told \subseteq told' /\ gone \subseteq gone'
  OBVIOUS
<1>2. CASE UNCHANGED vars
  BY <1>2 DEF vars
<1>3. ASSUME NEW p \in Peer, Acts(p) PROVE told \subseteq told' /\ gone \subseteq gone'
  BY <1>3 DEF Acts, OpenView, ReadInbox, UserSends, LearnPeer, ForgetPeer, Leave, Hub, LinkTask,
     TakeSend, DialFails, DialSucceeds, SendOnLink, PeerLeft, HubConnected, HubMessage,
     HubDisconnected, Accept, RefuseHello, LinkReceives, LinkEnds, CloseLink, Fail
<1>4. QED
  BY <1>1, <1>2, <1>3 DEF Next, Acts

\* Who wrote what is at p.
LEMMA Authors ==
    ASSUME Typed, Distinct, [Next]_vars, NEW p \in Peer, Authored(p), NEW m \in Message, NEW a \in Peer
    PROVE  /\ Here(p, m) /\ Has(sent[a], {m})' => Handled(a, m) /\ Has(sent[a], {m})
           /\ Far(p, m) /\ Has(sent[a], {m})' => a = Other(p)
<1>1. PICK q \in Peer : q = Other(p) /\ q # p /\ Other(q) = p /\ \A r \in Peer : r = p \/ r = q
  BY Pair
<1>2. /\ Here(p, m) => Handled(p, m) \/ Handled(q, m)
      /\ Far(p, m) => Handled(q, m)
  BY <1>1 DEF Authored, Here
<1>3. \A b \in Peer : Handled(b, m) => Has(sent[b], {m})
  BY DEF Handled
<1>4. Has(sent[a], {m})' => Has(sent[a], {m}) \/ \A b \in Peer : ~Has(sent[b], {m})
  BY SentStep
<1>5. ~(Has(sent[p], {m}) /\ Has(sent[q], {m}))
  BY <1>1 DEF Distinct
<1>6. QED
  BY <1>1, <1>2, <1>3, <1>4, <1>5

LEMMA FlowPasses ==
    ASSUME Typed, Distinct, InTurn, [Next]_vars, NEW p \in Peer,
           Authored(p), Once(p), Sorted(p), PresentLink(p), Passes(p)
    PROVE  Authored(p)' /\ Once(p)' /\ Sorted(p)'
<1>1. PICK q \in Peer : q = Other(p) /\ q # p /\ Other(q) = p /\ \A r \in Peer : r = p \/ r = q
  BY Pair
<1>2. ASSUME NEW m \in Message
      PROVE  /\ Far(p, m)' => Handled(q, m)'
             /\ Near(p, m)' => Handled(p, m)' \/ Handled(q, m)'
  <2>1. (Handled(p, m) => Handled(p, m)') /\ (Handled(q, m) => Handled(q, m)')
    BY InTurnStep
  <2>2. /\ Far(p, m) => Handled(q, m)
        /\ Near(p, m) => Handled(p, m) \/ Handled(q, m)
    BY <1>1 DEF Authored
  <2>3. (Near(p, m)' => Near(p, m) \/ Far(p, m)) /\ (Far(p, m)' => Far(p, m))
    BY DEF Passes, Here
  <2>4. QED
    BY <2>1, <2>2, <2>3
<1>3. Authored(p)'
  BY <1>1, <1>2 DEF Authored
<1>4. Once(p)'
  BY DEF Once, Passes
<1>5. ASSUME NEW a \in Peer, NEW m \in Message, NEW n \in Message,
             Prior(p, m, n)', Has(sent[a], {m})', Has(sent[a], {n})', a = p \/ {m, n} \cap told' = {}
      PROVE  Wrote(a, m, n)'
  <2>1. told \subseteq told'
    BY ToldGrows
  <2>2. Wrote(a, m, n) => Wrote(a, m, n)'
    BY SentStep
  <2>3. CASE Prior(p, m, n)
    <3>1. Here(p, m) /\ Here(p, n)
      BY <2>3, PriorHere
    <3>2. Has(sent[a], {m}) /\ Has(sent[a], {n})
      BY <1>5, <3>1, Authors
    <3>3. a = p \/ {m, n} \cap told = {}
      BY <1>5, <2>1
    <3>4. QED
      BY <2>2, <2>3, <3>2, <3>3 DEF Sorted
  <2>4. ASSUME NEW k \in Links, NEW l \in Links, k # l, Wired(p, k, m), Wired(p, l, n)
        PROVE  FALSE
    <3>1. Far(p, m)
      BY <2>4 DEF Far
    <3>2. a # p
      BY <1>1, <1>5, <3>1, Authors
    <3>3. m \in Message \ told /\ n \in Message \ told
      BY <1>5, <2>1, <3>2
    <3>4. QED
      BY <2>4, <3>3 DEF PresentLink
  <2>5. QED
    BY <1>5, <2>3, <2>4 DEF Passes
<1>6. Sorted(p)'
  BY <1>5 DEF Sorted
<1>7. QED
  BY <1>3, <1>4, <1>6

\* The hub of a puts the message it deals with on its link.
Puts(a) ==
    /\ sending[a] \in Message /\ link[a] \in Link /\ a \notin gone
    /\ UNCHANGED <<gone, sent, commands, told, events, shown>>
    /\ sending' = [sending EXCEPT ![a] = NoMessage]
    /\ \E k \in Link : k.id = link[a].id /\ link' = [link EXCEPT ![a] = k]
    /\ carried' = [carried EXCEPT ![a] = @ \cup {sending[a]}]
    /\ wire' = [wire EXCEPT ![link[a].id][Other(a)] = Append(@, sending[a])]
    /\ \E status \in Status : inbox' = [inbox EXCEPT ![a] = Append(@, Chat(sending[a], status))]

\* What p gains when the hub of a does so
Gains(p, a) ==
    \A m, n \in Message :
        /\ Near(p, m)' => Near(p, m) \/ (m = sending[a] /\ p = a)
        /\ Far(p, m)' => Far(p, m) \/ (m = sending[a] /\ p # a)
        /\ \A l \in Links : Wired(p, l, m)' => Wired(p, l, m) \/ (m = sending[a] /\ p # a /\ l = link[a].id)
        /\ Prior(p, m, n)' =>
              \/ Prior(p, m, n)
              \/ n = sending[a] /\ Here(p, m)
              \/ m = sending[a] /\ p = a /\ Far(p, n)

LEMMA FlowGains ==
    ASSUME Typed, Distinct, InTurn, [Next]_vars, NEW p \in Peer, NEW a \in Peer, Puts(a), Gains(p, a),
           Authored(p), Once(p), Sorted(p)
    PROVE  Authored(p)' /\ Once(p)' /\ Sorted(p)'
<1>1. PICK q \in Peer : q = Other(p) /\ q # p /\ Other(q) = p /\ \A r \in Peer : r = p \/ r = q
  BY Pair
<1>2. PICK x \in Message : x = sending[a]
  BY DEF Puts
<1>3. Has(sent[a], {x}) /\ ~Handled(a, x) /\ Handled(a, x)'
  <2>1. Has(sent[a], {x})
    BY <1>2 DEF InTurn
  <2>2. ~Has(commands[a], {x})
    <3>1. Turn(a, x, x) => Wrote(a, x, x)
      BY DEF InTurn
    <3>2. QED
      BY <1>2, <3>1 DEF Turn, Distinct
  <2>3. sending'[a] = NoMessage /\ sent' = sent /\ commands' = commands /\ x # NoMessage
    BY Values DEF Puts, Typed, TypeOK
  <2>4. QED
    BY <1>2, <2>1, <2>2, <2>3 DEF Handled
\* it is not at p yet
<1>4. ~Here(p, x)
  <2>1. Has(sent[a], {x})'
    BY <1>3 DEF Handled
  <2>2. QED
    BY <1>3, <2>1, Authors
<1>5. ASSUME NEW m \in Message
      PROVE  /\ Far(p, m)' => Handled(q, m)'
             /\ Near(p, m)' => Handled(p, m)' \/ Handled(q, m)'
  <2>1. (Handled(p, m) => Handled(p, m)') /\ (Handled(q, m) => Handled(q, m)')
    BY InTurnStep
  <2>2. /\ Far(p, m) => Handled(q, m)
        /\ Near(p, m) => Handled(p, m) \/ Handled(q, m)
    BY <1>1 DEF Authored
  <2>3. /\ Near(p, m)' => Near(p, m) \/ (m = x /\ p = a)
        /\ Far(p, m)' => Far(p, m) \/ (m = x /\ p # a)
    BY <1>2 DEF Gains
  <2>4. QED
    BY <1>1, <1>3, <2>1, <2>2, <2>3
<1>6. Authored(p)'
  BY <1>1, <1>5 DEF Authored
<1>7. ASSUME NEW m \in Message, NEW n \in Message
      PROVE  Prior(p, m, n)' => \/ Prior(p, m, n)
                                \/ n = x /\ Here(p, m)
                                \/ m = x /\ p = a /\ Far(p, n)
  BY <1>2 DEF Gains
<1>8. Once(p)'
  <2>1. ASSUME NEW m \in Message PROVE ~Prior(p, m, m)'
    <3>1. ~Prior(p, m, m)
      BY DEF Once
    <3>2. ~(m = x /\ Far(p, m)) /\ ~(m = x /\ Here(p, m))
      BY <1>4 DEF Here
    <3>3. QED
      BY <1>7, <3>1, <3>2
  <2>2. ASSUME NEW m \in Message, NEW k \in Links, NEW l \in Links, Wired(p, k, m)', Wired(p, l, m)'
        PROVE  k = l
    <3>1. CASE m = x
      <4>1. ~Wired(p, k, m) /\ ~Wired(p, l, m)
        BY <1>4, <3>1 DEF Here, Far
      <4>2. QED
        BY <2>2, <4>1 DEF Gains
    <3>2. CASE m # x
      BY <1>2, <2>2, <3>2 DEF Gains, Once
    <3>3. QED
      BY <3>1, <3>2
  <2>3. QED
    BY <2>1, <2>2 DEF Once
<1>9. ASSUME NEW b \in Peer, NEW m \in Message, NEW n \in Message,
             Prior(p, m, n)', Has(sent[b], {m})', Has(sent[b], {n})', b = p \/ {m, n} \cap told' = {}
      PROVE  Wrote(b, m, n)'
  <2>1. Wrote(b, m, n) => Wrote(b, m, n)'
    BY SentStep
  <2>2. sent' = sent /\ told' = told
    BY DEF Puts
  <2>3. Has(sent[b], {x}) => b = a
    BY <1>1, <1>3, Pair DEF Distinct
  <2>4. CASE Prior(p, m, n)
    BY <1>9, <2>1, <2>2, <2>4 DEF Sorted
  <2>5. CASE n = x /\ Here(p, m)
    <3>1. b = a /\ Handled(a, m)
      BY <1>9, <2>2, <2>3, <2>5, Authors
    <3>2. Turn(a, m, n)
      BY <1>2, <2>5, <3>1 DEF Turn
    <3>3. QED
      BY <2>1, <3>1, <3>2 DEF InTurn
  <2>6. CASE m = x /\ p = a /\ Far(p, n)
    <3>1. b = a
      BY <1>9, <2>2, <2>3, <2>6
    <3>2. b = q
      BY <1>1, <1>9, <2>6, Authors
    <3>3. QED
      BY <1>1, <2>6, <3>1, <3>2
  <2>7. QED
    BY <1>7, <1>9, <2>4, <2>5, <2>6
<1>10. Sorted(p)'
  BY <1>9 DEF Sorted
<1>11. QED
  BY <1>6, <1>8, <1>10

-----------------------------------------------------------------------------
(* What each step does with the messages that are on their way *)

\* Notices and the events of a link's begin and end are no messages.
LEMMA Notices ==
    /\ \A type \in {"joined", "left", "closed", "error"} : Notice(type) \in Item /\ Notice(type).type # "chat"
    /\ \A type \in {"connected", "disconnected"}, l \in Links :
          LinkEvent(type, l, NoMessage) \in Event /\ LinkEvent(type, l, NoMessage).type # "message"
  BY DEF Notice, Item, LinkEvent, Event, Status, Links

\* Steps that leave the wires, the events and what is shown alone
LEMMA HandsNotices ==
    ASSUME Typed, NEW p \in Peer, NEW r \in Peer,
           \/ OpenView(p) \/ (\E x \in Message : UserSends(p, x)) \/ LearnPeer(p) \/ ForgetPeer(p)
           \/ TakeSend(p) \/ DialFails(p) \/ DialSucceeds(p) \/ PeerLeft(p)
    PROVE  Passes(r)
<1>1. inbox \in [Peer -> Seq(Item)]
  BY DEF Typed, TypeOK
<1>2. UNCHANGED <<events, wire, shown>>
  BY DEF OpenView, UserSends, LearnPeer, ForgetPeer, TakeSend, DialFails, DialSucceeds, PeerLeft, netVars, uiVars
<1>3. inbox' = inbox \/ \E type \in {"joined", "left", "closed", "error"} : inbox' = [inbox EXCEPT ![p] = Append(@, Notice(type))]
  BY DEF OpenView, UserSends, LearnPeer, ForgetPeer, TakeSend, DialFails, DialSucceeds, PeerLeft, Fail, CloseLink
<1>4. inbox'[r] = inbox[r] \/ \E type \in {"joined", "left", "closed", "error"} : inbox'[r] = Append(inbox[r], Notice(type))
  BY <1>1, <1>3
<1>5. InboxThins(r)
  BY <1>4, Notices DEF InboxThins, Rest, More
<1>6. EventsThin(r) /\ \A l \in Links : WireThins(r, l)
  BY <1>2 DEF EventsThin, WireThins, Rest
<1>7. QED
  BY <1>2, <1>5, <1>6, LosesPasses

\* The terminal
LEMMA HandsRead ==
    ASSUME Typed, NEW p \in Peer, NEW r \in Peer, ReadInbox(p)
    PROVE  Passes(r)
<1>1. inbox \in [Peer -> Seq(Item)] /\ shown \in [Peer -> Seq(Message)]
  BY DEF Typed, TypeOK
<1>2. UNCHANGED <<events, wire>> /\ inbox[p] # <<>>
  BY DEF ReadInbox, netVars
<1>3. inbox' = [inbox EXCEPT ![p] = Tail(inbox[p])]
  BY <1>1 DEF ReadInbox
<1>4. EventsThin(r) /\ \A l \in Links : WireThins(r, l)
  BY <1>2 DEF EventsThin, WireThins, Rest
<1>5. InboxThins(r)
  BY <1>1, <1>2, <1>3 DEF InboxThins, Rest
<1>6. CASE Head(inbox[p]).type # "chat" \/ r # p
  <2>1. shown'[r] = shown[r]
    BY <1>1, <1>6 DEF ReadInbox
  <2>2. QED
    BY <1>4, <1>5, <2>1, LosesPasses
<1>7. CASE Head(inbox[p]).type = "chat" /\ r = p
  <2>1. shown'[p] = Append(shown[p], Head(inbox[p]).msg) /\ inbox'[p] = Tail(inbox[p])
    BY <1>1, <1>3, <1>7 DEF ReadInbox
  <2>2. QED
    BY <1>2, <1>7, <2>1, ReadPasses
<1>8. QED
  BY <1>6, <1>7

\* A session that ends
LEMMA HandsLeave ==
    ASSUME Typed, NEW p \in Peer, NEW r \in Peer, Leave(p)
    PROVE  Passes(r)
<1>1. inbox \in [Peer -> Seq(Item)] /\ events \in [Peer -> Seq(Event)]
  BY DEF Typed, TypeOK
<1>2. inbox' = [inbox EXCEPT ![p] = <<>>] /\ events' = [events EXCEPT ![p] = <<>>] /\ shown' = shown
  BY DEF Leave
<1>3. InboxThins(r) /\ EventsThin(r)
  BY <1>1, <1>2 DEF InboxThins, EventsThin, Rest
<1>4. ASSUME NEW l \in Links PROVE WireThins(r, l)
  <2>1. wire'[l] = wire[l] \/ (wire'[l][p] = <<>> /\ wire'[l][Other(p)] = Append(wire[l][Other(p)], NoMessage))
    BY LeaveType
  <2>2. r = p \/ r = Other(p)
    BY Pair
  <2>3. QED
    BY <2>1, <2>2 DEF WireThins, Rest, More
<1>5. QED
  BY <1>2, <1>3, <1>4, LosesPasses

\* The hub and its events
LEMMA HandsEvents ==
    ASSUME Typed, NEW p \in Peer, NEW r \in Peer, HubConnected(p) \/ HubMessage(p) \/ HubDisconnected(p)
    PROVE  Passes(r)
<1>1. inbox \in [Peer -> Seq(Item)] /\ events \in [Peer -> Seq(Event)]
  BY DEF Typed, TypeOK
<1>2. UNCHANGED <<wire, shown>> /\ events[p] # <<>> /\ events' = [events EXCEPT ![p] = Tail(events[p])]
  BY <1>1 DEF HubConnected, HubMessage, HubDisconnected, TakesEvent, netVars, uiVars
<1>3. EventsThin(r) /\ \A l \in Links : WireThins(r, l)
  BY <1>1, <1>2 DEF EventsThin, WireThins, Rest
<1>4. CASE inbox' = inbox \/ r # p
  <2>1. inbox'[r] = inbox[r]
    <3>1. Acts(p)
      BY DEF Acts, Hub
    <3>2. QED
      BY <1>4, <3>1, Apart
  <2>2. QED
    BY <1>2, <1>3, <2>1, LosesPasses DEF InboxThins, Rest
<1>5. CASE inbox' # inbox /\ r = p /\ ~HubMessage(p)
  <2>1. HubDisconnected(p)
    BY <1>5 DEF HubConnected
  <2>2. inbox'[p] = Append(inbox[p], Notice("closed"))
    BY <1>1, <1>5, <2>1 DEF HubDisconnected, CloseLink
  <2>3. InboxThins(r)
    BY <1>5, <2>2, Notices DEF InboxThins, Rest, More
  <2>4. QED
    BY <1>2, <1>3, <2>3, LosesPasses
<1>6. CASE inbox' # inbox /\ r = p /\ HubMessage(p)
  <2>1. /\ AfterMessage(link[p]) # NoLink /\ Head(events[p]).id = link[p].id /\ Head(events[p]).type = "message"
        /\ inbox'[p] = Append(inbox[p], Chat(Head(events[p]).msg, StatusOf(AfterMessage(link[p]))))
    BY <1>1, <1>6 DEF HubMessage, TakesEvent
  <2>2. link[p] \in Link
    <3>1. Head(events[p]) \in Event
      BY <1>1, <1>2, Tailed
    <3>2. link[p].id \in Links
      BY <2>1, <3>1 DEF Event
    <3>3. QED
      BY <3>2, Known, Numbers
  <2>3. StatusOf(AfterMessage(link[p])) \in Status
    BY <2>1, <2>2, MessageFacts, Values
  <2>4. events'[p] = Tail(events[p]) /\ shown'[p] = shown[p] /\ \A l \in Links : wire'[l][p] = wire[l][p]
    BY <1>1, <1>2
  <2>5. QED
    BY <1>2, <1>6, <2>1, <2>3, <2>4, GetPasses
<1>7. QED
  BY <1>4, <1>5, <1>6

\* The tasks of a link's ends
LEMMA HandsTask ==
    ASSUME Typed, NEW p \in Peer, NEW r \in Peer, NEW l \in Links, LinkTask(p, l)
    PROVE  Passes(r)
<1>1. events \in [Peer -> Seq(Event)] /\ wire \in [Links -> [Peer -> Seq(Message \cup {NoMessage})]]
  BY DEF Typed, TypeOK
<1>2. UNCHANGED <<inbox, shown>>
  BY DEF LinkTask, Accept, RefuseHello, LinkReceives, LinkEnds, uiVars
<1>3. InboxThins(r)
  BY <1>2 DEF InboxThins, Rest
<1>4. CASE Accept(p, l) \/ RefuseHello(p, l) \/ LinkEnds(p, l)
  <2>1. \/ events' = events
        \/ \E type \in {"connected", "disconnected"} : events' = [events EXCEPT ![p] = Append(@, LinkEvent(type, l, NoMessage))]
    BY <1>4 DEF Accept, RefuseHello, LinkEnds, AddEvent
  <2>2. \/ events'[r] = events[r]
        \/ \E type \in {"connected", "disconnected"} : events'[r] = Append(events[r], LinkEvent(type, l, NoMessage))
    BY <1>1, <2>1
  <2>3. EventsThin(r)
    BY <2>2, Notices DEF EventsThin, Rest, More
  <2>4. ASSUME NEW k \in Links PROVE WireThins(r, k)
    <3>1. wire' = wire \/ Cut(l, p)
      BY <1>4 DEF Accept, RefuseHello, LinkEnds
    <3>2. CASE wire' = wire
      BY <3>2 DEF WireThins, Rest
    <3>3. CASE Cut(l, p)
      <4>1. /\ k # l => wire'[k] = wire[k]
            /\ wire'[l][p] = <<>>
            /\ \E c \in 0..Len(wire[l][Other(p)]) :
                  wire'[l][Other(p)] = Append(SubSeq(wire[l][Other(p)], 1, c), NoMessage)
        BY <3>3, CutType
      <4>2. r = p \/ r = Other(p)
        BY Pair
      <4>3. CASE k # l \/ r = p
        BY <4>1, <4>3 DEF WireThins, Rest
      <4>4. CASE k = l /\ r = Other(p)
        BY <4>1, <4>4 DEF WireThins, More
      <4>5. QED
        BY <4>2, <4>3, <4>4
    <3>4. QED
      BY <3>1, <3>2, <3>3
  <2>5. QED
    BY <1>2, <1>3, <2>3, <2>4, LosesPasses
<1>5. CASE LinkReceives(p, l)
  <2>1. PICK w : w = Tail(wire[l][p])
    OBVIOUS
  <2>2. /\ wire[l][p] # <<>> /\ Head(wire[l][p]) # NoMessage
        /\ wire' = [wire EXCEPT ![l][p] = w]
        /\ events' = [events EXCEPT ![p] = Append(@, LinkEvent("message", l, Head(wire[l][p])))]
    BY <1>1, <1>5, <2>1 DEF LinkReceives, AddEvent
  <2>3. /\ \A k \in Links : k # l => wire'[k] = wire[k]
        /\ wire'[l] = [wire[l] EXCEPT ![p] = w]
    BY <1>1, <2>2
  <2>4. wire[l] \in [Peer -> Seq(Message \cup {NoMessage})]
    BY <1>1
  <2>5. wire'[l][p] = w /\ (r # p => wire'[l][r] = wire[l][r])
    BY <2>3, <2>4
  <2>6. CASE r = p
    <3>1. events'[p] = Append(events[p], LinkEvent("message", l, Head(wire[l][p])))
      BY <1>1, <2>2
    <3>2. \A k \in Links : k # l => wire'[k][p] = wire[k][p]
      BY <2>3
    <3>3. QED
      BY <1>2, <2>1, <2>2, <2>5, <2>6, <3>1, <3>2, ReceivePasses
  <2>7. CASE r # p
    <3>1. events'[r] = events[r]
      BY <1>1, <2>2, <2>7
    <3>2. \A k \in Links : wire'[k][r] = wire[k][r]
      BY <2>3, <2>5, <2>7
    <3>3. EventsThin(r) /\ \A k \in Links : WireThins(r, k)
      BY <3>1, <3>2 DEF EventsThin, WireThins, Rest
    <3>4. QED
      BY <1>2, <1>3, <3>3, LosesPasses
  <2>8. QED
    BY <2>6, <2>7
<1>6. QED
  BY <1>4, <1>5 DEF LinkTask

LEMMA HandsSend ==
    ASSUME Typed, NEW p \in Peer, NEW r \in Peer, SendOnLink(p)
    PROVE  Passes(r) \/ Puts(p)
<1>1. PICK m, k, l : m = sending[p] /\ k = AfterSend(link[p]) /\ l = link[p].id
  OBVIOUS
<1>2. inbox \in [Peer -> Seq(Item)] /\ m \in Message /\ link[p] \in Link /\ p \notin gone
  BY <1>1, Known DEF SendOnLink, Typed, TypeOK
<1>3. /\ UNCHANGED <<events, shown, sent, gone, commands>>
      /\ sending' = [sending EXCEPT ![p] = NoMessage]
  BY DEF SendOnLink, uiVars
<1>4. CASE /\ k # NoLink
           /\ link' = [link EXCEPT ![p] = k]
           /\ wire' = [wire EXCEPT ![l][Other(p)] = Append(@, m)]
           /\ carried' = [carried EXCEPT ![p] = @ \cup {m}]
           /\ inbox' = [inbox EXCEPT ![p] = Append(@, Chat(m, StatusOf(k)))]
           /\ UNCHANGED told
  <2>1. k \in Link /\ k.id = l
    BY <1>1, <1>2, <1>4, SendFacts
  <2>2. StatusOf(k) \in Status
    BY <2>1, Values
  <2>3. QED
    BY <1>1, <1>2, <1>3, <1>4, <2>1, <2>2 DEF Puts
<1>5. CASE wire' = wire /\ inbox' = [inbox EXCEPT ![p] = Append(@, Notice("error"))]
  <2>1. inbox'[r] = inbox[r] \/ inbox'[r] = Append(inbox[r], Notice("error"))
    BY <1>2, <1>5
  <2>2. InboxThins(r)
    BY <2>1, Notices DEF InboxThins, Rest, More
  <2>3. EventsThin(r) /\ \A h \in Links : WireThins(r, h)
    BY <1>3, <1>5 DEF EventsThin, WireThins, Rest
  <2>4. QED
    BY <1>3, <2>2, <2>3, LosesPasses
<1>6. QED
  BY <1>1, <1>4, <1>5 DEF SendOnLink, Fail

LEMMA PutsGains ==
    ASSUME Typed, NEW a \in Peer, Puts(a), NEW p \in Peer
    PROVE  Gains(p, a)
<1>1. PICK x, l : x = sending[a] /\ l = link[a].id
  OBVIOUS
<1>2. x \in Message /\ l \in Links
  BY <1>1, Values DEF Puts
<1>3. events' = events /\ shown' = shown
  BY DEF Puts
<1>4. inbox \in [Peer -> Seq(Item)] /\ wire \in [Links -> [Peer -> Seq(Message \cup {NoMessage})]]
  BY DEF Typed, TypeOK
<1>5. Other(a) \in Peer /\ Other(a) # a /\ (p = a \/ p = Other(a))
  BY Pair
<1>6. PICK w : w = Append(wire[l][Other(a)], x)
  OBVIOUS
<1>7. wire' = [wire EXCEPT ![l][Other(a)] = w]
  BY <1>1, <1>6 DEF Puts
<1>8. (\A k \in Links : k # l => wire'[k] = wire[k]) /\ wire'[l] = [wire[l] EXCEPT ![Other(a)] = w]
  BY <1>2, <1>4, <1>7
<1>9. wire[l] \in [Peer -> Seq(Message \cup {NoMessage})]
  BY <1>2, <1>4
\* its own terminal
<1>10. CASE p = a
  <2>1. \A k \in Links : wire'[k][p] = wire[k][p]
    <3>1. wire'[l][p] = wire[l][p]
      BY <1>5, <1>8, <1>9, <1>10
    <3>2. QED
      BY <1>8, <3>1
  <2>2. PICK status \in Status : inbox' = [inbox EXCEPT ![a] = Append(@, Chat(x, status))]
    BY <1>1 DEF Puts
  <2>3. PICK c \in NamedItem : c = Chat(x, status) /\ c.type = "chat" /\ c.msg = x
    BY <1>2, Values
  <2>4. PICK s \in Seq(NamedItem) : s = inbox[p]
    BY Known
  <2>5. inbox'[p] = Append(s, c)
    BY <1>4, <1>10, <2>2, <2>3, <2>4
  <2>6. \A m \in Message : c \in Chats(m) <=> m = x
    BY <2>3 DEF Chats
  <2>7. ASSUME NEW m \in Message
        PROVE  /\ Listed(p, m)' <=> Listed(p, m) \/ m = x
               /\ (Seen(p, m)' <=> Seen(p, m)) /\ (Queued(p, m)' <=> Queued(p, m))
               /\ \A k \in Links : Wired(p, k, m)' <=> Wired(p, k, m)
               /\ Far(p, m)' <=> Far(p, m)
    <3>1. Has(Append(s, c), Chats(m)) <=> Has(s, Chats(m)) \/ m = x
      BY <2>6, AppendOrder
    <3>2. Listed(p, m)' <=> Listed(p, m) \/ m = x
      BY <2>4, <2>5, <3>1 DEF Listed
    <3>3. /\ (Seen(p, m)' <=> Seen(p, m)) /\ (Queued(p, m)' <=> Queued(p, m))
          /\ \A k \in Links : Wired(p, k, m)' <=> Wired(p, k, m)
      BY <1>3, <2>1 DEF Seen, Queued, Wired
    <3>4. QED
      BY <3>2, <3>3 DEF Far
  <2>8. ASSUME NEW m \in Message, NEW n \in Message
        PROVE  Prior(p, m, n)' => Prior(p, m, n) \/ (n = x /\ Here(p, m)) \/ (m = x /\ Far(p, n))
    <3>1. Order(Append(s, c), Chats(m), Chats(n)) <=> Order(s, Chats(m), Chats(n)) \/ (Has(s, Chats(m)) /\ n = x)
      BY <2>6, AppendOrder
    <3>2. Order(inbox'[p], Chats(m), Chats(n)) => Order(inbox[p], Chats(m), Chats(n)) \/ (Listed(p, m) /\ n = x)
      BY <2>4, <2>5, <3>1 DEF Listed
    <3>3. QED
      BY <1>3, <2>1, <2>7, <3>2 DEF Prior, Here, Near
  <2>9. QED
    BY <1>1, <1>10, <2>7, <2>8 DEF Gains, Near
\* the other's wire
<1>11. CASE p = Other(a)
  <2>1. inbox'[p] = inbox[p]
    BY <1>4, <1>5, <1>11 DEF Puts
  <2>2. PICK S, s : S = Message \cup {NoMessage} /\ s = wire[l][p]
    OBVIOUS
  <2>3. s \in Seq(S) /\ x \in S
    BY <1>2, <1>9, <2>2
  <2>4. wire'[l][p] = Append(s, x)
    BY <1>5, <1>6, <1>8, <1>9, <1>11, <2>2
  <2>5. \A k \in Links : k # l => wire'[k][p] = wire[k][p]
    BY <1>8
  <2>6. ASSUME NEW m \in Message
        PROVE  /\ Wired(p, l, m)' <=> Wired(p, l, m) \/ m = x
               /\ \A k \in Links : k # l => (Wired(p, k, m)' <=> Wired(p, k, m))
               /\ (Seen(p, m)' <=> Seen(p, m)) /\ (Queued(p, m)' <=> Queued(p, m))
               /\ Listed(p, m)' <=> Listed(p, m)
    <3>1. Has(Append(s, x), {m}) <=> Has(s, {m}) \/ x \in {m}
      BY <2>3, AppendOrder
    <3>2. Wired(p, l, m)' <=> Wired(p, l, m) \/ m = x
      BY <2>2, <2>4, <3>1 DEF Wired
    <3>3. QED
      BY <1>3, <2>1, <2>5, <3>2 DEF Seen, Queued, Wired, Listed
  <2>7. \A m \in Message : /\ Far(p, m)' => Far(p, m) \/ m = x
                           /\ \A k \in Links : Wired(p, k, m)' => Wired(p, k, m) \/ m = x
    BY <2>6 DEF Far
  <2>8. ASSUME NEW m \in Message, NEW n \in Message
        PROVE  Prior(p, m, n)' => Prior(p, m, n) \/ (n = x /\ Here(p, m))
    <3>1. Order(Append(s, x), {m}, {n}) <=> Order(s, {m}, {n}) \/ (Has(s, {m}) /\ x \in {n})
      BY <2>3, AppendOrder
    <3>2. Order(wire'[l][p], {m}, {n}) => Order(wire[l][p], {m}, {n}) \/ (Wired(p, l, m) /\ n = x)
      BY <2>2, <2>4, <3>1 DEF Wired
    <3>3. CASE \/ Order(shown'[p], {m}, {n}) \/ Order(inbox'[p], Chats(m), Chats(n))
               \/ Order(events'[p], Posts(m), Posts(n))
      BY <1>3, <2>1, <3>3 DEF Prior
    <3>4. ASSUME NEW k \in Links, Order(wire'[k][p], {m}, {n}) PROVE Prior(p, m, n) \/ (n = x /\ Here(p, m))
      <4>1. CASE k = l
        BY <1>2, <3>2, <3>4, <4>1 DEF Prior, Here, Far
      <4>2. CASE k # l
        BY <2>5, <3>4, <4>2 DEF Prior
      <4>3. QED
        BY <4>1, <4>2
    <3>5. CASE (Seen(p, m)' /\ (Listed(p, n)' \/ Far(p, n)')) \/ (Listed(p, m)' /\ Far(p, n)')
      BY <2>6, <2>7, <3>5 DEF Prior, Here, Near
    <3>6. CASE Queued(p, m)' /\ \E k \in Links : Wired(p, k, n)'
      BY <2>6, <2>7, <3>6 DEF Prior, Here, Far
    <3>7. QED
      BY <3>3, <3>4, <3>5, <3>6 DEF Prior
  <2>9. /\ \A m \in Message : Near(p, m)' => Near(p, m)
        /\ \A m \in Message, k \in Links : Wired(p, k, m)' => Wired(p, k, m) \/ (m = x /\ k = l)
    BY <2>6 DEF Near
  <2>10. QED
    BY <1>1, <1>5, <1>11, <2>7, <2>8, <2>9 DEF Gains
<1>12. QED
  BY <1>5, <1>10, <1>11

LEMMA Hands ==
    ASSUME Typed, [Next]_vars, NEW r \in Peer
    PROVE  Passes(r) \/ \E a \in Peer : Puts(a) /\ Gains(r, a)
<1>1. CASE UNCHANGED vars
  BY <1>1, LosesPasses DEF vars, netVars, uiVars, InboxThins, EventsThin, WireThins, Rest
<1>2. ASSUME NEW p \in Peer, Acts(p) PROVE Passes(r) \/ Puts(p)
  BY <1>2, HandsNotices, HandsRead, HandsLeave, HandsEvents, HandsTask, HandsSend DEF Acts, Hub
<1>3. QED
  BY <1>1, <1>2, PutsGains DEF Next, Acts

\* What a hub put on its present link stays there, or its author is told.
LEMMA CarriedStep ==
    ASSUME Typed, [Next]_vars, NEW r \in Peer, r \notin gone'
    PROVE  \/ link'[r].id = link[r].id /\ carried[r] \subseteq carried'[r]
           \/ link[r] = NoLink
           \/ carried[r] \subseteq told'
<1>1. CASE UNCHANGED vars
  BY <1>1 DEF vars
<1>2. ASSUME NEW p \in Peer, Acts(p), p # r
      PROVE  link'[r] = link[r] /\ carried'[r] = carried[r]
  BY <1>2, Apart
<1>3. ASSUME Acts(r)
      PROVE  \/ link'[r].id = link[r].id /\ carried[r] \subseteq carried'[r]
             \/ link[r] = NoLink
             \/ carried[r] \subseteq told'
  <2>1. /\ link \in [Peer -> Link \cup {NoLink}] /\ carried \in [Peer -> SUBSET Message]
        /\ sending[r] \in Message \cup {NoMessage}
    BY DEF Typed, TypeOK
  <2>2. CASE \/ OpenView(r) \/ ReadInbox(r) \/ (\E x \in Message : UserSends(r, x)) \/ LearnPeer(r) \/ ForgetPeer(r)
             \/ TakeSend(r) \/ DialFails(r) \/ \E l \in Links : LinkTask(r, l)
    BY <2>2 DEF OpenView, ReadInbox, UserSends, LearnPeer, ForgetPeer, TakeSend, DialFails, LinkTask, Accept,
       RefuseHello, LinkReceives, LinkEnds
  <2>3. CASE Leave(r)
    BY <2>3 DEF Leave
  <2>4. CASE DialSucceeds(r)
    BY <2>4 DEF DialSucceeds
  <2>5. CASE SendOnLink(r)
    <3>1. CASE link' = link /\ carried' = carried
      BY <3>1
    <3>2. CASE told' = told \cup {sending[r]} \cup carried[r]
      BY <3>2
    <3>3. CASE /\ AfterSend(link[r]) # NoLink /\ link' = [link EXCEPT ![r] = AfterSend(link[r])]
               /\ carried' = [carried EXCEPT ![r] = @ \cup {sending[r]}]
      <4>1. link[r] \in Link
        BY <2>1, <2>5 DEF SendOnLink
      <4>2. link'[r].id = link[r].id
        BY <2>1, <3>3, <4>1, SendFacts
      <4>3. QED
        BY <2>1, <3>3, <4>2
    <3>4. QED
      BY <2>5, <3>1, <3>2, <3>3 DEF SendOnLink, Fail
  <2>6. CASE PeerLeft(r)
    BY <2>1, <2>6 DEF PeerLeft, CloseLink
  <2>7. CASE HubConnected(r)
    BY <2>1, <2>7 DEF HubConnected
  <2>8. CASE HubDisconnected(r)
    BY <2>1, <2>8 DEF HubDisconnected, CloseLink
  <2>9. CASE HubMessage(r)
    <3>1. carried' = carried
      BY <2>9 DEF HubMessage
    <3>2. CASE link' = link
      BY <3>1, <3>2
    <3>3. CASE link' # link
      <4>1. AfterMessage(link[r]) # NoLink /\ link'[r] = AfterMessage(link[r])
        BY <2>1, <2>9, <3>3 DEF HubMessage
      <4>2. CASE link[r] = NoLink
        BY <4>2
      <4>3. CASE link[r] # NoLink
        BY <2>1, <3>1, <4>1, <4>3, MessageFacts
      <4>4. QED
        BY <4>2, <4>3
    <3>4. QED
      BY <3>2, <3>3
  <2>10. QED
    BY <1>3, <2>2, <2>3, <2>4, <2>5, <2>6, <2>7, <2>8, <2>9 DEF Acts, Hub
<1>4. QED
  BY <1>1, <1>2, <1>3 DEF Next, Acts

LEMMA PresentStep ==
    ASSUME Typed, [Next]_vars, NEW p \in Peer, PresentLink(p)
    PROVE  PresentLink(p)'
<1>1. PICK q \in Peer : q = Other(p) /\ q # p /\ \A r \in Peer : r = p \/ r = q
  BY Pair
<1>2. told \subseteq told' /\ gone \subseteq gone'
  BY ToldGrows
<1>3. ASSUME NEW l \in Links, NEW m \in Message, m \notin told, Wired(p, l, m)
      PROVE  /\ q \notin gone => link[q].id = l /\ m \in carried[q]
             /\ \A k \in Links, n \in Message : n \notin told /\ Wired(p, k, n) => k = l
  BY <1>1, <1>3 DEF PresentLink
\* what is new on a wire goes on the present link
<1>4. PICK fresh \in SUBSET (Links \X Message) :
         /\ \A l \in Links, m \in Message : Wired(p, l, m)' => Wired(p, l, m) \/ <<l, m>> \in fresh
         /\ \A l \in Links, m \in Message : <<l, m>> \in fresh =>
               /\ q \notin gone /\ l = link[q].id
               /\ link'[q].id = l /\ m \in carried'[q]
  <2>1. CASE Passes(p)
    <3>1. \A l \in Links, m \in Message : Wired(p, l, m)' => Wired(p, l, m)
      BY <2>1 DEF Passes
    <3>2. {} \in SUBSET (Links \X Message)
      OBVIOUS
    <3>3. QED
      BY <3>1, <3>2
  <2>2. ASSUME NEW a \in Peer, Puts(a), Gains(p, a)
        PROVE  \E f \in SUBSET (Links \X Message) :
                  /\ \A l \in Links, m \in Message : Wired(p, l, m)' => Wired(p, l, m) \/ <<l, m>> \in f
                  /\ \A l \in Links, m \in Message : <<l, m>> \in f =>
                        /\ q \notin gone /\ l = link[q].id
                        /\ link'[q].id = l /\ m \in carried'[q]
    <3>1. PICK f \in SUBSET (Links \X Message) :
             \A l \in Links, m \in Message : <<l, m>> \in f <=> m = sending[a] /\ p # a /\ l = link[a].id
      <4>1. PICK f : f = {y \in Links \X Message : y[2] = sending[a] /\ p # a /\ y[1] = link[a].id}
        OBVIOUS
      <4>2. f \in SUBSET (Links \X Message)
        BY <4>1
      <4>3. \A l \in Links, m \in Message : <<l, m>> \in f <=> m = sending[a] /\ p # a /\ l = link[a].id
        BY <4>1
      <4>4. QED
        BY <4>2, <4>3
    <3>2. \A l \in Links, m \in Message : Wired(p, l, m)' => Wired(p, l, m) \/ <<l, m>> \in f
      BY <2>2, <3>1 DEF Gains
    <3>3. a \notin gone /\ link'[a].id = link[a].id /\ sending[a] \in carried'[a]
      BY <2>2 DEF Puts, Typed, TypeOK
    <3>4. \A l \in Links, m \in Message : <<l, m>> \in f =>
             /\ q \notin gone /\ l = link[q].id
             /\ link'[q].id = l /\ m \in carried'[q]
      BY <1>1, <3>1, <3>3
    <3>5. QED
      BY <3>2, <3>4
  <2>3. QED
    BY <2>1, <2>2, Hands
<1>5. ASSUME NEW l \in Links, NEW m \in Message, m \notin told', Wired(p, l, m)'
      PROVE  /\ q \notin gone' => link'[q].id = l /\ m \in carried'[q]
             /\ \A k \in Links, n \in Message : n \notin told' /\ Wired(p, k, n)' => k = l
  <2>1. ASSUME q \notin gone' PROVE link'[q].id = l /\ m \in carried'[q]
    <3>1. CASE <<l, m>> \in fresh
      BY <1>4, <3>1
    <3>2. CASE Wired(p, l, m)
      <4>1. link[q].id = l /\ m \in carried[q]
        BY <1>2, <1>3, <1>5, <2>1, <3>2
      <4>2. link[q] # NoLink
        BY <4>1, Numbers
      <4>3. QED
        BY <1>5, <2>1, <4>1, <4>2, CarriedStep
    <3>3. QED
      BY <1>4, <1>5, <3>1, <3>2
  <2>2. ASSUME NEW k \in Links, NEW n \in Message, n \notin told', Wired(p, k, n)'
        PROVE  k = l
    <3>1. m \notin told /\ n \notin told
      BY <1>2, <1>5, <2>2
    <3>2. (Wired(p, l, m) \/ <<l, m>> \in fresh) /\ (Wired(p, k, n) \/ <<k, n>> \in fresh)
      BY <1>4, <1>5, <2>2
    <3>3. (<<l, m>> \in fresh => q \notin gone /\ l = link[q].id) /\ (<<k, n>> \in fresh => q \notin gone /\ k = link[q].id)
      BY <1>4
    <3>4. QED
      BY <1>3, <3>1, <3>2, <3>3
  <2>3. QED
    BY <2>1, <2>2
<1>6. QED
  BY <1>1, <1>5 DEF PresentLink

LEMMA FlowStep == Typed /\ Flow /\ [Next]_vars => Flow'
<1>1. SUFFICES ASSUME Typed, Flow, [Next]_vars PROVE Flow'
  OBVIOUS
<1>2. Distinct /\ InTurn /\ Distinct'
  BY <1>1, DistinctStep DEF Flow
<1>3. InTurn'
  BY <1>1, <1>2, InTurnStep DEF InTurn
<1>4. ASSUME NEW p \in Peer
      PROVE  Authored(p)' /\ Once(p)' /\ Sorted(p)' /\ PresentLink(p)'
  <2>1. Authored(p) /\ Once(p) /\ Sorted(p) /\ PresentLink(p)
    BY <1>1 DEF Flow
  <2>2. CASE Passes(p)
    BY <1>1, <1>2, <2>1, <2>2, FlowPasses, PresentStep
  <2>3. ASSUME NEW a \in Peer, Puts(a), Gains(p, a)
        PROVE  Authored(p)' /\ Once(p)' /\ Sorted(p)' /\ PresentLink(p)'
    BY <1>1, <1>2, <2>1, <2>3, FlowGains, PresentStep
  <2>4. QED
    BY <1>1, <2>2, <2>3, Hands
<1>5. QED
  BY <1>2, <1>3, <1>4 DEF Flow

LEMMA FlowInit == Init => Flow
<1>1. SUFFICES ASSUME Init PROVE Flow
  OBVIOUS
<1>2. \A p \in Peer : /\ sent[p] = <<>> /\ commands[p] = <<>> /\ sending[p] = NoMessage
                      /\ shown[p] = <<>> /\ inbox[p] = <<>> /\ events[p] = <<>>
                      /\ \A l \in Links : wire[l][p] = <<>>
  BY <1>1 DEF Init
<1>3. ASSUME NEW a \in Peer, NEW m \in Message, NEW n \in Message
      PROVE  ~Wrote(a, m, n) /\ ~Has(sent[a], {m}) /\ ~Has(commands[a], {m}) /\ m # sending[a]
             /\ ~Handled(a, m) /\ ~Turn(a, m, n)
  <2>1. ~Wrote(a, m, n) /\ ~Has(sent[a], {m}) /\ ~Has(commands[a], {m}) /\ ~Has(commands[a], {n})
        /\ ~Order(commands[a], {m}, {n})
    BY <1>2, HasOrder DEF Wrote
  <2>2. m # sending[a]
    BY <1>2, Values
  <2>3. QED
    BY <2>1, <2>2 DEF Handled, Turn
<1>4. ASSUME NEW p \in Peer, NEW m \in Message, NEW n \in Message
      PROVE  /\ ~Far(p, m) /\ ~Near(p, m) /\ ~Prior(p, m, n)
             /\ \A l \in Links : ~Wired(p, l, m)
  <2>1. /\ ~Seen(p, m) /\ ~Listed(p, m) /\ ~Queued(p, m)
        /\ \A l \in Links : ~Wired(p, l, m)
    BY <1>2, HasOrder DEF Seen, Listed, Queued, Wired
  <2>2. ~Far(p, m) /\ ~Near(p, m)
    BY <2>1 DEF Far, Near
  <2>3. QED
    BY <2>1, <2>2, PriorHere DEF Here
<1>5. Distinct /\ InTurn
  BY <1>3, Pair DEF Distinct, InTurn
<1>6. \A p \in Peer : Authored(p) /\ Once(p) /\ Sorted(p) /\ PresentLink(p)
  BY <1>4 DEF Authored, Once, Sorted, PresentLink
<1>7. QED
  BY <1>5, <1>6 DEF Flow

LEMMA FlowOrders == Typed /\ Flow => AuthorOrder
<1>1. SUFFICES ASSUME Typed, Flow, NEW p \in Peer, NEW a \in Peer,
                      NEW i \in 1..Len(shown[p]), NEW j \in 1..Len(shown[p]), i < j,
                      {shown[p][i], shown[p][j]} \subseteq Items(sent[a])
               PROVE  \/ Place(a, shown[p][i]) < Place(a, shown[p][j])
                      \/ shown[p][i] # shown[p][j] /\ {shown[p][i], shown[p][j]} \cap told # {}
  BY DEF AuthorOrder
<1>2. PICK m, n : m = shown[p][i] /\ n = shown[p][j]
  OBVIOUS
<1>3. m \in Message /\ n \in Message /\ Has(sent[a], {m}) /\ Has(sent[a], {n})
  <2>1. shown[p] \in Seq(Message)
    BY <1>1, Known
  <2>2. m \in Message /\ n \in Message
    BY <1>2, <2>1
  <2>3. QED
    BY <1>1, <1>2, <2>2 DEF Items, Has
<1>4. Prior(p, m, n)
  BY <1>1, <1>2 DEF Prior, Order
<1>5. m # n
  BY <1>1, <1>3, <1>4 DEF Flow, Once
<1>6. CASE a # p /\ {m, n} \cap told # {}
  BY <1>2, <1>5, <1>6
<1>7. CASE a = p \/ {m, n} \cap told = {}
  <2>1. Wrote(a, m, n)
    BY <1>1, <1>3, <1>4, <1>7 DEF Flow, Sorted
  <2>2. PICK c \in Nat : c = Len(sent[a])
    <3>1. sent[a] \in Seq(Message)
      BY <1>1, Known
    <3>2. QED
      BY <3>1, Seqs
  <2>3. PICK d \in 1..c, e \in 1..c : d < e /\ sent[a][d] = m /\ sent[a][e] = n
    BY <2>1, <2>2 DEF Wrote, Order
  <2>4. ASSUME NEW x \in Message, NEW f \in 1..c, sent[a][f] = x
        PROVE  Place(a, x) = f
    <3>1. \A g, h \in 1..c : g < h => ~(sent[a][g] = x /\ sent[a][h] = x)
      BY <1>1, <2>2 DEF Flow, Distinct, Wrote, Order
    <3>2. Place(a, x) \in 1..c /\ sent[a][Place(a, x)] = x
      BY <2>2, <2>4 DEF Place
    <3>3. QED
      BY <2>2, <2>4, <3>1, <3>2
  <2>5. Place(a, m) = d /\ Place(a, n) = e
    BY <1>3, <2>3, <2>4
  <2>6. QED
    BY <1>2, <2>3, <2>5
<1>8. QED
  BY <1>6, <1>7

\* Each terminal shows no message twice, and those of one author in the order in which they
\* were written, over broken links and new ones, but for messages whose author was told that
\* they failed or that the conversation closed (direct.rs: run_direct_hub, link_io).
THEOREM AuthorOrderCorrect == Spec => []AuthorOrder
<1>1. Init => Typed /\ Flow
  BY TypeInit, FlowInit
<1>2. Typed /\ Flow /\ [Next]_vars => (Typed /\ Flow)'
  BY TypeStep, FlowStep
<1>3. Typed /\ Flow => AuthorOrder
  BY FlowOrders
<1>4. QED
  BY <1>1, <1>2, <1>3, PTL DEF Spec

================================================================================
