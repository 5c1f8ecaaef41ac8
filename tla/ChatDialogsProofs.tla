-------------------------- MODULE ChatDialogsProofs --------------------------
EXTENDS ChatDialogs, FiniteSetTheorems, SequenceTheorems, TLAPS

-----------------------------------------------------------------------------
(* Lists of rows *)

\* Counting those up to each gives everyone a place, and the places are 1 and on.
LEMMA SortedList ==
    ASSUME NEW S \in SUBSET Nat, IsFiniteSet(S)
    PROVE  /\ Cardinality(S) \in Nat
           /\ Sorted(S) \in [1..Cardinality(S) -> S]
           /\ S = {Sorted(S)[i] : i \in 1..Cardinality(S)}
           /\ \A i, j \in 1..Cardinality(S) : i < j => Sorted(S)[i] < Sorted(S)[j]
<1> DEFINE n == Cardinality(S)
           UpTo(x) == {y \in S : y <= x}
           place == [x \in S |-> Cardinality(UpTo(x))]
<1>1. n \in Nat
  BY FS_CardinalityType
<1>2. ASSUME NEW x \in S
      PROVE  /\ IsFiniteSet(UpTo(x)) /\ Cardinality(UpTo(x)) \in 1..n
  <2>1. UpTo(x) \in SUBSET S /\ x \in UpTo(x)
    OBVIOUS
  <2>2. IsFiniteSet(UpTo(x)) /\ Cardinality(UpTo(x)) <= n
    BY <2>1, FS_Subset
  <2>3. Cardinality(UpTo(x)) \in Nat /\ Cardinality(UpTo(x)) # 0
    BY <2>1, <2>2, FS_CardinalityType, FS_EmptySet
  <2>4. QED
    BY <1>1, <2>2, <2>3
<1>3. ASSUME NEW x \in S, NEW y \in S, x < y
      PROVE  Cardinality(UpTo(x)) < Cardinality(UpTo(y))
  <2>1. UpTo(x) \in SUBSET UpTo(y) /\ y \in UpTo(y) /\ y \notin UpTo(x)
    <3>1. x \in Nat /\ y \in Nat /\ x < y /\ ~(y <= x)
      BY <1>3
    <3>2. \A z \in S : z <= x => z <= y
      BY <3>1
    <3>3. UpTo(x) \subseteq UpTo(y)
      BY <3>2
    <3>4. y <= y
      BY <3>1
    <3>5. QED
      BY <3>1, <3>3, <3>4
  <2>2. Cardinality(UpTo(x)) <= Cardinality(UpTo(y)) /\ Cardinality(UpTo(x)) # Cardinality(UpTo(y))
    BY <1>2, <2>1, FS_Subset
  <2>3. QED
    BY <1>1, <1>2, <2>2
<1>4. place \in [S -> 1..n]
  BY <1>2
<1>5. place \in Injection(S, 1..n)
  <2>1. ASSUME NEW x \in S, NEW y \in S, place[x] = place[y] PROVE x = y
    <3>1. x \in Nat /\ y \in Nat /\ ~(x < y) /\ ~(y < x)
      BY <1>1, <1>2, <1>3, <2>1
    <3>2. QED
      BY <3>1
  <2>2. QED
    BY <1>4, <2>1 DEF Injection, IsInjective
<1>6. place \in Surjection(S, 1..n)
  <2>1. IsFiniteSet(1..n) /\ Cardinality(1..n) = n
    BY <1>1, FS_Interval
  <2>2. QED
    BY <1>5, <2>1, FS_Injection
<1>7. \A i \in 1..n : \E x \in S : place[x] = i
  BY <1>6 DEF Surjection
<1> DEFINE list == [i \in 1..n |-> CHOOSE x \in S : place[x] = i]
<1>8. \A i \in 1..n : list[i] \in S /\ place[list[i]] = i
  BY <1>7
<1>9. list \in [1..n -> S]
  BY <1>8
<1>a. \A x, y \in S : x < y => place[x] < place[y]
  BY <1>3
<1> HIDE DEF list, place
<1>10. \A i, j \in DOMAIN list : i < j => list[i] < list[j]
  <2>1. SUFFICES ASSUME NEW i \in 1..n, NEW j \in 1..n, i < j PROVE list[i] < list[j]
    BY <1>9 DEF list
  <2>2. place[list[i]] = i /\ place[list[j]] = j /\ list[i] \in S /\ list[j] \in S
    BY <1>8, <2>1
  <2>a. list[j] < list[i] => j < i
    <3>1. ASSUME list[j] < list[i] PROVE place[list[j]] < place[list[i]]
      BY <1>a, <2>2, <3>1
    <3>2. QED
      BY <2>2, <3>1
  <2>b. i \in Nat /\ j \in Nat /\ i < j
    BY <1>1, <2>1
  <2>3. list[i] # list[j] /\ ~(list[j] < list[i])
    BY <2>2, <2>a, <2>b
  <2>4. list[i] \in Nat /\ list[j] \in Nat
    BY <2>2
  <2>5. QED
    BY <2>3, <2>4
<1>11. /\ Sorted(S) \in [1..n -> S]
       /\ \A i, j \in DOMAIN Sorted(S) : i < j => Sorted(S)[i] < Sorted(S)[j]
  BY <1>9, <1>10 DEF Sorted
<1>12. \A x \in S : \E i \in 1..n : Sorted(S)[i] = x
  <2>1. Sorted(S) \in Injection(1..n, S)
    <3>1. ASSUME NEW i \in 1..n, NEW j \in 1..n, Sorted(S)[i] = Sorted(S)[j] PROVE i = j
      <4>a. DOMAIN Sorted(S) = 1..n /\ Sorted(S)[i] \in Nat /\ Sorted(S)[j] \in Nat
        BY <1>11
      <4>1. ~(i < j) /\ ~(j < i)
        BY <1>11, <3>1, <4>a
      <4>2. QED
        BY <1>1, <4>1
    <3>2. QED
      BY <1>11, <3>1 DEF Injection, IsInjective
  <2>2. IsFiniteSet(1..n) /\ Cardinality(1..n) = n
    BY <1>1, FS_Interval
  <2>3. Sorted(S) \in Surjection(1..n, S)
    BY <2>1, <2>2, FS_Injection
  <2>4. QED
    BY <2>3 DEF Surjection
<1>13. QED
  BY <1>1, <1>11, <1>12

\* The rows of a list are one for everyone whom it lists.
LEMMA RowsAre ==
    ASSUME NEW S \in SUBSET Id, NEW on
    PROVE  Rows(S, on) \in Seq(Entry) /\ Ids(Rows(S, on)) = S
<1> DEFINE first == Sorted(S \cap on)
           rest == Sorted(S \ on)
           m == Cardinality(S \cap on)
           n == Cardinality(S \ on)
           both == first \o rest
<1>1. S \in SUBSET Nat /\ IsFiniteSet(S)
  <2>1. Id \in SUBSET Nat /\ IsFiniteSet(Id)
    BY DialogsAssumption, FS_Union DEF Id
  <2>2. QED
    BY <2>1, FS_Subset
<1>2. /\ S \cap on \in SUBSET Nat /\ IsFiniteSet(S \cap on)
      /\ S \ on \in SUBSET Nat /\ IsFiniteSet(S \ on)
  <2>1. S \cap on \in SUBSET S /\ S \ on \in SUBSET S
    OBVIOUS
  <2>2. QED
    BY <1>1, <2>1, FS_Subset
<1>3. /\ m \in Nat /\ first \in [1..m -> S \cap on] /\ S \cap on = {first[i] : i \in 1..m}
      /\ n \in Nat /\ rest \in [1..n -> S \ on] /\ S \ on = {rest[i] : i \in 1..n}
  BY <1>2, SortedList
<1> HIDE DEF first, rest, m, n
<1>4. Cardinality(S) = m + n
  <2>1. n = Cardinality(S) - m
    BY <1>1, FS_Difference DEF m, n
  <2>2. Cardinality(S) \in Nat
    BY <1>1, FS_CardinalityType
  <2>3. QED
    BY <1>3, <2>1, <2>2
<1>5. /\ first \in Seq(S) /\ Len(first) = m
      /\ rest \in Seq(S) /\ Len(rest) = n
  <2>1. first \in [1..m -> S] /\ rest \in [1..n -> S]
    BY <1>3
  <2>2. QED
    BY <1>3, <2>1
<1>6. /\ both \in Seq(S) /\ Len(both) = m + n
      /\ \A i \in 1..(m + n) : both[i] \in S
      /\ \A i \in 1..m : both[i] = first[i]
      /\ \A i \in 1..n : both[m + i] = rest[i]
  <2>1. both \in Seq(S) /\ Len(both) = m + n
    BY <1>3, <1>5
  <2>2. \A i \in 1..(m + n) : both[i] \in S
    BY <2>1
  <2>3. QED
    BY <1>3, <1>5, <2>1, <2>2
<1>7. Rows(S, on) = [i \in 1..(m + n) |-> [id |-> both[i], on |-> both[i] \in on]]
  BY <1>4 DEF Rows, first, rest
<1> HIDE DEF both
<1>8. Rows(S, on) \in Seq(Entry) /\ DOMAIN Rows(S, on) = 1..(m + n)
  <2>1. \A i \in 1..(m + n) : [id |-> both[i], on |-> both[i] \in on] \in Entry
    BY <1>6 DEF Entry
  <2>2. Rows(S, on) \in [1..(m + n) -> Entry]
    BY <1>7, <2>1
  <2>3. m + n \in Nat
    BY <1>3
  <2>4. QED
    BY <2>2, <2>3
<1>9. \A i \in 1..(m + n) : Rows(S, on)[i].id = both[i]
  BY <1>7
<1>10. \A x \in S : \E i \in 1..(m + n) : both[i] = x
  <2>1. ASSUME NEW x \in S, x \in on PROVE \E i \in 1..(m + n) : both[i] = x
    <3>1. PICK i \in 1..m : first[i] = x
      BY <1>3, <2>1
    <3>2. i \in 1..(m + n) /\ both[i] = x
      BY <1>3, <1>6, <3>1
    <3>3. QED
      BY <3>2
  <2>2. ASSUME NEW x \in S, x \notin on PROVE \E i \in 1..(m + n) : both[i] = x
    <3>1. PICK i \in 1..n : rest[i] = x
      BY <1>3, <2>2
    <3>2. m + i \in 1..(m + n) /\ both[m + i] = x
      BY <1>3, <1>6, <3>1
    <3>3. QED
      BY <3>2
  <2>3. QED
    BY <2>1, <2>2
<1>11. Ids(Rows(S, on)) = {both[i] : i \in 1..(m + n)}
  BY <1>8, <1>9 DEF Ids
<1>12. QED
  BY <1>6, <1>8, <1>10, <1>11

\* Tables are those of the type invariant.
Tables == [pending : SUBSET Request, active : SUBSET Member, included : SUBSET Member]

Listed(of, t) ==
    CASE of = "requests" -> t.pending
      [] of = "members" -> Member
      [] of = "room" -> t.active \cup Fixed

LEMMA RowsOfAre ==
    ASSUME NEW of \in Lists, NEW t \in Tables
    PROVE  RowsOf(of, t) \in Seq(Entry) /\ Ids(RowsOf(of, t)) = Listed(of, t)
<1>1. t.pending \in SUBSET Id /\ Member \in SUBSET Id /\ t.active \cup Fixed \in SUBSET Id
  BY DialogsAssumption DEF Tables, Id
<1>2. CASE of = "requests"
  BY <1>1, <1>2, RowsAre DEF RowsOf, PendingJoinRequests, Listed
<1>3. CASE of = "members"
  BY <1>1, <1>3, RowsAre DEF RowsOf, GroupMembers, Listed
<1>4. CASE of = "room"
  BY <1>1, <1>4, RowsAre DEF RowsOf, RoomMembers, Listed
<1>5. QED
  BY <1>2, <1>3, <1>4 DEF Lists

-----------------------------------------------------------------------------
(* Pages *)

\* Who is in the rows after the first m, up to the n-th
RowIds(rows, m, n) == {rows[i].id : i \in {k \in DOMAIN rows : m < k /\ k <= n}}
FirstIds(rows, n) == RowIds(rows, 0, n)

LEMMA SizeType == \A of : SizeOf(of) \in Nat \ {0}
  BY DialogsAssumption DEF SizeOf

LEMMA PageIs ==
    ASSUME NEW of, NEW rows \in Seq(Entry), NEW n \in Nat
    PROVE  /\ Page(of, rows, n) \in Seq(Entry)
           /\ Ids(Page(of, rows, n)) = RowIds(rows, n, n + SizeOf(of))
<1>1. PICK size \in Nat \ {0} : size = SizeOf(of)
  BY SizeType
<1>2. PICK length \in Nat : length = Len(rows) /\ DOMAIN rows = 1..length
  OBVIOUS
<1>3. PICK page : page = Page(of, rows, n)
  OBVIOUS
<1>4. PICK after : after = {k \in DOMAIN rows : n < k /\ k <= n + SizeOf(of)}
  OBVIOUS
<1>5. \A k : k \in after <=> k \in 1..length /\ n < k /\ k <= n + size
  BY <1>1, <1>2, <1>4
<1>6. CASE n >= length
  <2>1. page = <<>>
    BY <1>2, <1>3, <1>6 DEF Page
  <2>2. after = {}
    BY <1>5, <1>6
  <2>3. QED
    BY <1>3, <1>4, <2>1, <2>2 DEF Ids, RowIds
<1>7. CASE ~(n >= length)
  <2>1. PICK last : last = Lesser(length, n + size)
    OBVIOUS
  <2>2. /\ last \in Nat /\ n + 1 <= last /\ last <= length /\ last <= n + size
        /\ \A k \in 1..length : k <= n + size => k <= last
    BY <1>7, <2>1 DEF Lesser
  <2>3. page = SubSeq(rows, n + 1, last)
    BY <1>1, <1>2, <1>3, <1>7, <2>1 DEF Page
  <2>4. /\ page \in Seq(Entry) /\ Len(page) = last - n
        /\ \A i \in 1..(last - n) : page[i] = rows[n + i]
    <3>1. PICK m \in Int : m = n + 1
      OBVIOUS
    <3>2. \A i \in m..last : rows[i] \in Entry
      BY <1>2, <2>2, <3>1
    <3>3. last \in Int
      BY <2>2
    <3>4. /\ SubSeq(rows, m, last) \in Seq(Entry)
          /\ Len(SubSeq(rows, m, last)) = IF m <= last THEN last - m + 1 ELSE 0
          /\ \A i \in 1..(last - m + 1) : SubSeq(rows, m, last)[i] = rows[m + i - 1]
      BY <3>2, <3>3, SubSeqProperties
    <3>5. m <= last /\ last - m + 1 = last - n /\ \A i \in 1..(last - n) : m + i - 1 = n + i
      BY <2>2, <3>1
    <3>6. page = SubSeq(rows, m, last)
      BY <2>3, <3>1
    <3>7. QED
      BY <3>4, <3>5, <3>6
  <2>5. DOMAIN page = 1..(last - n)
    BY <2>2, <2>4
  <2>6. ASSUME NEW i \in DOMAIN page PROVE n + i \in after /\ page[i] = rows[n + i]
    BY <1>5, <2>2, <2>4, <2>5, <2>6
  <2>7. ASSUME NEW k \in after PROVE \E i \in DOMAIN page : page[i] = rows[k]
    <3>a. k \in Nat /\ n < k /\ k <= last
      BY <1>5, <2>2
    <3>1. k - n \in 1..(last - n) /\ n + (k - n) = k
      BY <2>2, <3>a
    <3>2. QED
      BY <2>4, <2>5, <3>1
  <2>8. Ids(page) = {rows[i].id : i \in after}
    BY <2>6, <2>7 DEF Ids
  <2>9. QED
    BY <1>3, <1>4, <2>4, <2>8 DEF RowIds
<1>8. QED
  BY <1>6, <1>7

\* One page after the other, and then everyone
LEMMA PageAfterPage ==
    ASSUME NEW of, NEW rows \in Seq(Entry), NEW n \in Nat
    PROVE  /\ FirstIds(rows, n) \cup Ids(Page(of, rows, n)) = FirstIds(rows, n + SizeOf(of))
           /\ Ids(Page(of, rows, 0)) = FirstIds(rows, 0 + SizeOf(of))
           /\ Len(rows) <= n => FirstIds(rows, n) = Ids(rows)
<1>1. SizeOf(of) \in Nat \ {0} /\ Len(rows) \in Nat /\ DOMAIN rows = 1..Len(rows)
  BY SizeType
<1>2. \A k \in 1..Len(rows) :
           /\ 0 < k
           /\ k <= n + SizeOf(of) <=> k <= n \/ (n < k /\ k <= n + SizeOf(of))
           /\ Len(rows) <= n => k <= n
  BY <1>1
<1>3. RowIds(rows, 0, n) \cup RowIds(rows, n, n + SizeOf(of)) = RowIds(rows, 0, n + SizeOf(of))
  <2>1. {k \in DOMAIN rows : 0 < k /\ k <= n} \cup {k \in DOMAIN rows : n < k /\ k <= n + SizeOf(of)}
          = {k \in DOMAIN rows : 0 < k /\ k <= n + SizeOf(of)}
    BY <1>1, <1>2
  <2>2. QED
    BY <2>1 DEF RowIds
<1>4. Len(rows) <= n => RowIds(rows, 0, n) = Ids(rows)
  <2>1. Len(rows) <= n => {k \in DOMAIN rows : 0 < k /\ k <= n} = DOMAIN rows
    BY <1>1, <1>2
  <2>2. QED
    BY <2>1 DEF RowIds, Ids
<1>5. Ids(Page(of, rows, n)) = RowIds(rows, n, n + SizeOf(of))
  BY PageIs
<1>6. Ids(Page(of, rows, 0)) = RowIds(rows, 0, 0 + SizeOf(of))
  BY PageIs
<1>7. QED
  BY <1>3, <1>4, <1>5, <1>6 DEF FirstIds

-----------------------------------------------------------------------------
(* The inductive invariant *)

\* The last answer or error on its way, if there is one
Answer(event) == event.kind # "rotated"
LastAnswer(events) ==
    {events[i] : i \in {i \in DOMAIN events :
                           /\ Answer(events[i])
                           /\ \A j \in DOMAIN events : i < j => ~Answer(events[j])}}

NoListIn(events) == \A i \in DOMAIN events : events[i].kind # "list"

\* Unless it is stale, the last answer is a list that is true, and so is the list
\* shown when it was the last.
SaysTruth(event, t) ==
    event.kind = "list" /\ event.entries = Page(event.of, RowsOf(event.of, t), event.offset)
Shows(o, t) == o.entries = Page(o.kind, RowsOf(o.kind, t), o.offset)
Fresh ==
    ~stale =>
        /\ \A event \in LastAnswer(down) : SaysTruth(event, tables)
        /\ NoListIn(down) /\ IsList(overlay) /\ ~overlay.loading => Shows(overlay, tables)

\* The walk has been sent the first n rows, and there is more.
Reached(w, t, n) == w.more /\ w.ids = FirstIds(RowsOf(w.of, t), n)
Complete(w, t) == w.of # "requests" /\ ~w.more => w.ids = Ids(RowsOf(w.of, t))

\* The next page is asked for while nothing else is awaited.
IsNext(request) == request.kind = "list" /\ request.next
Alone(requests) ==
    \A i \in DOMAIN requests : IsNext(requests[i]) =>
        /\ requests[i].of # "requests"
        /\ \A j \in DOMAIN requests : j < i => requests[j].kind = "other"

\* The next page goes on where the walk is.
AsksOn(request, w, t) ==
    IsNext(request) /\ request.of = w.of => Reached(w, t, request.offset)
GoesOn(event, w, t) ==
    event.kind = "list" /\ (event.of = w.of /\ event.more => Reached(w, t, event.offset + PageSize))
Walks ==
    walk.of # "requests" =>
        /\ \A i \in DOMAIN up : AsksOn(up[i], walk, tables)
        /\ \A event \in LastAnswer(down) : GoesOn(event, walk, tables)
        /\ NoListIn(down) /\ overlay.kind = walk.of /\ overlay.more
             => Reached(walk, tables, overlay.offset + PageSize)

\* Of the join requests there is one page.
OnePage ==
    /\ \A i \in DOMAIN down : down[i].kind = "list" /\ down[i].of = "requests" => ~down[i].more
    /\ overlay.kind = "requests" => ~overlay.more

ListsInv == CursorInList /\ Complete(walk, tables) /\ Fresh /\ Alone(up) /\ Walks /\ OnePage

-----------------------------------------------------------------------------
(* Requests and events *)

LEMMA RequestFacts ==
    /\ \A r \in Requests :
          /\ r.kind \in {"list", "decide", "rotate", "other"} /\ r.kept \in BOOLEAN
          /\ r.kind = "list" => r.of \in Lists /\ r.offset \in Nat /\ r.next \in BOOLEAN
          /\ r.kind = "decide" => r.of \in Lists /\ r.id \in Id /\ r.on \in BOOLEAN
    /\ \A of \in Lists, offset \in Nat, next, kept \in BOOLEAN :
          [kind |-> "list", of |-> of, offset |-> offset, next |-> next, kept |-> kept] \in Requests
    /\ \A of \in Lists, id \in Id, on, kept \in BOOLEAN :
          [kind |-> "decide", of |-> of, id |-> id, on |-> on, kept |-> kept] \in Requests
    /\ \A kind \in {"rotate", "other"}, kept \in BOOLEAN : [kind |-> kind, kept |-> kept] \in Requests
  BY DEF Requests

LEMMA EventFacts ==
    /\ \A e \in Events :
          /\ e.kind \in {"list", "rotated", "error"} /\ e.kept \in BOOLEAN
          /\ e.kind = "list" => /\ e.of \in Lists /\ e.entries \in Seq(Entry)
                                /\ e.offset \in Nat /\ e.more \in BOOLEAN
          /\ e.kind # "list" => e.to \in {"list", "decide", "rotate", "other"}
    /\ \A of \in Lists, entries \in Seq(Entry), offset \in Nat, more, kept \in BOOLEAN :
          [kind |-> "list", of |-> of, entries |-> entries, offset |-> offset,
           more |-> more, kept |-> kept] \in Events
    /\ \A kind \in {"rotated", "error"}, to \in {"list", "decide", "rotate", "other"}, kept \in BOOLEAN :
          [kind |-> kind, to |-> to, kept |-> kept] \in Events
  BY DEF Events

\* Only kept changes when a dialog goes.
LEMMA UnkeptRequest ==
    ASSUME NEW r \in Requests
    PROVE  LET a == [r EXCEPT !.kept = FALSE] IN
              /\ a \in Requests /\ a.kind = r.kind
              /\ r.kind = "list" => a.of = r.of /\ a.offset = r.offset /\ a.next = r.next
  BY DEF Requests

LEMMA UnkeptEvent ==
    ASSUME NEW e \in Events
    PROVE  LET a == [e EXCEPT !.kept = FALSE] IN
              /\ a \in Events /\ a.kind = e.kind
              /\ e.kind = "list" => /\ a.of = e.of /\ a.entries = e.entries
                                    /\ a.offset = e.offset /\ a.more = e.more
  BY DEF Events

LEMMA AbandonedRequests ==
    ASSUME NEW s \in Seq(Requests)
    PROVE  /\ Abandoned(s) \in Seq(Requests) /\ Len(Abandoned(s)) = Len(s)
           /\ DOMAIN Abandoned(s) = DOMAIN s
           /\ \A i \in DOMAIN s :
                 /\ Abandoned(s)[i].kind = s[i].kind
                 /\ s[i].kind = "list" => /\ Abandoned(s)[i].of = s[i].of
                                          /\ Abandoned(s)[i].offset = s[i].offset
                                          /\ Abandoned(s)[i].next = s[i].next
<1>1. DOMAIN s = 1..Len(s) /\ Len(s) \in Nat /\ \A i \in DOMAIN s : s[i] \in Requests
  OBVIOUS
<1>2. DOMAIN Abandoned(s) = DOMAIN s /\ \A i \in DOMAIN s : Abandoned(s)[i] = [s[i] EXCEPT !.kept = FALSE]
  BY DEF Abandoned
<1>3. \A i \in DOMAIN s : Abandoned(s)[i] \in Requests
  BY <1>1, <1>2, UnkeptRequest
<1>4. Abandoned(s) \in [1..Len(s) -> Requests]
  BY <1>1, <1>2, <1>3 DEF Abandoned
<1>5. Abandoned(s) \in Seq(Requests) /\ Len(Abandoned(s)) = Len(s)
  BY <1>1, <1>4
<1>6. QED
  BY <1>1, <1>2, <1>5, UnkeptRequest

LEMMA AbandonedEvents ==
    ASSUME NEW s \in Seq(Events)
    PROVE  /\ Abandoned(s) \in Seq(Events) /\ Len(Abandoned(s)) = Len(s)
           /\ DOMAIN Abandoned(s) = DOMAIN s
           /\ \A i \in DOMAIN s :
                 /\ Abandoned(s)[i].kind = s[i].kind
                 /\ s[i].kind = "list" => /\ Abandoned(s)[i].of = s[i].of
                                          /\ Abandoned(s)[i].entries = s[i].entries
                                          /\ Abandoned(s)[i].offset = s[i].offset
                                          /\ Abandoned(s)[i].more = s[i].more
<1>1. DOMAIN s = 1..Len(s) /\ Len(s) \in Nat /\ \A i \in DOMAIN s : s[i] \in Events
  OBVIOUS
<1>2. DOMAIN Abandoned(s) = DOMAIN s /\ \A i \in DOMAIN s : Abandoned(s)[i] = [s[i] EXCEPT !.kept = FALSE]
  BY DEF Abandoned
<1>3. \A i \in DOMAIN s : Abandoned(s)[i] \in Events
  BY <1>1, <1>2, UnkeptEvent
<1>4. Abandoned(s) \in [1..Len(s) -> Events]
  BY <1>1, <1>2, <1>3 DEF Abandoned
<1>5. Abandoned(s) \in Seq(Events) /\ Len(Abandoned(s)) = Len(s)
  BY <1>1, <1>4
<1>6. QED
  BY <1>1, <1>2, <1>5, UnkeptEvent

-----------------------------------------------------------------------------
(* The last answer, as the queue changes *)

LEMMA AppendedAnswer ==
    ASSUME NEW s \in Seq(Events), NEW e \in Events
    PROVE  /\ LastAnswer(Append(s, e)) = IF Answer(e) THEN {e} ELSE LastAnswer(s)
           /\ NoListIn(Append(s, e)) <=> NoListIn(s) /\ e.kind # "list"
<1>1. PICK n \in Nat : n = Len(s) /\ DOMAIN s = 1..n
  OBVIOUS
<1>2. PICK t : t = Append(s, e)
  OBVIOUS
<1>3. /\ DOMAIN t = 1..(n + 1) /\ t[n + 1] = e
      /\ \A i \in 1..n : t[i] = s[i]
  BY <1>1, <1>2
<1>4. NoListIn(t) <=> NoListIn(s) /\ e.kind # "list"
  <2>1. DOMAIN t = (1..n) \cup {n + 1}
    BY <1>3
  <2>2. QED
    BY <1>1, <1>3, <2>1 DEF NoListIn
<1>5. CASE Answer(e)
  <2>1. ASSUME NEW i \in DOMAIN t, Answer(t[i]), \A j \in DOMAIN t : i < j => ~Answer(t[j])
        PROVE  t[i] = e
    <3>1. n + 1 \in DOMAIN t /\ ~(i < n + 1)
      BY <1>3, <1>5, <2>1
    <3>2. i = n + 1
      BY <1>3, <3>1
    <3>3. QED
      BY <1>3, <3>2
  <2>2. n + 1 \in DOMAIN t /\ \A j \in DOMAIN t : n + 1 < j => ~Answer(t[j])
    BY <1>3
  <2>3. LastAnswer(t) = {e}
    BY <1>3, <1>5, <2>1, <2>2 DEF LastAnswer
  <2>4. QED
    BY <1>2, <1>4, <1>5, <2>3
<1>6. CASE ~Answer(e)
  <2>1. ASSUME NEW x \in LastAnswer(t) PROVE x \in LastAnswer(s)
    <3>1. PICK i \in DOMAIN t : x = t[i] /\ Answer(t[i]) /\ \A j \in DOMAIN t : i < j => ~Answer(t[j])
      BY DEF LastAnswer
    <3>2. i \in 1..n
      BY <1>3, <1>6, <3>1
    <3>3. Answer(s[i]) /\ x = s[i] /\ \A j \in 1..n : i < j => ~Answer(s[j])
      BY <1>3, <3>1, <3>2
    <3>4. QED
      BY <1>1, <3>2, <3>3 DEF LastAnswer
  <2>2. ASSUME NEW x \in LastAnswer(s) PROVE x \in LastAnswer(t)
    <3>1. PICK i \in 1..n : x = s[i] /\ Answer(s[i]) /\ \A j \in 1..n : i < j => ~Answer(s[j])
      BY <1>1 DEF LastAnswer
    <3>2. \A j \in DOMAIN t : i < j => ~Answer(t[j])
      <4>1. ASSUME NEW j \in DOMAIN t, i < j PROVE ~Answer(t[j])
        <5>1. CASE j \in 1..n
          BY <1>3, <3>1, <4>1, <5>1
        <5>2. CASE j = n + 1
          BY <1>3, <1>6, <5>2
        <5>3. QED
          BY <1>3, <5>1, <5>2
      <4>2. QED
        BY <4>1
    <3>3. i \in DOMAIN t /\ x = t[i] /\ Answer(t[i])
      BY <1>3, <3>1
    <3>4. QED
      BY <3>2, <3>3 DEF LastAnswer
  <2>3. QED
    BY <1>2, <1>4, <1>6, <2>1, <2>2
<1>7. QED
  BY <1>5, <1>6

\* A set of places has a last one.
LEMMA GreatestOfSome ==
    ASSUME NEW n \in Nat, NEW S \in SUBSET (1..n), S # {}
    PROVE  \E k \in S : \A j \in S : j <= k
<1>1. S \in SUBSET Nat /\ IsFiniteSet(S)
  <2>1. IsFiniteSet(1..n)
    BY FS_Interval
  <2>2. IsFiniteSet(S)
    BY <2>1, FS_Subset
  <2>3. QED
    BY <2>2
<1>2. PICK m \in Nat : m = Cardinality(S)
  BY <1>1, SortedList
<1>3. /\ Sorted(S) \in [1..m -> S] /\ S = {Sorted(S)[i] : i \in 1..m}
      /\ \A i, j \in 1..m : i < j => Sorted(S)[i] < Sorted(S)[j]
  BY <1>1, <1>2, SortedList
<1>4. m \in 1..m
  <2>1. m # 0
    BY <1>1, <1>2, FS_EmptySet
  <2>2. QED
    BY <2>1
<1>5. ASSUME NEW j \in S PROVE j <= Sorted(S)[m]
  <2>1. PICK i \in 1..m : j = Sorted(S)[i]
    BY <1>3
  <2>2. i = m \/ i < m
    BY <1>4
  <2>3. j = Sorted(S)[m] \/ j < Sorted(S)[m]
    BY <1>3, <1>4, <2>1, <2>2
  <2>4. j \in Nat /\ Sorted(S)[m] \in Nat
    BY <1>1, <1>3, <1>4
  <2>5. QED
    BY <2>3, <2>4
<1>6. QED
  BY <1>3, <1>4, <1>5

\* What is taken out was the last answer if none is left.
LEMMA TakenAnswer ==
    ASSUME NEW s \in Seq(Events), s # <<>>
    PROVE  /\ Head(s) \in Events /\ Tail(s) \in Seq(Events) /\ Len(Tail(s)) = Len(s) - 1
           /\ LastAnswer(Tail(s)) \subseteq LastAnswer(s)
           /\ NoListIn(s) => NoListIn(Tail(s))
           /\ Answer(Head(s)) /\ LastAnswer(Tail(s)) = {} => Head(s) \in LastAnswer(s)
           /\ \A i \in DOMAIN Tail(s) : \E j \in DOMAIN s : Tail(s)[i] = s[j]
<1>1. PICK n \in Nat : n + 1 = Len(s) /\ DOMAIN s = 1..(n + 1)
  <2>1. Len(s) \in Nat \ {0} /\ DOMAIN s = 1..Len(s)
    OBVIOUS
  <2>2. Len(s) - 1 \in Nat /\ (Len(s) - 1) + 1 = Len(s)
    BY <2>1
  <2>3. QED
    BY <2>1, <2>2
<1>2. PICK t : t = Tail(s)
  OBVIOUS
<1>3. /\ t \in Seq(Events) /\ Len(t) = n /\ DOMAIN t = 1..n
      /\ \A i \in 1..n : t[i] = s[i + 1]
  <2>1. t \in Seq(Events) /\ Len(t) = Len(s) - 1 /\ \A i \in 1..Len(t) : t[i] = s[i + 1]
    BY <1>2, HeadTailProperties
  <2>2. QED
    BY <1>1, <2>1
<1>4. Head(s) = s[1] /\ s[1] \in Events
  BY <1>1
<1>5. ASSUME NEW x \in LastAnswer(t) PROVE x \in LastAnswer(s)
  <2>1. PICK i \in 1..n : x = t[i] /\ Answer(t[i]) /\ \A j \in 1..n : i < j => ~Answer(t[j])
    BY <1>3 DEF LastAnswer
  <2>2. i + 1 \in DOMAIN s /\ x = s[i + 1] /\ Answer(s[i + 1])
    BY <1>1, <1>3, <2>1
  <2>3. ASSUME NEW j \in DOMAIN s, i + 1 < j PROVE ~Answer(s[j])
    <3>1. j - 1 \in 1..n /\ i < j - 1 /\ (j - 1) + 1 = j
      BY <1>1, <2>3
    <3>2. s[j] = t[j - 1]
      BY <1>3, <3>1
    <3>3. QED
      BY <2>1, <3>1, <3>2
  <2>4. QED
    BY <2>2, <2>3 DEF LastAnswer
<1>6. NoListIn(s) => NoListIn(t)
  <2>1. \A i \in 1..n : i + 1 \in DOMAIN s
    BY <1>1
  <2>2. QED
    BY <1>3, <2>1 DEF NoListIn
<1>7. ASSUME Answer(s[1]), LastAnswer(t) = {} PROVE s[1] \in LastAnswer(s)
  <2>1. \A i \in 1..n : ~Answer(t[i])
    <3>1. SUFFICES ASSUME NEW i \in 1..n, Answer(t[i]) PROVE FALSE
      OBVIOUS
    <3>2. PICK S : S = {k \in 1..n : Answer(t[k])}
      OBVIOUS
    <3>3. S \in SUBSET (1..n) /\ i \in S
      BY <3>1, <3>2
    <3>4. PICK k \in S : \A j \in S : j <= k
      BY <3>3, GreatestOfSome
    <3>5. k \in 1..n /\ Answer(t[k]) /\ \A j \in 1..n : k < j => ~Answer(t[j])
      BY <3>2, <3>4
    <3>6. t[k] \in LastAnswer(t)
      BY <1>3, <3>5 DEF LastAnswer
    <3>7. QED
      BY <1>7, <3>6
  <2>2. ASSUME NEW j \in DOMAIN s, 1 < j PROVE ~Answer(s[j])
    <3>1. j - 1 \in 1..n /\ (j - 1) + 1 = j
      BY <1>1, <2>2
    <3>2. s[j] = t[j - 1]
      BY <1>3, <3>1
    <3>3. QED
      BY <2>1, <3>1, <3>2
  <2>3. 1 \in DOMAIN s
    BY <1>1
  <2>4. QED
    BY <1>7, <2>2, <2>3 DEF LastAnswer
<1>8. \A i \in DOMAIN t : \E j \in DOMAIN s : t[i] = s[j]
  <2>1. \A i \in 1..n : i + 1 \in DOMAIN s
    BY <1>1
  <2>2. QED
    BY <1>3, <2>1
<1>9. QED
  BY <1>1, <1>2, <1>3, <1>4, <1>5, <1>6, <1>7, <1>8

\* Two events that differ only in whether their dialog is still there, and a queue
\* with no other last answer and no other list
Twin(a, e) ==
    /\ a.kind = e.kind
    /\ e.kind = "list" => a.of = e.of /\ a.entries = e.entries /\ a.offset = e.offset /\ a.more = e.more
Within(s2, s1) ==
    /\ \A a \in LastAnswer(s2) : \E e \in LastAnswer(s1) : Twin(a, e)
    /\ NoListIn(s1) => NoListIn(s2)

LEMMA WithinTruth ==
    ASSUME NEW s1, NEW s2, Within(s2, s1), NEW t, NEW w
    PROVE  /\ (\A e \in LastAnswer(s1) : SaysTruth(e, t)) => \A a \in LastAnswer(s2) : SaysTruth(a, t)
           /\ (\A e \in LastAnswer(s1) : GoesOn(e, w, t)) => \A a \in LastAnswer(s2) : GoesOn(a, w, t)
<1>1. ASSUME NEW a, NEW e, Twin(a, e), SaysTruth(e, t) PROVE SaysTruth(a, t)
  BY <1>1 DEF Twin, SaysTruth
<1>2. ASSUME NEW a, NEW e, Twin(a, e), GoesOn(e, w, t) PROVE GoesOn(a, w, t)
  BY <1>2 DEF Twin, GoesOn
<1>3. QED
  BY <1>1, <1>2 DEF Within

LEMMA AbandonedWithin ==
    ASSUME NEW s \in Seq(Events)
    PROVE  Within(Abandoned(s), s) /\ (NoListIn(Abandoned(s)) => NoListIn(s))
<1>1. PICK t : t = Abandoned(s)
  OBVIOUS
<1>2. DOMAIN t = DOMAIN s /\ \A i \in DOMAIN s : Twin(t[i], s[i])
  BY <1>1, AbandonedEvents DEF Twin
<1>3. \A i \in DOMAIN s : Answer(t[i]) <=> Answer(s[i])
  BY <1>2 DEF Twin, Answer
<1>4. NoListIn(t) <=> NoListIn(s)
  BY <1>2 DEF Twin, NoListIn
<1>5. ASSUME NEW a \in LastAnswer(t) PROVE \E e \in LastAnswer(s) : Twin(a, e)
  <2>1. PICK i \in DOMAIN t : a = t[i] /\ Answer(t[i]) /\ \A j \in DOMAIN t : i < j => ~Answer(t[j])
    BY DEF LastAnswer
  <2>2. Answer(s[i]) /\ \A j \in DOMAIN s : i < j => ~Answer(s[j])
    BY <1>2, <1>3, <2>1
  <2>3. s[i] \in LastAnswer(s) /\ Twin(a, s[i])
    BY <1>2, <2>1, <2>2 DEF LastAnswer
  <2>4. QED
    BY <2>3
<1>6. QED
  BY <1>1, <1>4, <1>5 DEF Within

LEMMA TailWithin ==
    ASSUME NEW s \in Seq(Events), s # <<>>
    PROVE  Within(Tail(s), s)
<1>1. \A e : Twin(e, e)
  BY DEF Twin
<1>2. QED
  BY <1>1, TakenAnswer DEF Within

\* What is left of the queue when its first event is taken out
LEMMA RestWithin ==
    ASSUME NEW s \in Seq(Events), s # <<>>, NEW r \in {Tail(s), Abandoned(Tail(s))}
    PROVE  /\ r \in Seq(Events) /\ Len(r) < Len(s) /\ Within(r, s)
           /\ Answer(Head(s)) /\ LastAnswer(r) = {} => Head(s) \in LastAnswer(s)
           /\ \A i \in DOMAIN r : \E j \in DOMAIN s : Twin(r[i], s[j])
<1>1. PICK t \in Seq(Events) : t = Tail(s)
  BY TakenAnswer
<1>2. Len(t) < Len(s) /\ Within(t, s)
  <2>1. Len(t) = Len(s) - 1 /\ Len(s) \in Nat
    BY <1>1, TakenAnswer
  <2>2. QED
    BY <1>1, <2>1, TailWithin
<1>3. \A i \in DOMAIN t : \E j \in DOMAIN s : Twin(t[i], s[j])
  BY <1>1, TakenAnswer DEF Twin
<1>4. CASE r = t
  BY <1>1, <1>2, <1>3, <1>4, TakenAnswer
<1>5. CASE r = Abandoned(t)
  <2>1. /\ r \in Seq(Events) /\ Len(r) = Len(t) /\ DOMAIN r = DOMAIN t
        /\ \A i \in DOMAIN t : Twin(r[i], t[i])
    BY <1>5, AbandonedEvents DEF Twin
  <2>2. Within(r, t)
    BY <1>5, AbandonedWithin
  <2>3. Within(r, s)
    <3>1. \A a, b, c : Twin(a, b) /\ Twin(b, c) => Twin(a, c)
      BY DEF Twin
    <3>2. QED
      BY <1>2, <2>2, <3>1 DEF Within
  <2>4. \A i \in DOMAIN r : \E j \in DOMAIN s : Twin(r[i], s[j])
    <3>1. \A a, b, c : Twin(a, b) /\ Twin(b, c) => Twin(a, c)
      BY DEF Twin
    <3>2. QED
      BY <1>3, <2>1, <3>1
  <2>5. ASSUME LastAnswer(r) = {} PROVE LastAnswer(t) = {}
    <3>1. SUFFICES ASSUME NEW e \in LastAnswer(t) PROVE FALSE
      OBVIOUS
    <3>2. PICK i \in DOMAIN t : e = t[i] /\ Answer(t[i]) /\ \A j \in DOMAIN t : i < j => ~Answer(t[j])
      BY DEF LastAnswer
    <3>3. \A j \in DOMAIN t : Answer(r[j]) <=> Answer(t[j])
      BY <2>1 DEF Twin, Answer
    <3>4. Answer(r[i]) /\ \A j \in DOMAIN r : i < j => ~Answer(r[j])
      BY <2>1, <3>2, <3>3
    <3>5. r[i] \in LastAnswer(r)
      BY <2>1, <3>2, <3>4 DEF LastAnswer
    <3>6. QED
      BY <2>5, <3>5
  <2>6. QED
    BY <1>1, <1>2, <2>1, <2>3, <2>4, <2>5, TakenAnswer
<1>6. QED
  BY <1>1, <1>4, <1>5

-----------------------------------------------------------------------------
(* The requests, as their queue changes *)

AllAskOn(requests, w, t) == \A i \in DOMAIN requests : AsksOn(requests[i], w, t)
NoneIsNext(requests) == \A i \in DOMAIN requests : ~IsNext(requests[i])

LEMMA TakenRequest ==
    ASSUME NEW s \in Seq(Requests), s # <<>>, Alone(s), NEW w, NEW t
    PROVE  /\ Head(s) \in Requests /\ Tail(s) \in Seq(Requests) /\ Len(Tail(s)) < Len(s)
           /\ Alone(Tail(s))
           /\ Head(s).kind # "other" => NoneIsNext(Tail(s))
           /\ AllAskOn(s, w, t) => AllAskOn(Tail(s), w, t) /\ AsksOn(Head(s), w, t)
<1>1. PICK n \in Nat : n + 1 = Len(s) /\ DOMAIN s = 1..(n + 1)
  <2>1. Len(s) \in Nat \ {0} /\ DOMAIN s = 1..Len(s)
    OBVIOUS
  <2>2. Len(s) - 1 \in Nat /\ (Len(s) - 1) + 1 = Len(s)
    BY <2>1
  <2>3. QED
    BY <2>1, <2>2
<1>2. PICK r : r = Tail(s)
  OBVIOUS
<1>3. /\ r \in Seq(Requests) /\ Len(r) = n /\ DOMAIN r = 1..n
      /\ \A i \in 1..n : r[i] = s[i + 1]
  <2>1. r \in Seq(Requests) /\ Len(r) = Len(s) - 1 /\ \A i \in 1..Len(r) : r[i] = s[i + 1]
    BY <1>2, HeadTailProperties
  <2>2. QED
    BY <1>1, <2>1
<1>4. Head(s) = s[1] /\ s[1] \in Requests /\ 1 \in DOMAIN s
  BY <1>1
<1>5. \A i \in 1..n : i + 1 \in DOMAIN s /\ 1 < i + 1
  BY <1>1
<1>6. Alone(r)
  <2>1. ASSUME NEW i \in 1..n, IsNext(r[i])
        PROVE  r[i].of # "requests" /\ \A j \in 1..n : j < i => r[j].kind = "other"
    <3>1. s[i + 1].of # "requests" /\ \A j \in DOMAIN s : j < i + 1 => s[j].kind = "other"
      BY <1>3, <1>5, <2>1 DEF Alone
    <3>2. \A j \in 1..n : j < i => j + 1 < i + 1
      OBVIOUS
    <3>3. QED
      BY <1>3, <1>5, <3>1, <3>2
  <2>2. QED
    BY <1>3, <2>1 DEF Alone
<1>7. s[1].kind # "other" => NoneIsNext(r)
  <2>1. ASSUME NEW i \in 1..n, IsNext(r[i]) PROVE s[1].kind = "other"
    BY <1>3, <1>4, <1>5, <2>1 DEF Alone
  <2>2. QED
    BY <1>3, <2>1 DEF NoneIsNext
<1>8. AllAskOn(s, w, t) => AllAskOn(r, w, t) /\ AsksOn(s[1], w, t)
  BY <1>3, <1>4, <1>5 DEF AllAskOn
<1>9. n < n + 1
  OBVIOUS
<1>10. QED
  BY <1>1, <1>2, <1>3, <1>4, <1>6, <1>7, <1>8, <1>9

LEMMA AddedRequest ==
    ASSUME NEW s \in Seq(Requests), Alone(s), NEW r \in Requests, NEW w, NEW t,
           IsNext(r) => r.of # "requests" /\ \A i \in DOMAIN s : s[i].kind = "other"
    PROVE  /\ Append(s, r) \in Seq(Requests) /\ Len(Append(s, r)) = Len(s) + 1
           /\ Alone(Append(s, r))
           /\ AllAskOn(s, w, t) /\ AsksOn(r, w, t) => AllAskOn(Append(s, r), w, t)
<1>1. PICK n \in Nat : n = Len(s) /\ DOMAIN s = 1..n
  OBVIOUS
<1>2. PICK q : q = Append(s, r)
  OBVIOUS
<1>3. /\ q \in Seq(Requests) /\ Len(q) = n + 1 /\ DOMAIN q = 1..(n + 1) /\ q[n + 1] = r
      /\ \A i \in 1..n : q[i] = s[i]
  BY <1>1, <1>2
<1>4. \A i \in DOMAIN q : i \in 1..n \/ i = n + 1
  BY <1>3
<1>5. Alone(q)
  <2>1. ASSUME NEW i \in DOMAIN q, IsNext(q[i])
        PROVE  q[i].of # "requests" /\ \A j \in DOMAIN q : j < i => q[j].kind = "other"
    <3>1. CASE i \in 1..n
      <4>1. s[i].of # "requests" /\ \A j \in DOMAIN s : j < i => s[j].kind = "other"
        BY <1>1, <1>3, <2>1, <3>1 DEF Alone
      <4>2. \A j \in DOMAIN q : j < i => j \in 1..n
        BY <1>3, <3>1
      <4>3. QED
        BY <1>1, <1>3, <3>1, <4>1, <4>2
    <3>2. CASE i = n + 1
      <4>1. r.of # "requests" /\ \A j \in 1..n : s[j].kind = "other"
        BY <1>1, <1>3, <2>1, <3>2
      <4>2. \A j \in DOMAIN q : j < i => j \in 1..n
        BY <1>3, <3>2
      <4>3. QED
        BY <1>1, <1>3, <3>2, <4>1, <4>2
    <3>3. QED
      BY <1>4, <3>1, <3>2
  <2>2. QED
    BY <2>1 DEF Alone
<1>6. AllAskOn(s, w, t) /\ AsksOn(r, w, t) => AllAskOn(q, w, t)
  BY <1>1, <1>3, <1>4 DEF AllAskOn
<1>7. QED
  BY <1>1, <1>2, <1>3, <1>5, <1>6

LEMMA LeftRequests ==
    ASSUME NEW s \in Seq(Requests), Alone(s), NEW w, NEW t
    PROVE  /\ Abandoned(s) \in Seq(Requests) /\ Len(Abandoned(s)) = Len(s)
           /\ Alone(Abandoned(s))
           /\ AllAskOn(s, w, t) => AllAskOn(Abandoned(s), w, t)
<1>1. PICK r : r = Abandoned(s)
  OBVIOUS
<1>2. /\ r \in Seq(Requests) /\ Len(r) = Len(s) /\ DOMAIN r = DOMAIN s
      /\ \A i \in DOMAIN s :
            /\ r[i].kind = s[i].kind
            /\ s[i].kind = "list" => r[i].of = s[i].of /\ r[i].offset = s[i].offset /\ r[i].next = s[i].next
  BY <1>1, AbandonedRequests
<1>3. \A i \in DOMAIN s : IsNext(r[i]) => IsNext(s[i]) /\ r[i].of = s[i].of /\ r[i].offset = s[i].offset
  BY <1>2 DEF IsNext
<1>4. Alone(r)
  BY <1>2, <1>3 DEF Alone
<1>5. AllAskOn(s, w, t) => AllAskOn(r, w, t)
  BY <1>2, <1>3 DEF AllAskOn, AsksOn
<1>6. QED
  BY <1>1, <1>2, <1>4, <1>5

-----------------------------------------------------------------------------
(* Dialogs *)

LEMMA OverlayFacts ==
    /\ \A o \in Overlays : IsList(o) =>
          /\ o.kind \in Lists /\ o.entries \in Seq(Entry) /\ o.selected \in Nat
          /\ o.loading \in BOOLEAN /\ o.offset \in Nat /\ o.more \in BOOLEAN
    /\ \A of \in Lists, entries \in Seq(Entry), selected, offset \in Nat, loading, more \in BOOLEAN :
          LET o == [kind |-> of, entries |-> entries, selected |-> selected,
                    loading |-> loading, offset |-> offset, more |-> more]
          IN  o \in Overlays /\ IsList(o)
    /\ Closed \in Overlays /\ [kind |-> "token"] \in Overlays /\ [kind |-> "text"] \in Overlays
    /\ \A c \in BOOLEAN : [kind |-> "rotate", confirming |-> c] \in Overlays
    /\ ~IsList(Closed) /\ ~IsList([kind |-> "token"]) /\ ~IsList([kind |-> "text"])
    /\ \A c \in BOOLEAN : ~IsList([kind |-> "rotate", confirming |-> c])
  BY DEF Overlays, IsList, Lists, Closed

\* Another cursor, or another answer awaited, in the same list
LEMMA OverlayUpdates ==
    ASSUME NEW o \in Overlays
    PROVE  /\ IsList(o) => \A selected \in Nat, loading \in BOOLEAN :
              LET p == [o EXCEPT !.loading = loading, !.selected = selected]
                  q == [o EXCEPT !.loading = loading]
                  r == [o EXCEPT !.selected = selected]
              IN  /\ p \in Overlays /\ p.kind = o.kind /\ p.entries = o.entries /\ p.offset = o.offset
                  /\ p.more = o.more /\ p.loading = loading /\ p.selected = selected
                  /\ q \in Overlays /\ q.kind = o.kind /\ q.entries = o.entries /\ q.offset = o.offset
                  /\ q.more = o.more /\ q.loading = loading /\ q.selected = o.selected
                  /\ r \in Overlays /\ r.kind = o.kind /\ r.entries = o.entries /\ r.offset = o.offset
                  /\ r.more = o.more /\ r.loading = o.loading /\ r.selected = selected
           /\ o.kind = "rotate" => \A c \in BOOLEAN :
              LET p == [o EXCEPT !.confirming = c] IN p \in Overlays /\ p.kind = "rotate"
<1>1. CASE IsList(o)
  <2>1. o \in [kind : Lists, entries : Seq(Entry), selected : Nat,
               loading : BOOLEAN, offset : Nat, more : BOOLEAN]
    BY <1>1 DEF Overlays, IsList, Lists
  <2>2. o.kind # "rotate"
    BY <1>1 DEF IsList, Lists
  <2>3. QED
    BY <2>1, <2>2 DEF Overlays
<1>2. CASE ~IsList(o)
  <2>1. o.kind = "rotate" => o \in [kind : {"rotate"}, confirming : BOOLEAN]
    BY DEF Overlays, Lists
  <2>2. QED
    BY <1>2, <2>1 DEF Overlays
<1>3. QED
  BY <1>1, <1>2

SameList(o, p) ==
    /\ p \in Overlays /\ p.kind = o.kind /\ p.entries = o.entries /\ p.offset = o.offset
    /\ p.more = o.more

LEMMA ListUpdates ==
    ASSUME NEW o \in Overlays, IsList(o)
    PROVE  /\ \A selected \in Nat : LET p == [o EXCEPT !.selected = selected] IN
                SameList(o, p) /\ p.loading = o.loading /\ p.selected = selected
           /\ LET p == [o EXCEPT !.loading = TRUE] IN
                SameList(o, p) /\ p.loading = TRUE /\ p.selected = o.selected
           /\ LET p == [o EXCEPT !.loading = TRUE, !.selected = 0] IN
                SameList(o, p) /\ p.loading = TRUE /\ p.selected = 0
<1>1. o \in [kind : Lists, entries : Seq(Entry), selected : Nat,
             loading : BOOLEAN, offset : Nat, more : BOOLEAN]
  BY DEF Overlays, IsList, Lists
<1>2. QED
  BY <1>1 DEF Overlays, SameList

CursorIn(o) == IsList(o) /\ o.entries # <<>> => o.selected < Len(o.entries)

LEMMA CursorMoves ==
    ASSUME NEW entries \in Seq(Entry), NEW selected \in Nat
    PROVE  /\ Lesser(selected, LastOf(entries)) \in Nat
           /\ entries # <<>> => Lesser(selected, LastOf(entries)) < Len(entries)
           /\ Lesser(selected + 1, LastOf(entries)) \in Nat
           /\ entries # <<>> => Lesser(selected + 1, LastOf(entries)) < Len(entries)
           /\ Minus(selected, 1) \in Nat /\ Minus(selected, 1) <= selected
<1>1. PICK n \in Nat : n = Len(entries) /\ (entries # <<>> <=> n # 0)
  OBVIOUS
<1>2. LastOf(entries) = IF n = 0 THEN 0 ELSE n - 1
  BY <1>1 DEF LastOf
<1>3. PICK l : l = LastOf(entries)
  OBVIOUS
<1>4. l \in Nat /\ (n # 0 => l < n)
  BY <1>2, <1>3
<1>5. /\ Lesser(selected, l) \in Nat /\ (n # 0 => Lesser(selected, l) < n)
      /\ Lesser(selected + 1, l) \in Nat /\ (n # 0 => Lesser(selected + 1, l) < n)
  BY <1>4 DEF Lesser
<1>6. Minus(selected, 1) \in Nat /\ Minus(selected, 1) <= selected
  BY DEF Minus
<1>7. QED
  BY <1>1, <1>3, <1>5, <1>6

-----------------------------------------------------------------------------
(* The steps of the gateway *)

NoWalkFacts == NoWalk \in [of : Lists, ids : SUBSET Id, more : BOOLEAN] /\ NoWalk.of = "requests"

LEMMA NoWalkIs == NoWalkFacts
  BY DEF NoWalkFacts, NoWalk, Lists

\* What is not up to date says nothing.
LEMMA Stales ==
    ASSUME ListsInv, TypeOK', stale' = TRUE, walk' = NoWalk, Alone(up'), UNCHANGED overlay,
           \A i \in DOMAIN down' : down'[i].kind = "list" /\ down'[i].of = "requests" => ~down'[i].more
    PROVE  ListsInv'
<1>1. CursorInList'
  BY DEF ListsInv, CursorInList, IsList
<1>2. Complete(walk', tables') /\ Walks'
  BY NoWalkIs DEF Complete, Walks, NoWalkFacts
<1>3. Fresh'
  BY DEF Fresh
<1>4. OnePage'
  BY DEF ListsInv, OnePage
<1>5. QED
  BY <1>1, <1>2, <1>3, <1>4 DEF ListsInv

\* An event finds room in the queue, or not.
LEMMA SendsIs ==
    ASSUME TypeOK, NEW event \in Events, Sends(event)
    PROVE  /\ down' \in Seq(Events) /\ Len(down') <= QueueCapacity
           /\ down' = IF RoomInQueue THEN Append(down, event) ELSE down
           /\ OnePage /\ (event.kind = "list" /\ event.of = "requests" => ~event.more)
                => \A i \in DOMAIN down' : down'[i].kind = "list" /\ down'[i].of = "requests" => ~down'[i].more
<1>1. down \in Seq(Events) /\ Len(down) \in Nat /\ Len(down) <= QueueCapacity /\ QueueCapacity \in Nat
  <2>1. down \in Seq(Events) /\ Len(down) <= QueueCapacity
    BY DEF TypeOK
  <2>2. PICK s \in Seq(Events) : s = down
    BY <2>1
  <2>3. Len(s) \in Nat
    OBVIOUS
  <2>4. QueueCapacity \in Nat
    BY DialogsAssumption
  <2>5. QED
    BY <2>1, <2>2, <2>3, <2>4
<1>2. CASE RoomInQueue
  <2>1. down' = Append(down, event)
    BY <1>2 DEF Sends
  <2>2. PICK n \in Nat : n = Len(down) /\ DOMAIN down = 1..n
    BY <1>1
  <2>3. /\ down' \in Seq(Events) /\ Len(down') = n + 1 /\ DOMAIN down' = 1..(n + 1)
        /\ down'[n + 1] = event /\ \A i \in 1..n : down'[i] = down[i]
    BY <1>1, <2>1, <2>2
  <2>4. n + 1 <= QueueCapacity
    BY <1>1, <1>2, <2>2 DEF RoomInQueue
  <2>5. \A i \in DOMAIN down' : i \in 1..n \/ i = n + 1
    BY <2>3
  <2>6. QED
    BY <1>2, <2>1, <2>2, <2>3, <2>4, <2>5 DEF OnePage
<1>3. CASE ~RoomInQueue
  BY <1>1, <1>3 DEF Sends, OnePage
<1>4. QED
  BY <1>2, <1>3

LEMMA TakesIs ==
    ASSUME TypeOK, Alone(up), NEW kind, Takes(kind)
    PROVE  /\ up # <<>> /\ Head(up) \in Requests /\ Head(up).kind = kind
           /\ up' = Tail(up) /\ up' \in Seq(Requests) /\ Len(up') <= QueueCapacity
           /\ Alone(up') /\ (kind # "other" => NoneIsNext(up'))
           /\ \A w, t : AllAskOn(up, w, t) => AllAskOn(up', w, t) /\ AsksOn(Head(up), w, t)
<1>1. up \in Seq(Requests) /\ Len(up) \in Nat /\ Len(up) <= QueueCapacity /\ QueueCapacity \in Nat
  <2>1. up \in Seq(Requests) /\ Len(up) <= QueueCapacity
    BY DEF TypeOK
  <2>2. PICK s \in Seq(Requests) : s = up
    BY <2>1
  <2>3. Len(s) \in Nat
    OBVIOUS
  <2>4. QueueCapacity \in Nat
    BY DialogsAssumption
  <2>5. QED
    BY <2>1, <2>2, <2>3, <2>4
<1>2. up # <<>> /\ Head(up).kind = kind /\ up' = Tail(up)
  BY DEF Takes
<1>3. /\ Head(up) \in Requests /\ up' \in Seq(Requests) /\ Len(up') < Len(up) /\ Alone(up')
      /\ kind # "other" => NoneIsNext(up')
  BY <1>1, <1>2, TakenRequest
<1>4. \A w, t : AllAskOn(up, w, t) => AllAskOn(up', w, t) /\ AsksOn(Head(up), w, t)
  BY <1>1, <1>2, TakenRequest
<1>5. Len(up') <= QueueCapacity
  <2>1. Len(up') \in Nat
    BY <1>3
  <2>2. QED
    BY <1>1, <1>3, <2>1
<1>6. QED
  BY <1>2, <1>3, <1>4, <1>5

\* A list goes out: it is true, it is the last answer, and the walk goes on with it,
\* starts again or is over.
LEMMA ListGoesOut ==
    ASSUME ListsInv, NEW kind \in {"list", "decide"}, Takes(kind),
           NEW of \in Lists, NEW offset \in Nat, NEW next \in BOOLEAN, NEW t \in Tables,
           tables' = t, SendsList(of, offset, next, t), UNCHANGED <<dialogs, calm, overlay, fate>>,
           next => IsNext(Head(up)) /\ Head(up).of = of /\ Head(up).offset = offset /\ t = tables
    PROVE  ListsInv'
<1>1. TypeOK /\ Alone(up) /\ OnePage
  BY DEF ListsInv, CursorInList
<1>2. /\ Head(up) \in Requests
      /\ up' \in Seq(Requests) /\ Len(up') <= QueueCapacity /\ Alone(up') /\ NoneIsNext(up')
      /\ \A w, s : AllAskOn(up, w, s) => AsksOn(Head(up), w, s)
  BY <1>1, TakesIs
<1>3. PICK rows \in Seq(Entry) : rows = RowsOf(of, t)
  BY RowsOfAre
<1>4. PICK page \in Seq(Entry) : page = Page(of, rows, offset)
  BY <1>3, PageIs
<1>5. PICK more \in BOOLEAN : more = HasMore(of, rows, offset)
  BY DEF HasMore
<1>6. PICK event : event = [kind |-> "list", of |-> of, entries |-> page, offset |-> offset,
                            more |-> more, kept |-> Head(up).kept]
  OBVIOUS
<1>7. event \in Events
  BY <1>2, <1>6, EventFacts, RequestFacts
<1>8. /\ event.kind = "list" /\ event.of = of /\ event.entries = page /\ event.offset = offset
      /\ event.more = more
  BY <1>6
<1>9. /\ Sends(event) /\ stale' = ~RoomInQueue
      /\ walk' = IF RoomInQueue /\ offset = 0
                 THEN [of |-> of, ids |-> Ids(page), more |-> more]
                 ELSE IF RoomInQueue /\ next /\ walk.of = of
                 THEN [of |-> of, ids |-> walk.ids \cup Ids(page), more |-> more]
                 ELSE NoWalk
  BY <1>3, <1>4, <1>5, <1>6 DEF SendsList
<1>10. event.of = "requests" => ~event.more
  BY <1>5, <1>8 DEF HasMore
<1>11. /\ down' \in Seq(Events) /\ Len(down') <= QueueCapacity
       /\ down' = IF RoomInQueue THEN Append(down, event) ELSE down
       /\ \A i \in DOMAIN down' : down'[i].kind = "list" /\ down'[i].of = "requests" => ~down'[i].more
  BY <1>1, <1>7, <1>9, <1>10, SendsIs
<1>12. Ids(page) \in SUBSET Id /\ walk \in [of : Lists, ids : SUBSET Id, more : BOOLEAN]
  <2>1. \A i \in DOMAIN page : page[i] \in Entry
    OBVIOUS
  <2>2. Ids(page) \in SUBSET Id
    BY <2>1 DEF Ids, Entry
  <2>3. QED
    BY <1>1, <2>2 DEF TypeOK
<1>13. walk' \in [of : Lists, ids : SUBSET Id, more : BOOLEAN]
  <2>1. CASE RoomInQueue /\ offset = 0
    BY <1>9, <1>12, <2>1
  <2>2. CASE RoomInQueue /\ offset # 0 /\ next /\ walk.of = of
    BY <1>9, <1>12, <2>2
  <2>3. CASE ~(RoomInQueue /\ offset = 0) /\ ~(RoomInQueue /\ offset # 0 /\ next /\ walk.of = of)
    BY <1>9, <2>3, NoWalkIs DEF NoWalkFacts
  <2>4. QED
    BY <2>1, <2>2, <2>3
<1>14. TypeOK'
  BY <1>1, <1>2, <1>9, <1>11, <1>13 DEF TypeOK, Tables, RoomInQueue
<1>15. CASE ~RoomInQueue
  <2>1. stale' = TRUE /\ walk' = NoWalk
    BY <1>9, <1>15
  <2>2. QED
    BY <1>2, <1>11, <1>14, <2>1, Stales
<1>16. CASE RoomInQueue
  <2>1. down \in Seq(Events) /\ down' = Append(down, event) /\ Answer(event)
    BY <1>1, <1>8, <1>11, <1>16 DEF TypeOK, Answer
  <2>2. LastAnswer(down') = {event} /\ ~NoListIn(down')
    BY <1>7, <1>8, <2>1, AppendedAnswer
  <2>3. CursorInList' /\ OnePage'
    BY <1>1, <1>11, <1>14 DEF ListsInv, CursorInList, OnePage, IsList
  <2>4. Fresh'
    <3>1. SaysTruth(event, t)
      BY <1>3, <1>4, <1>8 DEF SaysTruth
    <3>2. QED
      BY <2>2, <3>1 DEF Fresh
  <2>5. of # "requests" => SizeOf(of) = PageSize /\ (~more => Len(rows) <= offset + PageSize)
    <3>1. PICK size \in Nat : size = PageSize
      BY DialogsAssumption
    <3>2. PICK length \in Nat : length = Len(rows)
      OBVIOUS
    <3>3. of # "requests" => (more <=> length > offset + size)
      BY <1>5, <3>1, <3>2 DEF HasMore
    <3>4. ~(length > offset + size) => length <= offset + size
      OBVIOUS
    <3>5. of # "requests" => SizeOf(of) = PageSize
      BY DEF SizeOf
    <3>6. QED
      BY <3>1, <3>2, <3>3, <3>4, <3>5
  <2>6. ASSUME walk' # NoWalk, of # "requests"
        PROVE  /\ walk'.of = of /\ walk'.more = more
               /\ walk'.ids = FirstIds(rows, offset + PageSize)
    <3>1. CASE offset = 0
      <4>1. walk' = [of |-> of, ids |-> Ids(page), more |-> more]
        BY <1>9, <1>16, <3>1
      <4>2. Ids(page) = FirstIds(rows, 0 + PageSize)
        BY <1>4, <2>5, <2>6, <3>1, PageAfterPage
      <4>3. QED
        BY <3>1, <4>1, <4>2
    <3>2. CASE offset # 0
      <4>1. next /\ walk.of = of /\ walk' = [of |-> of, ids |-> walk.ids \cup Ids(page), more |-> more]
        BY <1>9, <1>16, <2>6, <3>2
      <4>2. AllAskOn(up, walk, tables)
        BY <2>6, <4>1 DEF ListsInv, Walks, AllAskOn
      <4>3. walk.ids = FirstIds(rows, offset)
        <5>1. AsksOn(Head(up), walk, tables)
          BY <1>2, <4>2
        <5>2. IsNext(Head(up)) /\ Head(up).of = walk.of /\ Head(up).offset = offset /\ t = tables
          BY <4>1
        <5>3. Reached(walk, tables, offset)
          BY <5>1, <5>2 DEF AsksOn
        <5>4. QED
          BY <1>3, <4>1, <5>2, <5>3 DEF Reached
      <4>4. FirstIds(rows, offset) \cup Ids(page) = FirstIds(rows, offset + PageSize)
        <5>1. SizeOf(of) = PageSize
          BY <2>5, <2>6
        <5>2. FirstIds(rows, offset) \cup Ids(Page(of, rows, offset)) = FirstIds(rows, offset + SizeOf(of))
          BY PageAfterPage
        <5>3. QED
          BY <1>4, <5>1, <5>2
      <4>5. QED
        BY <4>1, <4>3, <4>4
    <3>3. QED
      BY <3>1, <3>2
  <2>7. walk'.of # "requests" => walk' # NoWalk /\ of # "requests"
    <3>1. CASE walk' = NoWalk
      BY <3>1, NoWalkIs DEF NoWalkFacts
    <3>2. CASE walk' # NoWalk
      <4>1. walk'.of = of
        BY <1>9, <3>2
      <4>2. QED
        BY <3>2, <4>1
    <3>3. QED
      BY <3>1, <3>2
  <2>8. offset + PageSize \in Nat
    BY DialogsAssumption
  <2>9. Complete(walk', tables')
    <3>1. ASSUME walk'.of # "requests", ~walk'.more PROVE walk'.ids = Ids(RowsOf(walk'.of, t))
      <4>1. walk'.of = of /\ walk'.more = more /\ walk'.ids = FirstIds(rows, offset + PageSize)
        BY <2>6, <2>7, <3>1
      <4>2. Len(rows) <= offset + PageSize
        BY <2>5, <2>7, <3>1, <4>1
      <4>3. FirstIds(rows, offset + PageSize) = Ids(rows)
        BY <2>8, <4>2, PageAfterPage
      <4>4. QED
        BY <1>3, <4>1, <4>3
    <3>2. QED
      BY <3>1 DEF Complete
  <2>10. Walks'
    <3>1. ASSUME walk'.of # "requests"
          PROVE  /\ AllAskOn(up', walk', t) /\ GoesOn(event, walk', t)
      <4>1. walk'.of = of /\ walk'.more = more /\ walk'.ids = FirstIds(rows, offset + PageSize)
        BY <2>6, <2>7, <3>1
      <4>2. AllAskOn(up', walk', t)
        BY <1>2 DEF NoneIsNext, AllAskOn, AsksOn
      <4>3. GoesOn(event, walk', t)
        BY <1>3, <1>8, <4>1 DEF GoesOn, Reached
      <4>4. QED
        BY <4>2, <4>3
    <3>2. QED
      BY <2>2, <3>1 DEF Walks, AllAskOn
  <2>11. QED
    BY <1>2, <2>3, <2>4, <2>9, <2>10 DEF ListsInv
<1>17. QED
  BY <1>15, <1>16


\* What says no more than before stays true: the tables and the walk are as they
\* were, no answer has come or gone but the lists' own, and the dialog shows nothing
\* that it did not show.
LEMMA StaysTrue ==
    ASSUME ListsInv, TypeOK', tables' = tables, walk' = walk, stale => stale',
           Alone(up'),
           walk.of # "requests" /\ AllAskOn(up, walk, tables) => AllAskOn(up', walk, tables),
           Within(down', down),
           IsList(overlay') /\ NoListIn(down') => NoListIn(down),
           \A i \in DOMAIN down' : down'[i].kind = "list" /\ down'[i].of = "requests" => ~down'[i].more,
           CursorIn(overlay'),
           IsList(overlay') /\ ~overlay'.loading =>
              /\ IsList(overlay) /\ ~overlay.loading
              /\ overlay'.kind = overlay.kind /\ overlay'.entries = overlay.entries
              /\ overlay'.offset = overlay.offset,
           IsList(overlay') /\ overlay'.more =>
              /\ IsList(overlay) /\ overlay.more
              /\ overlay'.kind = overlay.kind /\ overlay'.offset = overlay.offset
    PROVE  ListsInv'
<1>1. CursorInList'
  BY DEF CursorInList, CursorIn
<1>2. Complete(walk', tables')
  BY DEF ListsInv
<1>3. Fresh'
  <2>1. ASSUME ~stale' PROVE ~stale
    BY <2>1
  <2>2. ASSUME ~stale' PROVE \A event \in LastAnswer(down') : SaysTruth(event, tables')
    BY <2>1, <2>2, WithinTruth DEF ListsInv, Fresh
  <2>3. ASSUME ~stale', NoListIn(down'), IsList(overlay'), ~overlay'.loading
        PROVE  Shows(overlay', tables')
    <3>1. Shows(overlay, tables)
      BY <2>1, <2>3 DEF ListsInv, Fresh
    <3>2. QED
      BY <2>3, <3>1 DEF Shows
  <2>4. QED
    BY <2>2, <2>3 DEF Fresh
<1>4. Walks'
  <2>1. SUFFICES ASSUME walk.of # "requests"
                 PROVE  /\ AllAskOn(up', walk, tables)
                        /\ \A event \in LastAnswer(down') : GoesOn(event, walk, tables)
                        /\ NoListIn(down') /\ overlay'.kind = walk.of /\ overlay'.more
                             => Reached(walk, tables, overlay'.offset + PageSize)
    BY DEF Walks, AllAskOn
  <2>2. /\ AllAskOn(up, walk, tables)
        /\ \A event \in LastAnswer(down) : GoesOn(event, walk, tables)
        /\ NoListIn(down) /\ overlay.kind = walk.of /\ overlay.more
             => Reached(walk, tables, overlay.offset + PageSize)
    BY <2>1 DEF ListsInv, Walks, AllAskOn
  <2>3. AllAskOn(up', walk, tables)
    BY <2>1, <2>2
  <2>4. \A event \in LastAnswer(down') : GoesOn(event, walk, tables)
    BY <2>2, WithinTruth
  <2>5. ASSUME NoListIn(down'), overlay'.kind = walk.of, overlay'.more
        PROVE  Reached(walk, tables, overlay'.offset + PageSize)
    <3>1. walk.of \in Lists
      BY DEF ListsInv, CursorInList, TypeOK
    <3>2. IsList(overlay')
      BY <2>5, <3>1 DEF IsList
    <3>3. NoListIn(down) /\ overlay.kind = walk.of /\ overlay.more /\ overlay'.offset = overlay.offset
      BY <2>5, <3>2
    <3>4. QED
      BY <2>2, <3>3
  <2>6. QED
    BY <2>3, <2>4, <2>5
<1>5. OnePage'
  <2>1. overlay'.kind = "requests" => IsList(overlay')
    BY DEF IsList, Lists
  <2>2. ASSUME overlay'.kind = "requests", overlay'.more PROVE FALSE
    BY <2>1, <2>2 DEF ListsInv, OnePage
  <2>3. QED
    BY <2>2 DEF OnePage
<1>6. QED
  BY <1>1, <1>2, <1>3, <1>4, <1>5 DEF ListsInv

\* Of the dialog, nothing has changed.
LEMMA SameWithin == ASSUME NEW s PROVE Within(s, s)
  BY DEF Within, Twin

LEMMA RotatedGoesOut ==
    ASSUME ListsInv, RotateToken
    PROVE  ListsInv'
<1>1. TypeOK /\ Alone(up) /\ OnePage
  BY DEF ListsInv, CursorInList
<1>2. Takes("rotate") /\ UNCHANGED <<tables, dialogs, calm, overlay, fate, stale, walk>>
  BY DEF RotateToken
<1>3. /\ Head(up) \in Requests
      /\ up' \in Seq(Requests) /\ Len(up') <= QueueCapacity /\ Alone(up')
      /\ \A w, t : AllAskOn(up, w, t) => AllAskOn(up', w, t)
  BY <1>1, <1>2, TakesIs
<1>4. PICK event : event = [kind |-> "rotated", to |-> "rotate", kept |-> Head(up).kept]
  OBVIOUS
<1>5. event \in Events /\ Sends(event) /\ event.kind = "rotated" /\ ~Answer(event)
  BY <1>3, <1>4, EventFacts, RequestFacts DEF RotateToken, Answer
<1>6. /\ down' \in Seq(Events) /\ Len(down') <= QueueCapacity
      /\ down' = IF RoomInQueue THEN Append(down, event) ELSE down
      /\ \A i \in DOMAIN down' : down'[i].kind = "list" /\ down'[i].of = "requests" => ~down'[i].more
  BY <1>1, <1>5, SendsIs
<1>7. TypeOK'
  BY <1>1, <1>2, <1>3, <1>6 DEF TypeOK
<1>8. Within(down', down) /\ (NoListIn(down') => NoListIn(down))
  <2>1. CASE RoomInQueue
    <3>1. down \in Seq(Events) /\ down' = Append(down, event)
      BY <1>1, <1>6, <2>1 DEF TypeOK
    <3>2. LastAnswer(down') = LastAnswer(down) /\ (NoListIn(down') <=> NoListIn(down))
      BY <1>5, <3>1, AppendedAnswer
    <3>3. QED
      BY <3>2 DEF Within, Twin
  <2>2. CASE ~RoomInQueue
    BY <1>6, <2>2, SameWithin
  <2>3. QED
    BY <2>1, <2>2
<1>9. CursorIn(overlay')
  BY <1>2 DEF ListsInv, CursorInList, CursorIn
<1>10. QED
  BY <1>2, <1>3, <1>6, <1>7, <1>8, <1>9, StaysTrue

LEMMA OtherIsTaken ==
    ASSUME ListsInv, TakeOther
    PROVE  ListsInv'
<1>1. TypeOK /\ Alone(up)
  BY DEF ListsInv, CursorInList
<1>2. Takes("other") /\ UNCHANGED <<tables, dialogs, calm, down, overlay, fate, stale, walk>>
  BY DEF TakeOther
<1>3. /\ up' \in Seq(Requests) /\ Len(up') <= QueueCapacity /\ Alone(up')
      /\ \A w, t : AllAskOn(up, w, t) => AllAskOn(up', w, t)
  BY <1>1, <1>2, TakesIs
<1>4. TypeOK'
  BY <1>1, <1>2, <1>3 DEF TypeOK
<1>5. CursorIn(overlay')
  BY <1>2 DEF ListsInv, CursorInList, CursorIn
<1>6. Within(down', down)
  BY <1>2, SameWithin
<1>7. \A i \in DOMAIN down' : down'[i].kind = "list" /\ down'[i].of = "requests" => ~down'[i].more
  BY <1>2 DEF ListsInv, OnePage
<1>8. QED
  BY <1>2, <1>3, <1>4, <1>5, <1>6, <1>7, StaysTrue

\* A request that fails is answered with an error.
LEMMA ErrorGoesOut ==
    ASSUME ListsInv, NEW kind, Takes(kind), SendsError,
           UNCHANGED <<tables, dialogs, calm, overlay, fate>>
    PROVE  ListsInv'
<1>1. TypeOK /\ Alone(up) /\ OnePage
  BY DEF ListsInv, CursorInList
<1>2. /\ Head(up) \in Requests
      /\ up' \in Seq(Requests) /\ Len(up') <= QueueCapacity /\ Alone(up')
  BY <1>1, TakesIs
<1>3. PICK event : event = [kind |-> "error", to |-> Head(up).kind, kept |-> Head(up).kept]
  OBVIOUS
<1>4. event \in Events /\ Sends(event) /\ event.kind = "error"
  BY <1>2, <1>3, EventFacts, RequestFacts DEF SendsError
<1>5. /\ down' \in Seq(Events) /\ Len(down') <= QueueCapacity
      /\ \A i \in DOMAIN down' : down'[i].kind = "list" /\ down'[i].of = "requests" => ~down'[i].more
  BY <1>1, <1>4, SendsIs
<1>6. stale' = TRUE /\ walk' = NoWalk
  BY DEF SendsError
<1>7. TypeOK'
  BY <1>1, <1>2, <1>5, <1>6, NoWalkIs DEF TypeOK, NoWalkFacts
<1>8. QED
  BY <1>2, <1>5, <1>6, <1>7, Stales

LEMMA OthersDecideKeeps ==
    ASSUME ListsInv, OthersDecide
    PROVE  ListsInv'
<1>1. TypeOK /\ Alone(up) /\ OnePage
  BY DEF ListsInv, CursorInList
<1>2. stale' = TRUE /\ walk' = NoWalk /\ UNCHANGED <<dialogs, calm, up, down, overlay, fate>>
  BY DEF OthersDecide
<1>3. tables' \in Tables
  <2>1. tables \in Tables
    BY <1>1 DEF TypeOK, Tables
  <2>2. /\ \A r \in Request : Flipped(tables.pending, r) \in SUBSET Request
        /\ \A m \in Member : /\ Flipped(tables.active, m) \in SUBSET Member
                             /\ Flipped(tables.included, m) \in SUBSET Member
    BY <2>1 DEF Tables, Flipped
  <2>3. \/ \E r \in Request : tables' = [tables EXCEPT !.pending = Flipped(@, r)]
        \/ \E m \in Member : tables' = [tables EXCEPT !.active = Flipped(@, m)]
        \/ \E m \in Member : tables' = [tables EXCEPT !.included = Flipped(@, m)]
    BY DEF OthersDecide
  <2>4. QED
    BY <2>1, <2>2, <2>3 DEF Tables
<1>4. TypeOK'
  BY <1>1, <1>2, <1>3, NoWalkIs DEF TypeOK, Tables, NoWalkFacts
<1>5. QED
  BY <1>1, <1>2, <1>4, Stales DEF OnePage

\* A list that was asked for
LEMMA EntriesGoOut ==
    ASSUME ListsInv, NEW of \in Lists, SendsEntries(of)
    PROVE  ListsInv'
<1>1. TypeOK /\ Alone(up)
  BY DEF ListsInv, CursorInList
<1>2. /\ Takes("list") /\ Head(up).of = of
      /\ SendsList(of, Head(up).offset, Head(up).next, tables)
      /\ UNCHANGED <<tables, dialogs, calm, overlay, fate>>
  BY DEF SendsEntries
<1>3. Head(up) \in Requests /\ Head(up).kind = "list"
  BY <1>1, <1>2, TakesIs
<1>4. Head(up).offset \in Nat /\ Head(up).next \in BOOLEAN
  BY <1>3, RequestFacts
<1>5. tables \in Tables
  BY <1>1 DEF TypeOK, Tables
<1>6. Head(up).next => IsNext(Head(up))
  BY <1>3 DEF IsNext
<1>7. PICK offset \in Nat, next \in BOOLEAN : offset = Head(up).offset /\ next = Head(up).next
  BY <1>4
<1>8. SendsList(of, offset, next, tables)
  BY <1>2, <1>7
<1>9. next => IsNext(Head(up)) /\ Head(up).of = of /\ Head(up).offset = offset
  BY <1>2, <1>6, <1>7
<1>10. PICK t \in Tables : t = tables
  BY <1>5
<1>11. tables' = t /\ SendsList(of, offset, next, t)
  BY <1>2, <1>8, <1>10
<1>12. QED
  BY <1>2, <1>9, <1>10, <1>11, ListGoesOut

\* A decision is answered with a list of what it changed.
LEMMA DecisionGoesOut ==
    ASSUME ListsInv, NEW of \in Lists, NEW changed, Decision(of, changed), changed \in Tables
    PROVE  ListsInv'
<1>1. /\ Takes("decide") /\ tables' = changed /\ SendsList(of, 0, FALSE, changed)
      /\ UNCHANGED <<dialogs, calm, overlay, fate>>
  BY DEF Decision
<1>2. PICK t \in Tables : t = changed
  OBVIOUS
<1>3. tables' = t /\ SendsList(of, 0, FALSE, t)
  BY <1>1, <1>2
<1>4. QED
  BY <1>1, <1>3, ListGoesOut

LEMMA ServeKeeps ==
    ASSUME ListsInv, Serve
    PROVE  ListsInv'
<1>1. TypeOK /\ Alone(up)
  BY DEF ListsInv, CursorInList
<1>2. tables \in Tables
  BY <1>1 DEF TypeOK, Tables
<1>3. \A kind : Takes(kind) => Head(up) \in Requests /\ Head(up).kind = kind
  BY <1>1, TakesIs
<1>4. CASE ListJoinRequests
  BY <1>4, EntriesGoOut DEF ListJoinRequests, Lists
<1>5. CASE ListGroupMembers
  BY <1>5, EntriesGoOut DEF ListGroupMembers, Lists
<1>6. CASE ListRoomMembers
  BY <1>6, EntriesGoOut DEF ListRoomMembers, Lists
<1>7. CASE DecideJoinRequest
  <2>1. [tables EXCEPT !.pending = @ \ {Head(up).id}] \in Tables
    BY <1>2 DEF Tables
  <2>2. QED
    BY <1>7, <2>1, DecisionGoesOut DEF DecideJoinRequest, Lists
<1>8. CASE SetMemberBanned
  <2>1. Head(up).of = "members" /\ Takes("decide") /\ Changes("members", Head(up).id, Head(up).on)
    BY <1>8 DEF SetMemberBanned, Decision
  <2>2. Head(up).id \in Member
    BY <2>1 DEF Changes
  <2>3. [tables EXCEPT !.active = Marked(@, Head(up).id, Head(up).on)] \in Tables
    BY <1>2, <2>2 DEF Tables, Marked
  <2>4. QED
    BY <1>8, <2>3, DecisionGoesOut DEF SetMemberBanned, Lists
<1>9. CASE SetRoomMember
  <2>1. Takes("decide") /\ Changes("room", Head(up).id, Head(up).on)
    BY <1>9 DEF SetRoomMember, Decision
  <2>2. Head(up).id \in Member
    BY <1>2, <2>1 DEF Changes, Tables
  <2>3. [tables EXCEPT !.included = Marked(@, Head(up).id, Head(up).on)] \in Tables
    BY <1>2, <2>2 DEF Tables, Marked
  <2>4. QED
    BY <1>9, <2>3, DecisionGoesOut DEF SetRoomMember, Lists
<1>10. CASE NothingChanged
  BY <1>10, ErrorGoesOut DEF NothingChanged
<1>11. CASE RotateToken
  BY <1>11, RotatedGoesOut
<1>12. CASE TakeOther
  BY <1>12, OtherIsTaken
<1>13. CASE Refuse
  <2>1. PICK kind : Takes(kind)
    BY <1>13 DEF Refuse
  <2>2. QED
    BY <1>13, <2>1, ErrorGoesOut DEF Refuse
<1>14. QED
  BY <1>4, <1>5, <1>6, <1>7, <1>8, <1>9, <1>10, <1>11, <1>12, <1>13 DEF Serve


-----------------------------------------------------------------------------
(* What the terminal receives *)

LEMMA FateTyped ==
    ASSUME TypeOK, NEW foreign, FateAfter(foreign)
    PROVE  fate' \subseteq {"asked again", "ended by another"}
  BY DEF TypeOK, FateAfter

\* If no list is left and each last answer is a list, the first event was the last.
LEMMA LastWord ==
    ASSUME NEW s \in Seq(Events), s # <<>>, NEW r \in {Tail(s), Abandoned(Tail(s))},
           Answer(Head(s)), NoListIn(r), \A e \in LastAnswer(s) : e.kind = "list"
    PROVE  Head(s) \in LastAnswer(s)
<1>1. Within(r, s) /\ (LastAnswer(r) = {} => Head(s) \in LastAnswer(s))
  BY RestWithin
<1>2. ASSUME NEW a \in LastAnswer(r) PROVE FALSE
  <2>1. PICK e \in LastAnswer(s) : Twin(a, e)
    BY <1>1 DEF Within
  <2>2. a.kind = "list"
    BY <2>1 DEF Twin
  <2>3. \E i \in DOMAIN r : a = r[i]
    BY DEF LastAnswer
  <2>4. QED
    BY <2>2, <2>3 DEF NoListIn
<1>3. QED
  BY <1>1, <1>2

LEMMA ReplacesIs ==
    ASSUME TypeOK, Alone(up), OnePage, down # <<>>,
           \/ down' = Tail(down) /\ up' = up
           \/ \E kind : Replaces(kind)
    PROVE  /\ down \in Seq(Events) /\ Head(down) \in Events
           /\ down' \in {Tail(down), Abandoned(Tail(down))}
           /\ down' \in Seq(Events) /\ Len(down') <= QueueCapacity /\ Within(down', down)
           /\ up' \in Seq(Requests) /\ Len(up') <= QueueCapacity /\ Alone(up')
           /\ \A w, t : AllAskOn(up, w, t) => AllAskOn(up', w, t)
           /\ \A i \in DOMAIN down' : down'[i].kind = "list" /\ down'[i].of = "requests" => ~down'[i].more
<1>1. /\ down \in Seq(Events) /\ Len(down) <= QueueCapacity
      /\ up \in Seq(Requests) /\ Len(up) <= QueueCapacity
  BY DEF TypeOK
<1>2. down' \in {Tail(down), Abandoned(Tail(down))} /\ up' \in {up, Abandoned(up)}
  BY DEF Replaces
<1>3. /\ down' \in Seq(Events) /\ Len(down') < Len(down) /\ Within(down', down)
      /\ \A i \in DOMAIN down' : \E j \in DOMAIN down : Twin(down'[i], down[j])
  BY <1>1, <1>2, RestWithin
<1>4. Len(down') <= QueueCapacity
  <2>1. PICK a \in Seq(Events), b \in Seq(Events) : a = down /\ b = down'
    BY <1>1, <1>3
  <2>2. Len(a) \in Nat /\ Len(b) \in Nat
    OBVIOUS
  <2>3. QueueCapacity \in Nat
    BY DialogsAssumption
  <2>4. QED
    BY <1>1, <1>3, <2>1, <2>2, <2>3
<1>5. /\ up' \in Seq(Requests) /\ Len(up') <= QueueCapacity /\ Alone(up')
      /\ \A w, t : AllAskOn(up, w, t) => AllAskOn(up', w, t)
  <2>1. CASE up' = up
    BY <1>1, <2>1
  <2>2. CASE up' = Abandoned(up)
    BY <1>1, <2>2, LeftRequests
  <2>3. QED
    BY <1>2, <2>1, <2>2
<1>6. \A i \in DOMAIN down' : down'[i].kind = "list" /\ down'[i].of = "requests" => ~down'[i].more
  BY <1>3 DEF Twin, OnePage
<1>7. Head(down) \in Events
  BY <1>1
<1>8. QED
  BY <1>1, <1>2, <1>3, <1>4, <1>5, <1>6, <1>7

\* A list comes: if it was the last answer, what is shown is as true as it.
LEMMA ListComesIn ==
    ASSUME ListsInv, NEW of \in Lists, ReceivesList(of)
    PROVE  ListsInv'
<1>1. TypeOK /\ Alone(up) /\ OnePage /\ CursorIn(overlay)
  BY DEF ListsInv, CursorInList, CursorIn
<1>2. /\ down # <<>> /\ Head(down).kind = "list" /\ Head(down).of = of
      /\ Replaces(of) /\ FateAfter(~Head(down).kept)
      /\ UNCHANGED <<tables, dialogs, calm, stale, walk>>
  BY DEF ReceivesList, Receives
<1>3. /\ down \in Seq(Events) /\ Head(down) \in Events
      /\ down' \in {Tail(down), Abandoned(Tail(down))}
      /\ down' \in Seq(Events) /\ Len(down') <= QueueCapacity /\ Within(down', down)
      /\ up' \in Seq(Requests) /\ Len(up') <= QueueCapacity /\ Alone(up')
      /\ \A w, t : AllAskOn(up, w, t) => AllAskOn(up', w, t)
      /\ \A i \in DOMAIN down' : down'[i].kind = "list" /\ down'[i].of = "requests" => ~down'[i].more
  BY <1>1, <1>2, ReplacesIs
<1>4. PICK e \in Events : e = Head(down)
  BY <1>3
<1>5. /\ e.kind = "list" /\ e.of = of /\ e.entries \in Seq(Entry) /\ e.offset \in Nat /\ e.more \in BOOLEAN
      /\ Answer(e)
  BY <1>2, <1>4, EventFacts DEF Answer
<1>6. PICK selected \in Nat : selected = SelectedIn(e.entries) /\ (e.entries # <<>> => selected < Len(e.entries))
  <2>1. CASE overlay.kind = of
    <3>1. overlay.selected \in Nat
      BY <1>1, <2>1, OverlayFacts DEF TypeOK, IsList
    <3>2. SelectedIn(e.entries) = Lesser(overlay.selected, LastOf(e.entries))
      BY <1>4, <1>5, <2>1 DEF SelectedIn
    <3>3. QED
      BY <1>5, <3>1, <3>2, CursorMoves
  <2>2. CASE overlay.kind # of
    <3>1. SelectedIn(e.entries) = 0
      BY <1>4, <1>5, <2>2 DEF SelectedIn
    <3>2. e.entries # <<>> => 0 < Len(e.entries)
      BY <1>5
    <3>3. QED
      BY <3>1, <3>2
  <2>3. QED
    BY <2>1, <2>2
<1>7. overlay' = [kind |-> of, entries |-> e.entries, selected |-> selected,
                  loading |-> FALSE, offset |-> e.offset, more |-> e.more]
  BY <1>4, <1>6 DEF ReceivesList
<1>8. /\ overlay' \in Overlays /\ overlay'.kind = of /\ overlay'.entries = e.entries
      /\ overlay'.selected = selected /\ overlay'.offset = e.offset /\ overlay'.more = e.more
  BY <1>5, <1>7, OverlayFacts
<1>9. fate' \subseteq {"asked again", "ended by another"}
  BY <1>1, <1>2, FateTyped
<1>10. TypeOK'
  BY <1>1, <1>2, <1>3, <1>8, <1>9 DEF TypeOK
<1>11. CursorInList'
  BY <1>6, <1>8, <1>10 DEF CursorInList
<1>12. Fresh'
  <2>1. SUFFICES ASSUME ~stale
                 PROVE  /\ \A event \in LastAnswer(down') : SaysTruth(event, tables)
                        /\ NoListIn(down') => Shows(overlay', tables)
    BY <1>2 DEF Fresh
  <2>2. \A event \in LastAnswer(down) : SaysTruth(event, tables)
    BY <2>1 DEF ListsInv, Fresh
  <2>3. ASSUME NoListIn(down') PROVE Shows(overlay', tables)
    <3>1. e \in LastAnswer(down)
      BY <1>2, <1>3, <1>4, <1>5, <2>2, <2>3, LastWord DEF SaysTruth
    <3>2. SaysTruth(e, tables)
      BY <2>2, <3>1
    <3>3. QED
      BY <1>5, <1>8, <3>2 DEF SaysTruth, Shows
  <2>4. QED
    BY <1>3, <2>2, <2>3, WithinTruth
<1>13. Walks'
  <2>1. SUFFICES ASSUME walk.of # "requests"
                 PROVE  /\ AllAskOn(up', walk, tables)
                        /\ \A event \in LastAnswer(down') : GoesOn(event, walk, tables)
                        /\ NoListIn(down') /\ of = walk.of /\ e.more
                             => Reached(walk, tables, e.offset + PageSize)
    BY <1>2, <1>8 DEF Walks, AllAskOn
  <2>2. AllAskOn(up, walk, tables) /\ \A event \in LastAnswer(down) : GoesOn(event, walk, tables)
    BY <2>1 DEF ListsInv, Walks, AllAskOn
  <2>3. ASSUME NoListIn(down'), of = walk.of, e.more
        PROVE  Reached(walk, tables, e.offset + PageSize)
    <3>1. e \in LastAnswer(down)
      BY <1>2, <1>3, <1>4, <1>5, <2>2, <2>3, LastWord DEF GoesOn
    <3>2. QED
      BY <1>5, <2>2, <2>3, <3>1 DEF GoesOn
  <2>4. QED
    BY <1>3, <2>2, <2>3, WithinTruth
<1>14. OnePage'
  <2>1. 1 \in DOMAIN down /\ e = down[1]
    BY <1>2, <1>3, <1>4
  <2>2. of = "requests" => ~e.more
    BY <1>1, <1>5, <2>1 DEF OnePage
  <2>3. QED
    BY <1>3, <1>8, <2>2 DEF OnePage
<1>15. Complete(walk', tables')
  BY <1>2 DEF ListsInv
<1>16. QED
  BY <1>3, <1>11, <1>12, <1>13, <1>14, <1>15 DEF ListsInv

LEMMA TokenComesIn ==
    ASSUME ListsInv, ReceiveRotated
    PROVE  ListsInv'
<1>1. TypeOK /\ Alone(up) /\ OnePage
  BY DEF ListsInv, CursorInList
<1>2. /\ down # <<>> /\ overlay' = [kind |-> "token"] /\ FateAfter(FALSE)
      /\ UNCHANGED <<tables, dialogs, calm, stale, walk>>
      /\ (down' = Tail(down) /\ up' = up) \/ \E kind : Replaces(kind)
  BY DEF ReceiveRotated, Receives
<1>3. /\ down' \in Seq(Events) /\ Len(down') <= QueueCapacity /\ Within(down', down)
      /\ up' \in Seq(Requests) /\ Len(up') <= QueueCapacity /\ Alone(up')
      /\ \A w, t : AllAskOn(up, w, t) => AllAskOn(up', w, t)
      /\ \A i \in DOMAIN down' : down'[i].kind = "list" /\ down'[i].of = "requests" => ~down'[i].more
  BY <1>1, <1>2, ReplacesIs
<1>4. overlay' \in Overlays /\ ~IsList(overlay')
  BY <1>2, OverlayFacts
<1>5. fate' \subseteq {"asked again", "ended by another"}
  BY <1>1, <1>2, FateTyped
<1>6. TypeOK'
  BY <1>1, <1>2, <1>3, <1>4, <1>5 DEF TypeOK
<1>7. CursorIn(overlay')
  BY <1>4 DEF CursorIn
<1>8. QED
  BY <1>2, <1>3, <1>4, <1>6, <1>7, StaysTrue

\* An error comes: the last answer is not a list, so what is shown is stale, or a
\* list is still to come.
LEMMA ErrorComesIn ==
    ASSUME ListsInv, ReceiveError
    PROVE  ListsInv'
<1>1. TypeOK /\ Alone(up) /\ OnePage /\ CursorIn(overlay)
  BY DEF ListsInv, CursorInList, CursorIn
<1>2. /\ down # <<>> /\ Head(down).kind = "error" /\ down' = Tail(down) /\ up' = up
      /\ overlay' = IF IsList(overlay) THEN [overlay EXCEPT !.loading = FALSE] ELSE overlay
      /\ FateAfter(Head(down).to = "other" \/ ~Head(down).kept)
      /\ UNCHANGED <<tables, dialogs, calm, stale, walk>>
  BY DEF ReceiveError, Receives
<1>3. /\ down \in Seq(Events)
      /\ down' \in {Tail(down), Abandoned(Tail(down))}
      /\ down' \in Seq(Events) /\ Len(down') <= QueueCapacity /\ Within(down', down)
      /\ up' \in Seq(Requests) /\ Len(up') <= QueueCapacity /\ Alone(up')
      /\ \A i \in DOMAIN down' : down'[i].kind = "list" /\ down'[i].of = "requests" => ~down'[i].more
  BY <1>1, <1>2, ReplacesIs
<1>4. /\ overlay' \in Overlays /\ overlay'.kind = overlay.kind
      /\ IsList(overlay) => /\ overlay'.entries = overlay.entries /\ overlay'.more = overlay.more
                            /\ overlay'.selected = overlay.selected /\ overlay'.offset = overlay.offset
  <2>1. overlay \in Overlays
    BY <1>1 DEF TypeOK
  <2>2. QED
    BY <1>2, <2>1, OverlayUpdates
<1>5. fate' \subseteq {"asked again", "ended by another"}
  BY <1>1, <1>2, FateTyped
<1>6. TypeOK'
  BY <1>1, <1>2, <1>3, <1>4, <1>5 DEF TypeOK
<1>7. CursorInList'
  BY <1>1, <1>4, <1>6 DEF CursorInList, CursorIn, IsList
<1>8. ASSUME \A e \in LastAnswer(down) : e.kind = "list", NoListIn(down') PROVE FALSE
  <2>1. Head(down) \in LastAnswer(down)
    BY <1>2, <1>3, <1>8, LastWord DEF Answer
  <2>2. QED
    BY <1>2, <1>8, <2>1
<1>9. Fresh'
  <2>1. SUFFICES ASSUME ~stale
                 PROVE  (\A event \in LastAnswer(down') : SaysTruth(event, tables)) /\ ~NoListIn(down')
    BY <1>2 DEF Fresh
  <2>2. \A event \in LastAnswer(down) : SaysTruth(event, tables)
    BY <2>1 DEF ListsInv, Fresh
  <2>3. ~NoListIn(down')
    BY <1>8, <2>2 DEF SaysTruth
  <2>4. QED
    BY <1>3, <2>2, <2>3, WithinTruth
<1>10. Walks'
  <2>1. SUFFICES ASSUME walk.of # "requests"
                 PROVE  /\ AllAskOn(up', walk, tables)
                        /\ \A event \in LastAnswer(down') : GoesOn(event, walk, tables)
                        /\ ~NoListIn(down')
    BY <1>2 DEF Walks, AllAskOn
  <2>2. AllAskOn(up, walk, tables) /\ \A event \in LastAnswer(down) : GoesOn(event, walk, tables)
    BY <2>1 DEF ListsInv, Walks, AllAskOn
  <2>3. ~NoListIn(down')
    BY <1>8, <2>2 DEF GoesOn
  <2>4. QED
    BY <1>2, <1>3, <2>2, <2>3, WithinTruth
<1>11. OnePage'
  <2>1. overlay.kind = "requests" => IsList(overlay)
    BY DEF IsList, Lists
  <2>2. QED
    BY <1>1, <1>3, <1>4, <2>1 DEF OnePage
<1>12. Complete(walk', tables')
  BY <1>2 DEF ListsInv
<1>13. QED
  BY <1>3, <1>7, <1>9, <1>10, <1>11, <1>12 DEF ListsInv

LEMMA ReceiveKeeps ==
    ASSUME ListsInv, Receive
    PROVE  ListsInv'
<1>1. "requests" \in Lists /\ "members" \in Lists /\ "room" \in Lists
  BY DEF Lists
<1>2. CASE ReceiveJoinRequests
  BY <1>1, <1>2, ListComesIn DEF ReceiveJoinRequests
<1>3. CASE ReceiveGroupMembers
  BY <1>1, <1>3, ListComesIn DEF ReceiveGroupMembers
<1>4. CASE ReceiveRoomMembers
  BY <1>1, <1>4, ListComesIn DEF ReceiveRoomMembers
<1>5. CASE ReceiveRotated
  BY <1>5, TokenComesIn
<1>6. CASE ReceiveError
  BY <1>6, ErrorComesIn
<1>7. QED
  BY <1>2, <1>3, <1>4, <1>5, <1>6 DEF Receive, ReceiveList


-----------------------------------------------------------------------------
(* The keys *)

\* The dialog p shows no list and offers no page that o does not.
ShowsNoMore(o, p) ==
    /\ IsList(p) /\ ~p.loading =>
          /\ IsList(o) /\ ~o.loading
          /\ p.kind = o.kind /\ p.entries = o.entries /\ p.offset = o.offset
    /\ IsList(p) /\ p.more => IsList(o) /\ o.more /\ p.kind = o.kind /\ p.offset = o.offset

SoundQueue(requests) ==
    /\ requests \in Seq(Requests) /\ Len(requests) <= QueueCapacity
    /\ Alone(requests)
    /\ walk.of # "requests" /\ AllAskOn(up, walk, tables) => AllAskOn(requests, walk, tables)

LEMMA KeyKeeps ==
    ASSUME ListsInv, UNCHANGED <<tables, dialogs, walk>>, {calm', stale'} \subseteq BOOLEAN,
           stale => stale', SoundQueue(up'), down' \in {down, Abandoned(down)},
           overlay' \in Overlays, CursorIn(overlay'), ShowsNoMore(overlay, overlay'),
           fate' \subseteq {"asked again", "ended by another"}
    PROVE  ListsInv'
<1>1. TypeOK /\ OnePage /\ down \in Seq(Events) /\ Len(down) <= QueueCapacity
  BY DEF ListsInv, CursorInList, TypeOK
<1>2. /\ down' \in Seq(Events) /\ Len(down') <= QueueCapacity
      /\ Within(down', down) /\ (NoListIn(down') => NoListIn(down))
      /\ \A i \in DOMAIN down' : down'[i].kind = "list" /\ down'[i].of = "requests" => ~down'[i].more
  <2>1. CASE down' = down
    BY <1>1, <2>1, SameWithin DEF OnePage
  <2>2. CASE down' = Abandoned(down)
    <3>1. Within(down', down) /\ (NoListIn(down') => NoListIn(down))
      BY <1>1, <2>2, AbandonedWithin
    <3>2. /\ down' \in Seq(Events) /\ Len(down') = Len(down) /\ DOMAIN down' = DOMAIN down
          /\ \A i \in DOMAIN down : Twin(down'[i], down[i])
      BY <1>1, <2>2, AbandonedEvents DEF Twin
    <3>3. QED
      BY <1>1, <3>1, <3>2 DEF OnePage, Twin
  <2>3. QED
    BY <2>1, <2>2
<1>3. TypeOK'
  BY <1>1, <1>2 DEF TypeOK, SoundQueue
<1>4. /\ Alone(up')
      /\ walk.of # "requests" /\ AllAskOn(up, walk, tables) => AllAskOn(up', walk, tables)
  BY DEF SoundQueue
<1>5. QED
  BY <1>2, <1>3, <1>4, StaysTrue DEF ShowsNoMore

LEMMA SameQueue ==
    ASSUME ListsInv
    PROVE  /\ SoundQueue(up) /\ SoundQueue(Abandoned(up))
           /\ {calm, stale} \subseteq BOOLEAN /\ overlay \in Overlays /\ CursorIn(overlay)
           /\ fate \subseteq {"asked again", "ended by another"}
<1>1. up \in Seq(Requests) /\ Len(up) <= QueueCapacity /\ Alone(up)
  BY DEF ListsInv, CursorInList, TypeOK
<1>2. SoundQueue(up)
  BY <1>1 DEF SoundQueue
<1>3. SoundQueue(Abandoned(up))
  BY <1>1, LeftRequests DEF SoundQueue
<1>4. QED
  BY <1>2, <1>3 DEF ListsInv, CursorInList, CursorIn, TypeOK

\* A request finds room in the queue, or not.
LEMMA AsksIs ==
    ASSUME ListsInv, NEW r \in Requests, Asks(r),
           IsNext(r) => /\ r.of # "requests"
                        /\ \A i \in DOMAIN up : up[i].kind = "other"
                        /\ walk.of # "requests" => AsksOn(r, walk, tables)
    PROVE  SoundQueue(up') /\ (stale => stale') /\ stale' \in BOOLEAN
<1>1. up \in Seq(Requests) /\ Len(up) <= QueueCapacity /\ Alone(up)
  BY DEF ListsInv, CursorInList, TypeOK
<1>2. stale' = (stale \/ ~HasRoom) /\ up' = IF HasRoom THEN Append(up, r) ELSE up
  BY DEF Asks
<1>3. stale \in BOOLEAN
  BY DEF ListsInv, CursorInList, TypeOK
<1>4. (stale => stale') /\ stale' \in BOOLEAN
  BY <1>2, <1>3
<1>5. CASE HasRoom
  <2>1. up' = Append(up, r)
    BY <1>2, <1>5
  <2>2. PICK s \in Seq(Requests) : s = up
    BY <1>1
  <2>3. PICK n \in Nat : n = Len(s)
    OBVIOUS
  <2>4. PICK capacity \in Nat : capacity = QueueCapacity
    BY DialogsAssumption
  <2>5. n < capacity
    BY <1>5, <2>2, <2>3, <2>4 DEF HasRoom
  <2>6. /\ Append(s, r) \in Seq(Requests) /\ Len(Append(s, r)) = n + 1
        /\ Alone(Append(s, r))
        /\ \A w, t : AllAskOn(s, w, t) /\ AsksOn(r, w, t) => AllAskOn(Append(s, r), w, t)
    BY <1>1, <2>2, <2>3, AddedRequest
  <2>7. n + 1 <= capacity
    BY <2>5
  <2>8. ~IsNext(r) => AsksOn(r, walk, tables)
    BY DEF AsksOn
  <2>9. QED
    BY <1>4, <2>1, <2>2, <2>4, <2>6, <2>7, <2>8 DEF SoundQueue
<1>6. CASE ~HasRoom
  BY <1>2, <1>4, <1>6, SameQueue
<1>7. QED
  BY <1>5, <1>6

LEMMA OpensKeeps ==
    ASSUME ListsInv, NEW of \in Lists, Opens(of)
    PROVE  ListsInv'
<1>1. PICK o : o = [kind |-> of, entries |-> <<>>, selected |-> 0,
                    loading |-> TRUE, offset |-> 0, more |-> FALSE]
  OBVIOUS
<1>2. o \in Overlays /\ CursorIn(o) /\ ShowsNoMore(overlay, o)
  <2>1. <<>> \in Seq(Entry)
    OBVIOUS
  <2>2. o \in Overlays
    BY <1>1, <2>1, OverlayFacts
  <2>3. QED
    BY <1>1, <2>2 DEF CursorIn, ShowsNoMore
<1>3. /\ overlay' = o /\ Asks(ListRequest(of, 0, FALSE))
      /\ UNCHANGED <<tables, dialogs, calm, down, fate, walk>>
  BY <1>1 DEF Opens
<1>4. ListRequest(of, 0, FALSE) \in Requests /\ ~IsNext(ListRequest(of, 0, FALSE))
  BY RequestFacts DEF ListRequest, IsNext
<1>5. SoundQueue(up') /\ (stale => stale') /\ stale' \in BOOLEAN
  BY <1>3, <1>4, AsksIs
<1>6. QED
  BY <1>2, <1>3, <1>5, SameQueue, KeyKeeps

LEMMA OpenLocalKeeps ==
    ASSUME ListsInv, OpenLocal
    PROVE  ListsInv'
<1>1. /\ overlay' \in {[kind |-> "text"], [kind |-> "rotate", confirming |-> FALSE]}
      /\ UNCHANGED <<tables, dialogs, calm, up, down, fate, stale, walk>>
  BY DEF OpenLocal
<1>2. overlay' \in Overlays /\ ~IsList(overlay')
  BY <1>1, OverlayFacts
<1>3. CursorIn(overlay') /\ ShowsNoMore(overlay, overlay')
  BY <1>2 DEF CursorIn, ShowsNoMore
<1>4. SoundQueue(up')
  BY <1>1, SameQueue
<1>5. QED
  BY <1>1, <1>2, <1>3, <1>4, SameQueue, KeyKeeps

LEMMA CloseKeeps ==
    ASSUME ListsInv, Close
    PROVE  ListsInv'
<1>1. /\ overlay' = Closed /\ up' = Abandoned(up) /\ down' = Abandoned(down)
      /\ UNCHANGED <<tables, dialogs, calm, fate, stale, walk>>
  BY DEF Close
<1>2. overlay' \in Overlays /\ ~IsList(overlay')
  BY <1>1, OverlayFacts
<1>3. CursorIn(overlay') /\ ShowsNoMore(overlay, overlay')
  BY <1>2 DEF CursorIn, ShowsNoMore
<1>4. SoundQueue(up')
  BY <1>1, SameQueue
<1>5. QED
  BY <1>1, <1>2, <1>3, <1>4, SameQueue, KeyKeeps

LEMMA SendOtherKeeps ==
    ASSUME ListsInv, SendOther
    PROVE  ListsInv'
<1>1. PICK r \in Requests : r = [kind |-> "other", kept |-> TRUE] /\ ~IsNext(r)
  BY RequestFacts DEF IsNext
<1>2. /\ overlay' = Closed /\ Asks(r)
      /\ UNCHANGED <<tables, dialogs, calm, down, fate, walk>>
  BY <1>1 DEF SendOther
<1>3. overlay' \in Overlays /\ ~IsList(overlay')
  BY <1>2, OverlayFacts
<1>4. CursorIn(overlay') /\ ShowsNoMore(overlay, overlay')
  BY <1>3 DEF CursorIn, ShowsNoMore
<1>5. SoundQueue(up') /\ (stale => stale') /\ stale' \in BOOLEAN
  BY <1>1, <1>2, AsksIs
<1>6. QED
  BY <1>2, <1>3, <1>4, <1>5, SameQueue, KeyKeeps

\* The cursor stops at the ends of the list.
LEMMA MoveCursorKeeps ==
    ASSUME ListsInv, MoveCursor
    PROVE  ListsInv'
<1>1. UNCHANGED <<tables, dialogs, calm, up, down, fate, stale, walk>>
  BY DEF MoveCursor
<1>2. overlay \in Overlays /\ CursorIn(overlay) /\ SoundQueue(up')
  BY <1>1, SameQueue
<1>3. CASE IsList(overlay) /\ overlay' \in
              { [overlay EXCEPT !.selected = Minus(@, 1)],
                [overlay EXCEPT !.selected = Lesser(@ + 1, LastOf(overlay.entries))] }
  <2>1. overlay.entries \in Seq(Entry) /\ overlay.selected \in Nat
    BY <1>2, <1>3, OverlayFacts
  <2>2. PICK entries \in Seq(Entry), old \in Nat : entries = overlay.entries /\ old = overlay.selected
    BY <2>1
  <2>3. /\ Lesser(old + 1, LastOf(entries)) \in Nat
        /\ entries # <<>> => Lesser(old + 1, LastOf(entries)) < Len(entries)
        /\ Minus(old, 1) \in Nat /\ Minus(old, 1) <= old
    BY CursorMoves
  <2>4. PICK length \in Nat : length = Len(entries)
    OBVIOUS
  <2>5. entries # <<>> => old < length
    BY <1>2, <1>3, <2>2, <2>4 DEF CursorIn
  <2>6. \E selected \in Nat : /\ overlay' = [overlay EXCEPT !.selected = selected]
                              /\ entries # <<>> => selected < length
    <3>1. CASE overlay' = [overlay EXCEPT !.selected = Minus(@, 1)]
      <4>1. overlay' = [overlay EXCEPT !.selected = Minus(old, 1)]
        BY <2>2, <3>1
      <4>2. PICK selected \in Nat : selected = Minus(old, 1) /\ selected <= old
        BY <2>3
      <4>3. entries # <<>> => selected < length
        BY <2>5, <4>2
      <4>4. QED
        BY <4>1, <4>2, <4>3
    <3>2. CASE overlay' = [overlay EXCEPT !.selected = Lesser(@ + 1, LastOf(overlay.entries))]
      <4>1. overlay' = [overlay EXCEPT !.selected = Lesser(old + 1, LastOf(entries))]
        BY <2>2, <3>2
      <4>2. QED
        BY <2>3, <2>4, <4>1
    <3>3. QED
      BY <1>3, <3>1, <3>2
  <2>7. PICK selected \in Nat : /\ overlay' = [overlay EXCEPT !.selected = selected]
                                /\ entries # <<>> => selected < length
    BY <2>6
  <2>8. /\ overlay' \in Overlays /\ overlay'.kind = overlay.kind /\ overlay'.entries = entries
        /\ overlay'.offset = overlay.offset /\ overlay'.more = overlay.more
        /\ overlay'.loading = overlay.loading /\ overlay'.selected = selected
    BY <1>2, <1>3, <2>2, <2>7, ListUpdates DEF SameList
  <2>9. CursorIn(overlay') /\ ShowsNoMore(overlay, overlay')
    BY <1>3, <2>2, <2>4, <2>7, <2>8 DEF CursorIn, ShowsNoMore
  <2>10. QED
    BY <1>1, <1>2, <2>8, <2>9, SameQueue, KeyKeeps
<1>4. CASE overlay.kind = "rotate" /\ overlay' = [overlay EXCEPT !.confirming = FALSE]
  <2>1. overlay' \in Overlays /\ overlay'.kind = "rotate"
    BY <1>2, <1>4, OverlayUpdates
  <2>2. ~IsList(overlay')
    BY <2>1 DEF IsList, Lists
  <2>3. CursorIn(overlay') /\ ShowsNoMore(overlay, overlay')
    BY <2>2 DEF CursorIn, ShowsNoMore
  <2>4. QED
    BY <1>1, <1>2, <2>1, <2>3, SameQueue, KeyKeeps
<1>5. QED
  BY <1>3, <1>4 DEF MoveCursor

\* The list waits, and the cursor is where it was or at the top.
LEMMA ListWaits ==
    ASSUME ListsInv, IsList(overlay),
           overlay' \in {[overlay EXCEPT !.loading = TRUE],
                         [overlay EXCEPT !.loading = TRUE, !.selected = 0]}
    PROVE  overlay' \in Overlays /\ CursorIn(overlay') /\ ShowsNoMore(overlay, overlay')
<1>1. overlay \in Overlays /\ CursorIn(overlay)
  BY SameQueue
<1>2. /\ overlay.selected \in Nat /\ overlay.entries \in Seq(Entry)
  BY <1>1, OverlayFacts
<1>4. /\ overlay' \in Overlays /\ overlay'.kind = overlay.kind /\ overlay'.entries = overlay.entries
      /\ overlay'.offset = overlay.offset /\ overlay'.more = overlay.more /\ overlay'.loading = TRUE
      /\ overlay'.selected = overlay.selected \/ overlay'.selected = 0
  BY <1>1, <1>2, ListUpdates DEF SameList
<1>5. overlay.entries # <<>> => 0 < Len(overlay.entries)
  BY <1>2
<1>6. QED
  BY <1>1, <1>4, <1>5 DEF CursorIn, ShowsNoMore

LEMMA RefreshKeeps ==
    ASSUME ListsInv, Refresh
    PROVE  ListsInv'
<1>1. /\ IsList(overlay) /\ overlay' = [overlay EXCEPT !.loading = TRUE]
      /\ Asks(ListRequest(overlay.kind, overlay.offset, FALSE))
      /\ UNCHANGED <<tables, dialogs, calm, down, walk>>
  BY DEF Refresh
<1>2. overlay' \in Overlays /\ CursorIn(overlay') /\ ShowsNoMore(overlay, overlay')
  BY <1>1, ListWaits
<1>3. overlay.kind \in Lists /\ overlay.offset \in Nat
  BY <1>1, SameQueue, OverlayFacts
<1>4. PICK r \in Requests : r = ListRequest(overlay.kind, overlay.offset, FALSE) /\ ~IsNext(r)
  BY <1>3, RequestFacts DEF ListRequest, IsNext
<1>5. SoundQueue(up') /\ (stale => stale') /\ stale' \in BOOLEAN
  BY <1>1, <1>4, AsksIs
<1>6. fate' \subseteq {"asked again", "ended by another"}
  BY SameQueue DEF Refresh
<1>7. QED
  BY <1>1, <1>2, <1>5, <1>6, SameQueue, KeyKeeps

LEMMA PageDownKeeps ==
    ASSUME ListsInv, PageDown
    PROVE  ListsInv'
<1>1. /\ IsList(overlay) /\ overlay.more
      /\ overlay' = [overlay EXCEPT !.loading = TRUE, !.selected = 0]
      /\ Asks(ListRequest(overlay.kind, overlay.offset + PageSize, ~Awaited))
      /\ UNCHANGED <<tables, dialogs, calm, down, fate, walk>>
  BY DEF PageDown, TurnTo
<1>2. overlay' \in Overlays /\ CursorIn(overlay') /\ ShowsNoMore(overlay, overlay')
  BY <1>1, ListWaits
<1>3. overlay.kind \in Lists /\ overlay.offset + PageSize \in Nat
  <2>1. overlay.kind \in Lists /\ overlay.offset \in Nat
    BY <1>1, SameQueue, OverlayFacts
  <2>2. PageSize \in Nat
    BY DialogsAssumption
  <2>3. QED
    BY <2>1, <2>2
<1>4. PICK offset \in Nat : offset = overlay.offset + PageSize
  BY <1>3
<1>5. PICK next \in BOOLEAN : next <=> ~Awaited
  OBVIOUS
<1>6. PICK r \in Requests : r = ListRequest(overlay.kind, offset, ~Awaited)
  BY <1>3, RequestFacts DEF ListRequest
<1>7. /\ r.kind = "list" /\ r.of = overlay.kind /\ r.offset = offset /\ (IsNext(r) => ~Awaited)
  BY <1>6 DEF ListRequest, IsNext
<1>8. ASSUME IsNext(r)
      PROVE  /\ r.of # "requests" /\ \A i \in DOMAIN up : up[i].kind = "other"
             /\ walk.of # "requests" => AsksOn(r, walk, tables)
  <2>1. r.of # "requests"
    BY <1>1, <1>7 DEF ListsInv, OnePage
  <2>2. (\A i \in DOMAIN up : up[i].kind = "other") /\ NoListIn(down)
    BY <1>7, <1>8 DEF Awaited, AwaitedIn, NoListIn
  <2>3. ASSUME walk.of # "requests", r.of = walk.of PROVE Reached(walk, tables, r.offset)
    BY <1>1, <1>4, <1>7, <2>2, <2>3 DEF ListsInv, Walks
  <2>4. QED
    BY <2>1, <2>2, <2>3 DEF AsksOn
<1>9. SoundQueue(up') /\ (stale => stale') /\ stale' \in BOOLEAN
  BY <1>1, <1>4, <1>6, <1>8, AsksIs
<1>10. QED
  BY <1>1, <1>2, <1>9, SameQueue, KeyKeeps

LEMMA PageUpKeeps ==
    ASSUME ListsInv, PageUp
    PROVE  ListsInv'
<1>1. /\ IsList(overlay)
      /\ overlay' = [overlay EXCEPT !.loading = TRUE, !.selected = 0]
      /\ Asks(ListRequest(overlay.kind, Minus(overlay.offset, PageSize), FALSE))
      /\ UNCHANGED <<tables, dialogs, calm, down, fate, walk>>
  BY DEF PageUp, TurnTo
<1>2. overlay' \in Overlays /\ CursorIn(overlay') /\ ShowsNoMore(overlay, overlay')
  BY <1>1, ListWaits
<1>3. overlay.kind \in Lists /\ Minus(overlay.offset, PageSize) \in Nat
  <2>1. overlay.kind \in Lists /\ overlay.offset \in Nat
    BY <1>1, SameQueue, OverlayFacts
  <2>2. PageSize \in Nat
    BY DialogsAssumption
  <2>3. QED
    BY <2>1, <2>2 DEF Minus
<1>4. PICK offset \in Nat : offset = Minus(overlay.offset, PageSize)
  BY <1>3
<1>5. PICK r \in Requests : r = ListRequest(overlay.kind, offset, FALSE) /\ ~IsNext(r)
  <2>1. overlay.kind \in Lists
    BY <1>3
  <2>2. ListRequest(overlay.kind, offset, FALSE) \in Requests
    BY <2>1, RequestFacts DEF ListRequest
  <2>3. ~IsNext(ListRequest(overlay.kind, offset, FALSE))
    BY DEF ListRequest, IsNext
  <2>4. QED
    BY <2>2, <2>3
<1>6. Asks(r)
  BY <1>1, <1>4, <1>5
<1>7. SoundQueue(up') /\ (stale => stale') /\ stale' \in BOOLEAN
  BY <1>5, <1>6, AsksIs
<1>8. QED
  BY <1>1, <1>2, <1>7, SameQueue, KeyKeeps

\* A decision is about someone who is listed.
LEMMA DecidesKeeps ==
    ASSUME ListsInv, NEW of \in Lists, overlay.kind = of, overlay.entries # <<>>,
           NEW on \in BOOLEAN,
           Asks([kind |-> "decide", of |-> of, id |-> overlay.entries[overlay.selected + 1].id,
                 on |-> on, kept |-> TRUE]),
           overlay' = Waiting(overlay),
           UNCHANGED <<tables, dialogs, calm, down, fate, walk>>
    PROVE  ListsInv'
<1>1. IsList(overlay)
  BY DEF IsList
<1>2. overlay' \in Overlays /\ CursorIn(overlay') /\ ShowsNoMore(overlay, overlay')
  BY <1>1, ListWaits DEF Waiting
<1>3. PICK entries \in Seq(Entry), selected \in Nat :
           entries = overlay.entries /\ selected = overlay.selected
  BY <1>1, SameQueue, OverlayFacts
<1>4. entries # <<>> /\ selected < Len(entries)
  BY <1>1, <1>3, SameQueue DEF CursorIn
<1>5. PICK id \in Id : id = entries[selected + 1].id
  <2>1. PICK length \in Nat : length = Len(entries) /\ DOMAIN entries = 1..length
    OBVIOUS
  <2>2. selected + 1 \in 1..length
    BY <1>4, <2>1
  <2>3. entries[selected + 1] \in Entry
    BY <2>1, <2>2
  <2>4. QED
    BY <2>3 DEF Entry
<1>6. PICK r \in Requests : r = [kind |-> "decide", of |-> of, id |-> id, on |-> on, kept |-> TRUE] /\ ~IsNext(r)
  BY RequestFacts DEF IsNext
<1>7. Asks(r)
  BY <1>3, <1>5, <1>6
<1>8. SoundQueue(up') /\ (stale => stale') /\ stale' \in BOOLEAN
  BY <1>6, <1>7, AsksIs
<1>9. QED
  BY <1>2, <1>8, SameQueue, KeyKeeps

LEMMA DecisionsKeep ==
    ASSUME ListsInv, ApproveOrReject \/ BanOrUnban \/ IncludeOrNot
    PROVE  ListsInv'
<1>1. "requests" \in Lists /\ "members" \in Lists /\ "room" \in Lists
  BY DEF Lists
<1>2. CASE ApproveOrReject
  <2>1. PICK on \in BOOLEAN :
             Asks([kind |-> "decide", of |-> "requests", id |-> overlay.entries[overlay.selected + 1].id,
                   on |-> on, kept |-> TRUE])
    BY <1>2 DEF ApproveOrReject, Decides
  <2>2. QED
    BY <1>1, <1>2, <2>1, DecidesKeeps DEF ApproveOrReject, Decides
<1>3. CASE BanOrUnban
  <2>1. PICK on \in Opposite(overlay.entries[overlay.selected + 1]) :
             Asks([kind |-> "decide", of |-> "members", id |-> overlay.entries[overlay.selected + 1].id,
                   on |-> on, kept |-> TRUE])
    BY <1>3 DEF BanOrUnban, Decides
  <2>2. on \in BOOLEAN
    BY DEF Opposite
  <2>3. QED
    BY <1>1, <1>3, <2>1, <2>2, DecidesKeeps DEF BanOrUnban, Decides
<1>4. CASE IncludeOrNot
  <2>1. PICK on \in Opposite(overlay.entries[overlay.selected + 1]) :
             Asks([kind |-> "decide", of |-> "room", id |-> overlay.entries[overlay.selected + 1].id,
                   on |-> on, kept |-> TRUE])
    BY <1>4 DEF IncludeOrNot, Decides
  <2>2. on \in BOOLEAN
    BY DEF Opposite
  <2>3. QED
    BY <1>1, <1>4, <2>1, <2>2, DecidesKeeps DEF IncludeOrNot, Decides
<1>5. QED
  BY <1>2, <1>3, <1>4

LEMMA RotateKeeps ==
    ASSUME ListsInv, Rotate
    PROVE  ListsInv'
<1>1. /\ overlay.kind = "rotate"
      /\ UNCHANGED <<tables, dialogs, calm, down, fate, walk>>
  BY DEF Rotate
<1>2. overlay \in Overlays
  BY SameQueue
<1>3. overlay' \in Overlays /\ overlay'.kind = "rotate"
  <2>1. CASE overlay' = overlay
    BY <1>1, <1>2, <2>1
  <2>2. CASE overlay' = [overlay EXCEPT !.confirming = TRUE]
    BY <1>1, <1>2, <2>2, OverlayUpdates
  <2>3. QED
    BY <2>1, <2>2 DEF Rotate
<1>4. ~IsList(overlay')
  BY <1>3 DEF IsList, Lists
<1>5. CursorIn(overlay') /\ ShowsNoMore(overlay, overlay')
  BY <1>4 DEF CursorIn, ShowsNoMore
<1>6. SoundQueue(up') /\ (stale => stale') /\ stale' \in BOOLEAN
  <2>1. CASE overlay.confirming
    <3>1. PICK r \in Requests : r = [kind |-> "rotate", kept |-> TRUE] /\ ~IsNext(r)
      BY RequestFacts DEF IsNext
    <3>2. Asks(r)
      BY <2>1, <3>1 DEF Rotate
    <3>3. QED
      BY <3>1, <3>2, AsksIs
  <2>2. CASE ~overlay.confirming
    <3>1. up' = up /\ stale' = stale
      BY <2>2 DEF Rotate
    <3>2. QED
      BY <3>1, SameQueue
  <2>3. QED
    BY <2>1, <2>2
<1>7. QED
  BY <1>1, <1>3, <1>5, <1>6, SameQueue, KeyKeeps

\* Nothing that the invariant is about has changed.
LEMMA SettledKeeps ==
    ASSUME ListsInv, UNCHANGED <<tables, dialogs, up, down, overlay, fate, stale, walk>>, calm' \in BOOLEAN
    PROVE  ListsInv'
<1>1. SoundQueue(up') /\ CursorIn(overlay') /\ overlay' \in Overlays
  BY SameQueue
<1>2. ShowsNoMore(overlay, overlay')
  BY DEF ShowsNoMore
<1>3. QED
  BY <1>1, <1>2, SameQueue, KeyKeeps

-----------------------------------------------------------------------------
(* The theorems *)

LEMMA ListsInit ==
    ASSUME Init
    PROVE  ListsInv
<1>1. /\ up = <<>> /\ down = <<>> /\ overlay \in {Closed, [kind |-> "token"]}
      /\ stale = TRUE /\ walk = NoWalk /\ calm = FALSE /\ fate = {} /\ dialogs \in Dialogs
  BY DEF Init
<1>2. tables \in Tables
  BY DialogsAssumption DEF Init, Tables
<1>3. overlay \in Overlays /\ ~IsList(overlay) /\ overlay.kind # "requests"
  <2>1. overlay \in Overlays /\ ~IsList(overlay)
    BY <1>1, OverlayFacts
  <2>2. QED
    BY <2>1 DEF IsList, Lists
<1>4. QueueCapacity \in Nat
  BY DialogsAssumption
<1>5. /\ up \in Seq(Requests) /\ Len(up) <= QueueCapacity
      /\ down \in Seq(Events) /\ Len(down) <= QueueCapacity
  <2>1. Len(<<>>) = 0
    OBVIOUS
  <2>2. QED
    BY <1>1, <1>4, <2>1
<1>6. TypeOK
  BY <1>1, <1>2, <1>3, <1>5, NoWalkIs DEF TypeOK, Tables, NoWalkFacts
<1>7. CursorInList
  BY <1>3, <1>6 DEF CursorInList
<1>8. Complete(walk, tables) /\ Walks
  BY <1>1, NoWalkIs DEF Complete, Walks, NoWalkFacts
<1>9. Fresh
  BY <1>1 DEF Fresh
<1>10. Alone(up) /\ OnePage
  <2>1. DOMAIN up = {} /\ DOMAIN down = {}
    BY <1>1
  <2>2. QED
    BY <1>3, <2>1 DEF Alone, OnePage
<1>11. QED
  BY <1>7, <1>8, <1>9, <1>10 DEF ListsInv

LEMMA ListsNext ==
    ASSUME ListsInv, [Next]_vars
    PROVE  ListsInv'
<1>1. "requests" \in Lists /\ "members" \in Lists /\ "room" \in Lists
  BY DEF Lists
<1>2. CASE Serve
  BY <1>2, ServeKeeps
<1>3. CASE OthersDecide
  BY <1>3, OthersDecideKeeps
<1>4. CASE Receive
  BY <1>4, ReceiveKeeps
<1>5. CASE OpenJoinRequests \/ OpenRoomMembers \/ OpenGroupMembers
  BY <1>1, <1>5, OpensKeeps DEF OpenJoinRequests, OpenRoomMembers, OpenGroupMembers
<1>6. CASE OpenLocal
  BY <1>6, OpenLocalKeeps
<1>7. CASE Close
  BY <1>7, CloseKeeps
<1>8. CASE SendOther
  BY <1>8, SendOtherKeeps
<1>9. CASE MoveCursor
  BY <1>9, MoveCursorKeeps
<1>10. CASE Refresh
  BY <1>10, RefreshKeeps
<1>11. CASE PageDown
  BY <1>11, PageDownKeeps
<1>12. CASE PageUp
  BY <1>12, PageUpKeeps
<1>13. CASE ApproveOrReject \/ BanOrUnban \/ IncludeOrNot
  BY <1>13, DecisionsKeep
<1>14. CASE Rotate
  BY <1>14, RotateKeeps
<1>15. CASE Settle
  <2>1. UNCHANGED <<tables, dialogs, up, down, overlay, fate, stale, walk>> /\ calm' \in BOOLEAN
    BY <1>15 DEF Settle
  <2>2. QED
    BY <2>1, SettledKeeps
<1>16. CASE UNCHANGED vars
  <2>1. UNCHANGED <<tables, dialogs, up, down, overlay, fate, stale, walk>> /\ calm' = calm
    BY <1>16 DEF vars
  <2>2. calm' \in BOOLEAN
    BY <2>1, SameQueue
  <2>3. QED
    BY <2>1, <2>2, SettledKeeps
<1>17. QED
  BY <1>2, <1>3, <1>4, <1>5, <1>6, <1>7, <1>8, <1>9, <1>10, <1>11, <1>12, <1>13, <1>14, <1>15, <1>16
     DEF Next

LEMMA ListsInvariant == Spec => []ListsInv
<1>1. Init => ListsInv
  BY ListsInit
<1>2. ListsInv /\ [Next]_vars => ListsInv'
  BY ListsNext
<1>3. QED
  BY <1>1, <1>2, PTL DEF Spec

\* A decision never indexes past the end of the list on the screen: the cursor is in
\* every list that an answer brings, however much shorter it is (apply_event), and
\* wherever a key moves it (handle_overlay_key).
THEOREM CursorInListCorrect == Spec => []CursorInList
<1>1. ListsInv => CursorInList
  BY DEF ListsInv
<1>2. QED
  BY <1>1, ListsInvariant, PTL

\* While the user may decide, the list is the page that the store would return now
\* (GatewayStore::list_group_members and the others), unless someone else has changed
\* the table or an answer was lost; and who pages down to the end has been sent every
\* member, whatever the page size, the tables and the queues.
THEOREM ListsAreTrueCorrect == Spec => []ListsAreTrue
<1>1. ListsInv => ListsAreTrue
  <2>1. SUFFICES ASSUME ListsInv PROVE CompleteWalk /\ ShowsTruth
    BY DEF ListsAreTrue
  <2>2. CompleteWalk
    BY <2>1 DEF ListsInv, Complete, CompleteWalk
  <2>3. ASSUME IsList(overlay), ~overlay.loading, ~Awaited, ~stale
        PROVE  overlay.entries = Page(overlay.kind, RowsOf(overlay.kind, tables), overlay.offset)
    <3>1. NoListIn(down)
      BY <2>3 DEF Awaited, AwaitedIn, NoListIn
    <3>2. QED
      BY <2>1, <2>3, <3>1 DEF ListsInv, Fresh, Shows
  <2>4. QED
    BY <2>2, <2>3 DEF ShowsTruth
<1>2. QED
  BY <1>1, ListsInvariant, PTL


-----------------------------------------------------------------------------
(* Whose answers are awaited *)

\* What is kept belongs to the dialog o; a token may have come before the next one.
Owns(x, o) ==
    x.kept =>
        /\ x.kind \in {"list", "decide"} => o.kind = x.of
        /\ x.kind = "error" /\ x.to \in {"list", "decide"} => IsList(o)
        /\ x.kind \in {"rotate", "rotated"} \/ (x.kind = "error" /\ x.to = "rotate")
             => o.kind \in {"rotate", "token"}
AllOwn(s, o) == \A i \in DOMAIN s : Owns(s[i], o)

\* The list shown waits for this.
Waits(x) ==
    x.kept /\ (x.kind \in {"list", "decide"} \/ (x.kind = "error" /\ x.to \in {"list", "decide"}))
NoneWaits(s) == \A i \in DOMAIN s : ~Waits(s[i])
AtMostOne(s) == \A i, j \in DOMAIN s : Waits(s[i]) /\ Waits(s[j]) => i = j

\* If the dialog was not asked twice and nothing else has ended its waiting, it waits
\* for one thing, or for nothing.
AtMostOneIn(requests, events) ==
    AtMostOne(requests) /\ AtMostOne(events) /\ (NoneWaits(requests) \/ NoneWaits(events))
Expected ==
    fate = {} =>
        /\ AtMostOneIn(up, down)
        /\ IsList(overlay) /\ ~overlay.loading => NoneWaits(up) /\ NoneWaits(down)

KeptInv == AllOwn(up, overlay) /\ AllOwn(down, overlay) /\ Expected

LEMMA OwnsByKind ==
    ASSUME NEW o, NEW p, o.kind = p.kind, NEW s
    PROVE  AllOwn(s, o) <=> AllOwn(s, p)
  BY DEF AllOwn, Owns, IsList

LEMMA TakenWaits ==
    ASSUME NEW S, NEW s \in Seq(S), s # <<>>, NEW o
    PROVE  /\ AllOwn(s, o) => AllOwn(Tail(s), o) /\ Owns(Head(s), o)
           /\ AtMostOne(s) => AtMostOne(Tail(s)) /\ (Waits(Head(s)) => NoneWaits(Tail(s)))
           /\ NoneWaits(s) => NoneWaits(Tail(s)) /\ ~Waits(Head(s))
<1>1. PICK n \in Nat : n + 1 = Len(s) /\ DOMAIN s = 1..(n + 1)
  <2>1. Len(s) \in Nat \ {0} /\ DOMAIN s = 1..Len(s)
    OBVIOUS
  <2>2. Len(s) - 1 \in Nat /\ (Len(s) - 1) + 1 = Len(s)
    BY <2>1
  <2>3. QED
    BY <2>1, <2>2
<1>2. PICK t : t = Tail(s)
  OBVIOUS
<1>3. DOMAIN t = 1..n /\ \A i \in 1..n : t[i] = s[i + 1]
  <2>1. t \in Seq(S) /\ Len(t) = Len(s) - 1 /\ \A i \in 1..Len(t) : t[i] = s[i + 1]
    BY <1>2, HeadTailProperties
  <2>2. QED
    BY <1>1, <2>1
<1>4. Head(s) = s[1] /\ 1 \in DOMAIN s
  BY <1>1
<1>5. /\ \A i \in 1..n : i + 1 \in DOMAIN s /\ i + 1 # 1
      /\ \A i, j \in 1..n : i + 1 = j + 1 => i = j
  BY <1>1
<1>6. AllOwn(s, o) => AllOwn(t, o) /\ Owns(s[1], o)
  BY <1>3, <1>4, <1>5 DEF AllOwn
<1>7. AtMostOne(s) => AtMostOne(t) /\ (Waits(s[1]) => NoneWaits(t))
  BY <1>3, <1>4, <1>5 DEF AtMostOne, NoneWaits
<1>8. NoneWaits(s) => NoneWaits(t) /\ ~Waits(s[1])
  BY <1>3, <1>4, <1>5 DEF NoneWaits
<1>9. QED
  BY <1>2, <1>4, <1>6, <1>7, <1>8

LEMMA AddedWaits ==
    ASSUME NEW S, NEW s \in Seq(S), NEW x \in S, NEW o
    PROVE  /\ AllOwn(s, o) /\ Owns(x, o) => AllOwn(Append(s, x), o)
           /\ AtMostOne(s) /\ (Waits(x) => NoneWaits(s)) => AtMostOne(Append(s, x))
           /\ NoneWaits(s) /\ ~Waits(x) => NoneWaits(Append(s, x))
<1>1. PICK n \in Nat : n = Len(s) /\ DOMAIN s = 1..n
  OBVIOUS
<1>2. PICK t : t = Append(s, x)
  OBVIOUS
<1>3. DOMAIN t = 1..(n + 1) /\ t[n + 1] = x /\ \A i \in 1..n : t[i] = s[i]
  BY <1>1, <1>2
<1>4. \A i \in DOMAIN t : i \in 1..n \/ i = n + 1
  BY <1>3
<1>5. AllOwn(s, o) /\ Owns(x, o) => AllOwn(t, o)
  BY <1>1, <1>3, <1>4 DEF AllOwn
<1>6. AtMostOne(s) /\ (Waits(x) => NoneWaits(s)) => AtMostOne(t)
  BY <1>1, <1>3, <1>4 DEF AtMostOne, NoneWaits
<1>7. NoneWaits(s) /\ ~Waits(x) => NoneWaits(t)
  BY <1>1, <1>3, <1>4 DEF NoneWaits
<1>8. QED
  BY <1>2, <1>5, <1>6, <1>7

\* Nobody waits for what was abandoned.
LEMMA AbandonedWaits ==
    ASSUME NEW s \in Seq(Requests) \cup Seq(Events), NEW o
    PROVE  AllOwn(Abandoned(s), o) /\ AtMostOne(Abandoned(s)) /\ NoneWaits(Abandoned(s))
<1>1. PICK t : t = Abandoned(s)
  OBVIOUS
<1>2. \A i \in DOMAIN s : s[i] \in Requests \cup Events
  OBVIOUS
<1>3. \A x \in Requests \cup Events : ~[x EXCEPT !.kept = FALSE].kept
  BY DEF Requests, Events
<1>4. DOMAIN t = DOMAIN s /\ \A i \in DOMAIN s : ~t[i].kept
  BY <1>1, <1>2, <1>3 DEF Abandoned
<1>5. AllOwn(t, o) /\ AtMostOne(t) /\ NoneWaits(t)
  BY <1>4 DEF AllOwn, Owns, AtMostOne, NoneWaits, Waits
<1>6. QED
  BY <1>1, <1>5

\* Nothing awaited, nothing that the list waits for
LEMMA NothingAwaited ==
    ASSUME NEW requests \in Seq(Requests), NEW events \in Seq(Events), ~AwaitedIn(requests, events)
    PROVE  NoneWaits(requests) /\ NoneWaits(events)
<1>1. \A i \in DOMAIN requests : requests[i].kind = "other"
  BY DEF AwaitedIn
<1>2. \A i \in DOMAIN events : events[i].kind = "error" /\ events[i].to = "other"
  BY DEF AwaitedIn
<1>3. QED
  BY <1>1, <1>2 DEF NoneWaits, Waits

LEMMA NoneIsAtMostOne ==
    ASSUME NEW s, NEW r
    PROVE  /\ NoneWaits(s) => AtMostOne(s)
           /\ NoneWaits(s) /\ NoneWaits(r) => AtMostOneIn(s, r)
  BY DEF NoneWaits, AtMostOne, AtMostOneIn

\* The answer to a request takes its place, or is dropped.
LEMMA AnswersForOne ==
    ASSUME ListsInv, KeptInv, NEW kind, Takes(kind), NEW event \in Events, Sends(event),
           UNCHANGED <<overlay, fate>>,
           Owns(Head(up), overlay) => Owns(event, overlay), Waits(event) => Waits(Head(up))
    PROVE  KeptInv'
<1>1. /\ up \in Seq(Requests) /\ down \in Seq(Events) /\ up # <<>> /\ up' = Tail(up)
  BY DEF ListsInv, CursorInList, TypeOK, Takes
<1>2. /\ AllOwn(up', overlay) /\ Owns(Head(up), overlay)
      /\ AtMostOne(up) => AtMostOne(up') /\ (Waits(Head(up)) => NoneWaits(up'))
      /\ NoneWaits(up) => NoneWaits(up') /\ ~Waits(Head(up))
  BY <1>1, TakenWaits DEF KeptInv
<1>3. down' \in {down, Append(down, event)}
  BY DEF Sends
<1>4. CASE down' = down
  BY <1>2, <1>4 DEF KeptInv, Expected, AtMostOneIn
<1>5. CASE down' = Append(down, event)
  <2>1. /\ AllOwn(down, overlay) /\ Owns(event, overlay) => AllOwn(down', overlay)
        /\ AtMostOne(down) /\ (Waits(event) => NoneWaits(down)) => AtMostOne(down')
        /\ NoneWaits(down) /\ ~Waits(event) => NoneWaits(down')
    BY <1>1, <1>5, AddedWaits
  <2>2. AllOwn(down', overlay)
    BY <1>2, <2>1 DEF KeptInv
  <2>3. ASSUME fate = {}
        PROVE  /\ AtMostOneIn(up', down')
               /\ IsList(overlay) /\ ~overlay.loading => NoneWaits(up') /\ NoneWaits(down')
    <3>1. /\ AtMostOne(up) /\ AtMostOne(down) /\ (NoneWaits(up) \/ NoneWaits(down))
          /\ IsList(overlay) /\ ~overlay.loading => NoneWaits(up) /\ NoneWaits(down)
      BY <2>3 DEF KeptInv, Expected, AtMostOneIn
    <3>2. CASE Waits(Head(up))
      <4>1. NoneWaits(up') /\ AtMostOne(up') /\ AtMostOne(down') /\ ~NoneWaits(up)
        BY <1>2, <2>1, <3>1, <3>2
      <4>2. QED
        BY <3>1, <4>1 DEF AtMostOneIn
    <3>3. CASE ~Waits(Head(up))
      BY <1>2, <2>1, <3>1, <3>3 DEF AtMostOneIn
    <3>4. QED
      BY <3>2, <3>3
  <2>4. QED
    BY <1>2, <2>2, <2>3 DEF KeptInv, Expected
<1>6. QED
  BY <1>3, <1>4, <1>5

LEMMA ServeAnswersForOne ==
    ASSUME ListsInv, KeptInv, Serve
    PROVE  KeptInv'
<1>1. TypeOK /\ Alone(up)
  BY DEF ListsInv, CursorInList
<1>2. \A kind : Takes(kind) => Head(up) \in Requests /\ Head(up).kind = kind
  BY <1>1, TakesIs
<1>3. ASSUME NEW kind \in {"list", "decide"}, Takes(kind), NEW of \in Lists, Head(up).of = of,
             NEW offset \in Nat, NEW next, NEW t \in Tables, SendsList(of, offset, next, t),
             UNCHANGED <<overlay, fate>>
      PROVE  KeptInv'
  <2>1. Head(up) \in Requests /\ Head(up).kind = kind /\ Head(up).kept \in BOOLEAN
    BY <1>2, <1>3, RequestFacts
  <2>2. PICK page \in Seq(Entry) : page = Page(of, RowsOf(of, t), offset)
    BY RowsOfAre, PageIs
  <2>3. PICK more \in BOOLEAN : more = HasMore(of, RowsOf(of, t), offset)
    BY DEF HasMore
  <2>4. PICK event : event = [kind |-> "list", of |-> of, entries |-> page, offset |-> offset,
                              more |-> more, kept |-> Head(up).kept]
    OBVIOUS
  <2>5. event \in Events
    BY <2>1, <2>4, EventFacts
  <2>6. Sends(event)
    BY <1>3, <2>2, <2>3, <2>4 DEF SendsList
  <2>7. event.kind = "list" /\ event.of = of /\ event.kept = Head(up).kept
    BY <2>4
  <2>8. Owns(Head(up), overlay) => Owns(event, overlay)
    BY <1>3, <2>1, <2>7 DEF Owns
  <2>9. Waits(event) => Waits(Head(up))
    BY <2>1, <2>7 DEF Waits
  <2>10. QED
    BY <1>3, <2>5, <2>6, <2>8, <2>9, AnswersForOne
<1>4. ASSUME NEW kind, Takes(kind), SendsError, UNCHANGED <<overlay, fate>> PROVE KeptInv'
  <2>1. Head(up) \in Requests /\ Head(up).kind = kind
    BY <1>2, <1>4
  <2>2. PICK event : event = [kind |-> "error", to |-> Head(up).kind, kept |-> Head(up).kept]
    OBVIOUS
  <2>3. event \in Events /\ Sends(event)
    BY <1>4, <2>1, <2>2, EventFacts, RequestFacts DEF SendsError
  <2>4. event.kind = "error" /\ event.to = Head(up).kind /\ event.kept = Head(up).kept
    BY <2>2
  <2>5. Head(up).kind \in {"list", "decide"} => Head(up).of \in Lists
    BY <2>1, RequestFacts
  <2>6. Owns(Head(up), overlay) => Owns(event, overlay)
    BY <2>4, <2>5 DEF Owns, IsList
  <2>7. Waits(event) => Waits(Head(up))
    BY <2>4 DEF Waits
  <2>8. QED
    BY <1>4, <2>3, <2>6, <2>7, AnswersForOne
<1>5. ASSUME NEW of \in Lists, SendsEntries(of) PROVE KeptInv'
  <2>1. Takes("list") /\ Head(up).of = of /\ UNCHANGED <<overlay, fate>>
        /\ SendsList(of, Head(up).offset, Head(up).next, tables)
    BY <1>5 DEF SendsEntries
  <2>2. Head(up).offset \in Nat
    BY <1>2, <2>1, RequestFacts
  <2>3. tables \in Tables
    BY <1>1 DEF TypeOK, Tables
  <2>4. QED
    BY <1>3, <2>1, <2>2, <2>3
<1>6. ASSUME NEW of \in Lists, NEW changed, Decision(of, changed) PROVE KeptInv'
  <2>1. /\ Takes("decide") /\ Head(up).of = of /\ UNCHANGED <<overlay, fate>>
        /\ SendsList(of, 0, FALSE, changed) /\ tables' = changed
    BY <1>6 DEF Decision
  <2>2. ListsInv'
    BY ServeKeeps
  <2>3. changed \in Tables
    BY <2>1, <2>2 DEF ListsInv, CursorInList, TypeOK, Tables
  <2>4. QED
    BY <1>3, <2>1, <2>3
<1>7. "requests" \in Lists /\ "members" \in Lists /\ "room" \in Lists
  BY DEF Lists
<1>8. CASE ListJoinRequests \/ ListGroupMembers \/ ListRoomMembers
  BY <1>5, <1>7, <1>8 DEF ListJoinRequests, ListGroupMembers, ListRoomMembers
<1>9. CASE DecideJoinRequest \/ SetMemberBanned \/ SetRoomMember
  BY <1>6, <1>7, <1>9 DEF DecideJoinRequest, SetMemberBanned, SetRoomMember
<1>10. CASE NothingChanged
  BY <1>4, <1>10 DEF NothingChanged
<1>11. CASE Refuse
  BY <1>4, <1>11 DEF Refuse
<1>12. CASE RotateToken
  <2>1. Takes("rotate") /\ UNCHANGED <<overlay, fate>> /\ Head(up) \in Requests /\ Head(up).kind = "rotate"
    BY <1>2, <1>12 DEF RotateToken
  <2>2. PICK event : event = [kind |-> "rotated", to |-> "rotate", kept |-> Head(up).kept]
    OBVIOUS
  <2>3. event \in Events /\ Sends(event)
    BY <1>12, <2>1, <2>2, EventFacts, RequestFacts DEF RotateToken
  <2>4. event.kind = "rotated" /\ event.kept = Head(up).kept
    BY <2>2
  <2>5. (Owns(Head(up), overlay) => Owns(event, overlay)) /\ ~Waits(event)
    BY <2>1, <2>4 DEF Owns, Waits
  <2>6. QED
    BY <2>1, <2>3, <2>5, AnswersForOne
<1>13. CASE TakeOther
  <2>1. Takes("other") /\ UNCHANGED <<down, overlay, fate>> /\ up # <<>> /\ up' = Tail(up)
    BY <1>13 DEF TakeOther, Takes
  <2>2. up \in Seq(Requests)
    BY <1>1 DEF TypeOK
  <2>3. /\ AllOwn(up', overlay)
        /\ AtMostOne(up) => AtMostOne(up')
        /\ NoneWaits(up) => NoneWaits(up')
    BY <2>1, <2>2, TakenWaits DEF KeptInv
  <2>4. QED
    BY <2>1, <2>3 DEF KeptInv, Expected, AtMostOneIn
<1>14. QED
  BY <1>8, <1>9, <1>10, <1>11, <1>12, <1>13 DEF Serve


\* What comes in is taken out of the queue, and ends the waiting.
LEMMA FateIs ==
    ASSUME ListsInv, down # <<>>, NEW foreign \in BOOLEAN, FateAfter(foreign), fate' = {}
    PROVE  \/ NoneWaits(up) /\ NoneWaits(Tail(down))
           \/ fate = {} /\ ~foreign
<1>1. up \in Seq(Requests) /\ down \in Seq(Events)
  BY DEF ListsInv, CursorInList, TypeOK
<1>2. Tail(down) \in Seq(Events)
  BY <1>1, TakenAnswer
<1>3. CASE ~AwaitedIn(up, Tail(down))
  BY <1>1, <1>2, <1>3, NothingAwaited
<1>4. CASE AwaitedIn(up, Tail(down))
  BY <1>4 DEF FateAfter
<1>5. QED
  BY <1>3, <1>4

\* Nothing is kept of what another dialog asked for.
LEMMA AllAbandoned ==
    ASSUME ListsInv, up' = Abandoned(up), down' = Abandoned(down) \/ (down # <<>> /\ down' = Abandoned(Tail(down)))
    PROVE  KeptInv'
<1>1. up \in Seq(Requests) /\ down \in Seq(Events)
  BY DEF ListsInv, CursorInList, TypeOK
<1>2. down # <<>> => Tail(down) \in Seq(Events)
  BY <1>1, TakenAnswer
<1>3. AllOwn(up', overlay') /\ NoneWaits(up')
  BY <1>1, AbandonedWaits
<1>4. AllOwn(down', overlay') /\ NoneWaits(down')
  BY <1>1, <1>2, AbandonedWaits
<1>5. QED
  BY <1>3, <1>4, NoneIsAtMostOne DEF KeptInv, Expected

\* An answer or an error comes to the dialog that is open.
LEMMA OneComesIn ==
    ASSUME ListsInv, KeptInv, down # <<>>, down' = Tail(down), up' = up,
           NEW foreign \in BOOLEAN, FateAfter(foreign),
           \/ overlay'.kind = overlay.kind
           \/ overlay.kind \in {"rotate", "token"} /\ overlay'.kind \in {"rotate", "token"},
           IsList(overlay') /\ IsList(overlay) /\ overlay.loading /\ ~foreign => Waits(Head(down))
    PROVE  KeptInv'
<1>1. up \in Seq(Requests) /\ down \in Seq(Events)
  BY DEF ListsInv, CursorInList, TypeOK
<1>2. /\ AllOwn(down', overlay) /\ AllOwn(up', overlay)
      /\ AtMostOne(down) => AtMostOne(down') /\ (Waits(Head(down)) => NoneWaits(down'))
      /\ NoneWaits(down) => NoneWaits(down') /\ ~Waits(Head(down))
  BY <1>1, TakenWaits DEF KeptInv
<1>3. AllOwn(down', overlay') /\ AllOwn(up', overlay')
  <2>1. CASE overlay'.kind = overlay.kind
    BY <1>2, <2>1, OwnsByKind
  <2>2. CASE overlay.kind \in {"rotate", "token"} /\ overlay'.kind \in {"rotate", "token"}
    <3>1. \A x \in Requests \cup Events : Owns(x, overlay) => Owns(x, overlay')
      <4>1. ASSUME NEW x \in Requests \cup Events, Owns(x, overlay) PROVE Owns(x, overlay')
        <5>1. x.kind \in {"list", "decide"} => x.of \in Lists
          <6>1. CASE x \in Requests
            BY <6>1, RequestFacts
          <6>2. CASE x \in Events
            BY <6>2, EventFacts
          <6>3. QED
            BY <6>1, <6>2
        <5>2. overlay.kind \notin Lists
          BY <2>2 DEF Lists
        <5>3. ~IsList(overlay)
          BY <5>2 DEF IsList
        <5>4. QED
          BY <2>2, <4>1, <5>1, <5>2, <5>3 DEF Owns
      <4>2. QED
        BY <4>1
    <3>2. up' \in Seq(Requests) /\ down' \in Seq(Events)
      BY <1>1, TakenAnswer
    <3>3. (\A i \in DOMAIN up' : up'[i] \in Requests) /\ \A i \in DOMAIN down' : down'[i] \in Events
      BY <3>2
    <3>4. QED
      BY <1>2, <3>1, <3>3 DEF AllOwn
  <2>3. QED
    BY <2>1, <2>2
<1>4. ASSUME fate' = {}
      PROVE  /\ AtMostOneIn(up', down')
             /\ IsList(overlay') /\ ~overlay'.loading => NoneWaits(up') /\ NoneWaits(down')
  <2>1. CASE NoneWaits(up) /\ NoneWaits(Tail(down))
    BY <2>1, NoneIsAtMostOne
  <2>2. CASE fate = {} /\ ~foreign
    <3>1. AtMostOneIn(up, down) /\ (IsList(overlay) /\ ~overlay.loading => NoneWaits(up) /\ NoneWaits(down))
      BY <2>2 DEF KeptInv, Expected
    <3>2. AtMostOneIn(up', down')
      BY <1>2, <3>1 DEF AtMostOneIn
    <3>3. ASSUME IsList(overlay') PROVE NoneWaits(up') /\ NoneWaits(down')
      <4>1. IsList(overlay)
        BY <3>3 DEF IsList, Lists
      <4>2. CASE ~overlay.loading
        BY <1>2, <3>1, <4>1, <4>2
      <4>3. CASE overlay.loading
        BY <1>2, <2>2, <3>1, <3>3, <4>1, <4>3 DEF AtMostOneIn
      <4>4. QED
        BY <4>2, <4>3
    <3>4. QED
      BY <3>2, <3>3
  <2>3. QED
    BY <1>4, <2>1, <2>2, FateIs
<1>5. QED
  BY <1>3, <1>4 DEF KeptInv, Expected

LEMMA ListComesToOne ==
    ASSUME ListsInv, KeptInv, NEW of \in Lists, ReceivesList(of)
    PROVE  KeptInv'
<1>1. /\ down # <<>> /\ Head(down).kind = "list" /\ Head(down).of = of
      /\ Replaces(of) /\ FateAfter(~Head(down).kept) /\ overlay'.kind = of
  BY DEF ReceivesList, Receives
<1>2. CASE overlay.kind = of
  <2>1. down' = Tail(down) /\ up' = up
    BY <1>1, <1>2 DEF Replaces
  <2>2. Head(down).kept => Waits(Head(down))
    BY <1>1 DEF Waits
  <2>3. PICK foreign \in BOOLEAN : foreign <=> ~Head(down).kept
    OBVIOUS
  <2>4. FateAfter(foreign)
    BY <1>1, <2>3 DEF FateAfter
  <2>5. QED
    BY <1>1, <1>2, <2>1, <2>2, <2>3, <2>4, OneComesIn
<1>3. CASE overlay.kind # of
  <2>1. down' = Abandoned(Tail(down)) /\ up' = Abandoned(up)
    BY <1>1, <1>3 DEF Replaces
  <2>2. QED
    BY <1>1, <2>1, AllAbandoned
<1>4. QED
  BY <1>2, <1>3

LEMMA ReceiveComesToOne ==
    ASSUME ListsInv, KeptInv, Receive
    PROVE  KeptInv'
<1>1. "requests" \in Lists /\ "members" \in Lists /\ "room" \in Lists
  BY DEF Lists
<1>2. CASE ReceiveList
  BY <1>1, <1>2, ListComesToOne DEF ReceiveList, ReceiveJoinRequests, ReceiveGroupMembers, ReceiveRoomMembers
<1>3. CASE ReceiveRotated
  <2>1. down # <<>> /\ FateAfter(FALSE) /\ overlay' = [kind |-> "token"]
    BY <1>3 DEF ReceiveRotated, Receives
  <2>2. CASE overlay.kind \in {"rotate", "token"}
    <3>1. down' = Tail(down) /\ up' = up
      BY <1>3, <2>2 DEF ReceiveRotated, Replaces
    <3>2. overlay'.kind = "token" /\ ~IsList(overlay')
      BY <2>1 DEF IsList, Lists
    <3>3. QED
      BY <2>1, <2>2, <3>1, <3>2, OneComesIn
  <2>3. CASE overlay.kind \notin {"rotate", "token"}
    <3>1. down' = Abandoned(Tail(down)) /\ up' = Abandoned(up)
      BY <1>3, <2>3 DEF ReceiveRotated, Replaces
    <3>2. QED
      BY <2>1, <3>1, AllAbandoned
  <2>4. QED
    BY <2>2, <2>3
<1>4. CASE ReceiveError
  <2>1. /\ down # <<>> /\ Head(down).kind = "error" /\ down' = Tail(down) /\ up' = up
        /\ FateAfter(Head(down).to = "other" \/ ~Head(down).kept)
        /\ overlay' = IF IsList(overlay) THEN [overlay EXCEPT !.loading = FALSE] ELSE overlay
    BY <1>4, OverlayFacts DEF ReceiveError, Receives
  <2>2. down \in Seq(Events) /\ overlay \in Overlays
    BY DEF ListsInv, CursorInList, TypeOK
  <2>3. overlay'.kind = overlay.kind
    BY <2>1, <2>2, OverlayUpdates
  <2>4. Head(down) \in Events /\ Owns(Head(down), overlay)
    BY <2>1, <2>2, TakenWaits DEF KeptInv
  <2>5. Head(down).to \in {"list", "decide", "rotate", "other"}
    BY <2>1, <2>4, EventFacts
  <2>6. ASSUME IsList(overlay), Head(down).to # "other", Head(down).kept PROVE Waits(Head(down))
    <3>1. overlay.kind \notin {"rotate", "token"}
      BY <2>6 DEF IsList, Lists
    <3>2. Head(down).to # "rotate"
      BY <2>1, <2>4, <2>6, <3>1 DEF Owns
    <3>3. QED
      BY <2>1, <2>5, <2>6, <3>2 DEF Waits
  <2>7. PICK foreign \in BOOLEAN : foreign <=> (Head(down).to = "other" \/ ~Head(down).kept)
    OBVIOUS
  <2>8. FateAfter(foreign)
    BY <2>1, <2>7 DEF FateAfter
  <2>9. IsList(overlay) /\ ~foreign => Waits(Head(down))
    BY <2>6, <2>7
  <2>10. QED
    BY <2>1, <2>3, <2>8, <2>9, OneComesIn
<1>5. QED
  BY <1>2, <1>3, <1>4 DEF Receive

\* Nothing is asked for, or one thing by a dialog that did not wait, or that has asked
\* twice.
LEMMA KeyAsksForOne ==
    ASSUME ListsInv, KeptInv, down' = down, NEW r \in Requests, up' \in {up, Append(up, r)},
           overlay'.kind = overlay.kind \/ (AllOwn(up, overlay') /\ AllOwn(down, overlay')),
           up' # up => Owns(r, overlay'),
           fate' = {} => /\ fate = {}
                         /\ up' # up /\ Waits(r) => NoneWaits(up) /\ NoneWaits(down)
                         /\ IsList(overlay') /\ ~overlay'.loading =>
                               NoneWaits(up) /\ NoneWaits(down) /\ (up' # up => ~Waits(r))
    PROVE  KeptInv'
<1>1. up \in Seq(Requests) /\ down \in Seq(Events)
  BY DEF ListsInv, CursorInList, TypeOK
<1>2. AllOwn(up, overlay') /\ AllOwn(down', overlay')
  BY OwnsByKind DEF KeptInv
<1>3. CASE up' = up
  BY <1>2, <1>3 DEF KeptInv, Expected
<1>4. CASE up' # up
  <2>1. up' = Append(up, r)
    BY <1>4
  <2>2. /\ AllOwn(up', overlay')
        /\ AtMostOne(up) /\ (Waits(r) => NoneWaits(up)) => AtMostOne(up')
        /\ NoneWaits(up) /\ ~Waits(r) => NoneWaits(up')
    BY <1>1, <1>2, <1>4, <2>1, AddedWaits
  <2>3. ASSUME fate' = {}
        PROVE  /\ AtMostOneIn(up', down')
               /\ IsList(overlay') /\ ~overlay'.loading => NoneWaits(up') /\ NoneWaits(down')
    <3>1. /\ AtMostOne(up) /\ AtMostOne(down) /\ (NoneWaits(up) \/ NoneWaits(down))
      BY <2>3 DEF KeptInv, Expected, AtMostOneIn
    <3>2. Waits(r) => NoneWaits(up) /\ NoneWaits(down)
      BY <1>4, <2>3
    <3>3. AtMostOneIn(up', down')
      BY <2>2, <3>1, <3>2 DEF AtMostOneIn
    <3>4. QED
      BY <1>4, <2>2, <2>3, <3>3
  <2>4. QED
    BY <1>2, <2>2, <2>3 DEF KeptInv, Expected
<1>5. QED
  BY <1>3, <1>4

\* With no list and no token on the screen, nothing that is kept is awaited.
LEMMA NothingKept ==
    ASSUME ListsInv, KeptInv, ~IsList(overlay), overlay.kind \notin {"rotate", "token"}
    PROVE  /\ NoneWaits(up) /\ NoneWaits(down)
           /\ \A o : AllOwn(up, o) /\ AllOwn(down, o)
<1>1. up \in Seq(Requests) /\ down \in Seq(Events)
  BY DEF ListsInv, CursorInList, TypeOK
<1>2. (\A i \in DOMAIN up : up[i] \in Requests) /\ \A i \in DOMAIN down : down[i] \in Events
  BY <1>1
<1>3. ASSUME NEW x \in Requests \cup Events, Owns(x, overlay)
      PROVE  ~Waits(x) /\ \A o : Owns(x, o)
  <2>1. x.kind \in {"list", "decide"} => x.of \in Lists
    <3>1. CASE x \in Requests
      BY <3>1, RequestFacts
    <3>2. CASE x \in Events
      BY <3>2, EventFacts
    <3>3. QED
      BY <3>1, <3>2
  <2>2. overlay.kind \notin Lists
    BY DEF IsList
  <2>3. QED
    BY <1>3, <2>1, <2>2 DEF Owns, Waits
<1>4. QED
  BY <1>2, <1>3 DEF KeptInv, AllOwn, NoneWaits


LEMMA KeysAskForOne ==
    ASSUME ListsInv, KeptInv, UNCHANGED down,
           \/ OpenJoinRequests \/ OpenRoomMembers \/ OpenGroupMembers
           \/ OpenLocal \/ SendOther \/ MoveCursor \/ Refresh \/ PageDown \/ PageUp
           \/ ApproveOrReject \/ BanOrUnban \/ IncludeOrNot \/ Rotate
    PROVE  KeptInv'
<1>1. overlay \in Overlays /\ up \in Seq(Requests) /\ down \in Seq(Events)
  BY DEF ListsInv, CursorInList, TypeOK
<1>2. PICK other \in Requests : other.kind = "other"
  BY RequestFacts
<1>3. IsList(overlay) /\ ~overlay.loading /\ fate = {} => NoneWaits(up) /\ NoneWaits(down)
  BY DEF KeptInv, Expected
<1>4. overlay = Closed => ~IsList(overlay) /\ overlay.kind \notin {"rotate", "token"}
  BY DEF Closed, IsList, Lists
<1>5. ASSUME NEW of \in Lists, Opens(of) PROVE KeptInv'
  <2>1. /\ overlay = Closed /\ overlay'.kind = of /\ overlay'.loading = TRUE /\ fate' = fate
        /\ up' \in {up, Append(up, ListRequest(of, 0, FALSE))}
    BY <1>5 DEF Opens, Asks
  <2>2. ListRequest(of, 0, FALSE) \in Requests
    BY RequestFacts DEF ListRequest
  <2>3. ListRequest(of, 0, FALSE).kind = "list" /\ ListRequest(of, 0, FALSE).of = of
    BY DEF ListRequest
  <2>4. PICK r \in Requests : r = ListRequest(of, 0, FALSE) /\ r.kind = "list" /\ r.of = of
    BY <2>2, <2>3
  <2>5. /\ NoneWaits(up) /\ NoneWaits(down)
        /\ AllOwn(up, overlay') /\ AllOwn(down, overlay')
    BY <1>4, <2>1, NothingKept
  <2>6. Owns(r, overlay')
    BY <2>1, <2>4 DEF Owns
  <2>7. QED
    BY <2>1, <2>4, <2>5, <2>6, KeyAsksForOne
<1>6. CASE OpenJoinRequests \/ OpenRoomMembers \/ OpenGroupMembers
  BY <1>5, <1>6 DEF OpenJoinRequests, OpenRoomMembers, OpenGroupMembers, Lists
<1>7. CASE OpenLocal
  <2>1. overlay = Closed /\ fate' = fate /\ up' = up
    BY <1>7 DEF OpenLocal
  <2>2. /\ NoneWaits(up) /\ NoneWaits(down)
        /\ AllOwn(up, overlay') /\ AllOwn(down, overlay')
    BY <1>4, <2>1, NothingKept
  <2>3. QED
    BY <1>2, <2>1, <2>2, KeyAsksForOne
<1>8. CASE SendOther
  <2>1. PICK r \in Requests : r = [kind |-> "other", kept |-> TRUE] /\ r.kind = "other"
    BY RequestFacts
  <2>2. overlay.kind \in {"none", "text"} /\ fate' = fate /\ up' \in {up, Append(up, r)}
    BY <1>8, <2>1 DEF SendOther, Asks
  <2>3. /\ NoneWaits(up) /\ NoneWaits(down)
        /\ AllOwn(up, overlay') /\ AllOwn(down, overlay')
    BY <2>2, NothingKept DEF IsList, Lists
  <2>4. ~Waits(r) /\ Owns(r, overlay')
    BY <2>1 DEF Waits, Owns
  <2>5. QED
    BY <2>2, <2>3, <2>4, KeyAsksForOne
<1>9. CASE MoveCursor
  <2>1. fate' = fate /\ up' = up
    BY <1>9 DEF MoveCursor
  <2>2. overlay'.kind = overlay.kind /\ (IsList(overlay') /\ ~overlay'.loading => IsList(overlay) /\ ~overlay.loading)
    <3>1. CASE overlay.kind = "rotate" /\ overlay' = [overlay EXCEPT !.confirming = FALSE]
      <4>1. overlay'.kind = "rotate"
        BY <1>1, <3>1, OverlayUpdates
      <4>2. QED
        BY <3>1, <4>1 DEF IsList, Lists
    <3>2. CASE IsList(overlay) /\ \E selected : overlay' = [overlay EXCEPT !.selected = selected]
      <4>1. overlay \in [kind : Lists, entries : Seq(Entry), selected : Nat,
                         loading : BOOLEAN, offset : Nat, more : BOOLEAN]
        BY <1>1, <3>2 DEF Overlays, IsList, Lists
      <4>2. overlay'.kind = overlay.kind /\ overlay'.loading = overlay.loading
        BY <3>2, <4>1
      <4>3. QED
        BY <3>2, <4>2
    <3>3. QED
      BY <1>9, <3>1, <3>2 DEF MoveCursor
  <2>3. QED
    BY <1>2, <1>3, <2>1, <2>2, KeyAsksForOne
<1>10. ASSUME IsList(overlay),
              overlay' \in {[overlay EXCEPT !.loading = TRUE],
                            [overlay EXCEPT !.loading = TRUE, !.selected = 0]},
              NEW r \in Requests, r.kind \in {"list", "decide"}, r.of = overlay.kind,
              up' \in {up, Append(up, r)},
              fate' = {} => fate = {} /\ NoneWaits(up) /\ NoneWaits(down)
       PROVE  KeptInv'
  <2>1. overlay'.kind = overlay.kind /\ overlay'.loading = TRUE
    BY <1>1, <1>10, ListUpdates DEF SameList
  <2>2. Owns(r, overlay')
    BY <1>10, <2>1 DEF Owns
  <2>3. QED
    BY <1>10, <2>1, <2>2, KeyAsksForOne
<1>11. IsList(overlay) => overlay.kind \in Lists /\ overlay.offset \in Nat
  BY <1>1, OverlayFacts
<1>12. ASSUME NEW offset \in Nat, NEW next \in BOOLEAN, IsList(overlay)
       PROVE  /\ ListRequest(overlay.kind, offset, next) \in Requests
              /\ ListRequest(overlay.kind, offset, next).kind = "list"
              /\ ListRequest(overlay.kind, offset, next).of = overlay.kind
  BY <1>11, <1>12, RequestFacts DEF ListRequest
<1>13. PageSize \in Nat
  BY DialogsAssumption
<1>14. CASE Refresh
  <2>1. /\ IsList(overlay) /\ overlay' = [overlay EXCEPT !.loading = TRUE]
        /\ up' \in {up, Append(up, ListRequest(overlay.kind, overlay.offset, FALSE))}
        /\ fate' = IF Awaited THEN fate \cup {"asked again"} ELSE fate
    BY <1>14 DEF Refresh, Asks
  <2>2. fate' = {} => fate = {} /\ NoneWaits(up) /\ NoneWaits(down)
    BY <1>1, <2>1, NothingAwaited DEF Awaited
  <2>3. QED
    BY <1>10, <1>11, <1>12, <2>1, <2>2
<1>15. ASSUME NEW offset \in Nat, NEW next \in BOOLEAN, IsList(overlay), ~overlay.loading, fate' = fate,
              overlay' = [overlay EXCEPT !.loading = TRUE, !.selected = 0],
              up' \in {up, Append(up, ListRequest(overlay.kind, offset, next))}
       PROVE  KeptInv'
  BY <1>3, <1>10, <1>12, <1>15
<1>16. CASE PageDown
  <2>1. /\ IsList(overlay) /\ ~overlay.loading /\ fate' = fate
        /\ overlay' = [overlay EXCEPT !.loading = TRUE, !.selected = 0]
        /\ up' \in {up, Append(up, ListRequest(overlay.kind, overlay.offset + PageSize, ~Awaited))}
    BY <1>16 DEF PageDown, TurnTo, Asks
  <2>2. PICK offset \in Nat : offset = overlay.offset + PageSize
    BY <1>11, <1>13, <2>1
  <2>3. PICK r \in Requests : r = ListRequest(overlay.kind, offset, ~Awaited)
    BY <1>11, <2>1, RequestFacts DEF ListRequest
  <2>4. r.kind = "list" /\ r.of = overlay.kind
    BY <2>3 DEF ListRequest
  <2>5. QED
    BY <1>3, <1>10, <2>1, <2>2, <2>3, <2>4
<1>17. CASE PageUp
  <2>1. /\ IsList(overlay) /\ ~overlay.loading /\ fate' = fate
        /\ overlay' = [overlay EXCEPT !.loading = TRUE, !.selected = 0]
        /\ up' \in {up, Append(up, ListRequest(overlay.kind, Minus(overlay.offset, PageSize), FALSE))}
    BY <1>17 DEF PageUp, TurnTo, Asks
  <2>2. PICK offset \in Nat : offset = Minus(overlay.offset, PageSize)
    BY <1>11, <1>13, <2>1 DEF Minus
  <2>3. QED
    BY <1>15, <2>1, <2>2
<1>18. ASSUME NEW of \in Lists, overlay.kind = of, ~overlay.loading, overlay.entries # <<>>, fate' = fate,
              overlay' = Waiting(overlay), NEW on \in BOOLEAN,
              Asks([kind |-> "decide", of |-> of, id |-> overlay.entries[overlay.selected + 1].id,
                    on |-> on, kept |-> TRUE])
       PROVE  KeptInv'
  <2>1. IsList(overlay)
    BY <1>18 DEF IsList
  <2>2. PICK entries \in Seq(Entry), selected \in Nat :
             entries = overlay.entries /\ selected = overlay.selected
    BY <1>1, <2>1, OverlayFacts
  <2>3. PICK id \in Id : id = entries[selected + 1].id
    <3>1. entries # <<>> /\ selected < Len(entries)
      BY <1>18, <2>1, <2>2 DEF ListsInv, CursorInList
    <3>2. PICK length \in Nat : length = Len(entries) /\ DOMAIN entries = 1..length
      OBVIOUS
    <3>3. selected + 1 \in 1..length
      BY <3>1, <3>2
    <3>4. entries[selected + 1] \in Entry
      BY <3>2, <3>3
    <3>5. QED
      BY <3>4 DEF Entry
  <2>4. PICK r \in Requests : /\ r = [kind |-> "decide", of |-> of, id |-> id, on |-> on, kept |-> TRUE]
                              /\ r.kind = "decide" /\ r.of = of
    BY RequestFacts
  <2>5. up' \in {up, Append(up, r)}
    BY <1>18, <2>2, <2>3, <2>4 DEF Asks
  <2>6. QED
    BY <1>3, <1>10, <1>18, <2>1, <2>4, <2>5 DEF Waiting
<1>19. "requests" \in Lists /\ "members" \in Lists /\ "room" \in Lists
  BY DEF Lists
<1>20. CASE ApproveOrReject
  BY <1>18, <1>19, <1>20 DEF ApproveOrReject, Decides
<1>21. CASE BanOrUnban
  <2>1. \A entry : Opposite(entry) \subseteq BOOLEAN
    BY DEF Opposite
  <2>2. QED
    BY <1>18, <1>19, <1>21, <2>1 DEF BanOrUnban, Decides
<1>22. CASE IncludeOrNot
  <2>1. \A entry : Opposite(entry) \subseteq BOOLEAN
    BY DEF Opposite
  <2>2. QED
    BY <1>18, <1>19, <1>22, <2>1 DEF IncludeOrNot, Decides
<1>23. CASE Rotate
  <2>1. PICK r \in Requests : r = [kind |-> "rotate", kept |-> TRUE] /\ r.kind = "rotate"
    BY RequestFacts
  <2>2. overlay.kind = "rotate" /\ fate' = fate /\ up' \in {up, Append(up, r)}
    BY <1>23, <2>1 DEF Rotate, Asks
  <2>3. overlay'.kind = "rotate"
    <3>1. CASE overlay' = overlay
      BY <2>2, <3>1
    <3>2. CASE overlay' = [overlay EXCEPT !.confirming = TRUE]
      BY <1>1, <2>2, <3>2, OverlayUpdates
    <3>3. QED
      BY <1>23, <3>1, <3>2 DEF Rotate
  <2>4. ~Waits(r) /\ Owns(r, overlay') /\ ~IsList(overlay')
    BY <2>1, <2>3 DEF Waits, Owns, IsList, Lists
  <2>5. QED
    BY <2>2, <2>3, <2>4, KeyAsksForOne
<1>24. QED
  BY <1>6, <1>7, <1>8, <1>9, <1>14, <1>16, <1>17, <1>20, <1>21, <1>22, <1>23

LEMMA KeptStep ==
    ASSUME ListsInv, KeptInv, [Next]_vars
    PROVE  KeptInv'
<1>1. CASE Serve
  BY <1>1, ServeAnswersForOne
<1>2. CASE Receive
  BY <1>2, ReceiveComesToOne
<1>3. CASE Close
  BY <1>3, AllAbandoned DEF Close
<1>4. CASE OthersDecide \/ Settle \/ UNCHANGED vars
  <2>1. UNCHANGED <<up, down, overlay, fate>>
    BY <1>4 DEF OthersDecide, Settle, vars
  <2>2. QED
    BY <2>1 DEF KeptInv, Expected
<1>5. CASE \/ OpenJoinRequests \/ OpenRoomMembers \/ OpenGroupMembers
           \/ OpenLocal \/ SendOther \/ MoveCursor \/ Refresh \/ PageDown \/ PageUp
           \/ ApproveOrReject \/ BanOrUnban \/ IncludeOrNot \/ Rotate
  <2>1. UNCHANGED down
    BY <1>5 DEF OpenJoinRequests, OpenRoomMembers, OpenGroupMembers, Opens, OpenLocal, SendOther,
                MoveCursor, Refresh, PageDown, PageUp, TurnTo, ApproveOrReject, BanOrUnban,
                IncludeOrNot, Decides, Rotate
  <2>2. QED
    BY <1>5, <2>1, KeysAskForOne
<1>6. QED
  BY <1>1, <1>2, <1>3, <1>4, <1>5 DEF Next

LEMMA AnswersFitStep ==
    ASSUME ListsInv, KeptInv
    PROVE  /\ ReceiveList /\ IsList(overlay) /\ ~overlay.loading => ~Head(down).kept \/ fate # {}
           /\ (ReceiveList \/ ReceiveRotated) /\ overlay'.kind # overlay.kind
                => \/ ~Head(down).kept
                   \/ overlay.kind = "rotate" /\ overlay'.kind = "token"
<1>1. down \in Seq(Events)
  BY DEF ListsInv, CursorInList, TypeOK
<1>2. down # <<>> => Owns(Head(down), overlay) /\ (NoneWaits(down) => ~Waits(Head(down)))
  BY <1>1, TakenWaits DEF KeptInv
<1>3. ASSUME NEW of, ReceivesList(of)
      PROVE  /\ IsList(overlay) /\ ~overlay.loading => ~Head(down).kept \/ fate # {}
             /\ overlay'.kind # overlay.kind => ~Head(down).kept
  <2>1. down # <<>> /\ Head(down).kind = "list" /\ Head(down).of = of /\ overlay'.kind = of
    BY <1>3 DEF ReceivesList, Receives
  <2>2. IsList(overlay) /\ ~overlay.loading /\ fate = {} => NoneWaits(down)
    BY DEF KeptInv, Expected
  <2>3. QED
    BY <1>2, <2>1, <2>2 DEF Owns, Waits
<1>4. ASSUME ReceiveRotated, overlay'.kind # overlay.kind, Head(down).kept
      PROVE  overlay.kind = "rotate" /\ overlay'.kind = "token"
  <2>1. down # <<>> /\ Head(down).kind = "rotated" /\ overlay'.kind = "token"
    BY <1>4 DEF ReceiveRotated, Receives
  <2>2. overlay.kind \in {"rotate", "token"}
    BY <1>2, <1>4, <2>1 DEF Owns
  <2>3. QED
    BY <1>4, <2>1, <2>2
<1>5. QED
  BY <1>3, <1>4 DEF ReceiveList, ReceiveJoinRequests, ReceiveGroupMembers, ReceiveRoomMembers

\* An answer comes to the dialog that waits for it: the list stays under the cursor
\* while the user may decide, and no dialog opens by itself over another, but for
\* answers that a closed dialog left behind or the user asked for twice, and waiting
\* that another answer has ended (apply_event).
THEOREM AnswersFitCorrect == Spec => AnswersFit
<1>1. Init => KeptInv
  <2>1. SUFFICES ASSUME Init PROVE KeptInv
    OBVIOUS
  <2>2. up = <<>> /\ down = <<>>
    BY <2>1 DEF Init
  <2>3. DOMAIN up = {} /\ DOMAIN down = {}
    BY <2>2
  <2>4. QED
    BY <2>3 DEF KeptInv, Expected, AllOwn, AtMostOneIn, AtMostOne, NoneWaits
<1>2. ListsInv /\ KeptInv /\ [Next]_vars => KeptInv'
  BY KeptStep
<1>3. Spec => []KeptInv
  BY <1>1, <1>2, ListsInvariant, PTL DEF Spec
<1>4. ListsInv /\ KeptInv =>
         /\ ReceiveList /\ IsList(overlay) /\ ~overlay.loading => ~Head(down).kept \/ fate # {}
         /\ (ReceiveList \/ ReceiveRotated) /\ overlay'.kind # overlay.kind
              => \/ ~Head(down).kept
                 \/ overlay.kind = "rotate" /\ overlay'.kind = "token"
  BY AnswersFitStep
<1>5. QED
  BY <1>3, <1>4, ListsInvariant, PTL DEF AnswersFit, StaysPut, OnlyStraysIntrude
=============================================================================
