-------------------------- MODULE CredentialFileProofs --------------------------
(***************************************************************************)
(* That the file is whole, that the token of an identity is kept or its    *)
(* loss has a name, and that a chat has the record which a rotation        *)
(* changes, for every number of processes, groups, tokens, requests and    *)
(* faults.                                                                 *)
(***************************************************************************)
EXTENDS CredentialFile, SequenceTheorems, TLAPS

-----------------------------------------------------------------------------
(* The inductive invariant *)

\* t is the saved token of its group in these records
SavedIn(records, t) == t = records[about[t].group].join

\* t is on file, on its way there, or its loss has a name
Kept(t) ==
    \/ SavedIn(file.records, t)
    \/ \E p \in Process : t \in work[p].fresh
    \/ fate[t] # "none"

\* a chat, and the save of a token that belongs to one
InChat(p) == pc[p] = "chat" \/ (pc[p] \in Saving /\ work[p].after = "chat")

\* Columns and queues have their types; the file is never written in place.
Typed ==
    /\ TypeOK
    /\ about \in Seq(About) /\ Len(about) = minted
    /\ \A t \in 1..minted : about[t].who \in 1..minted
    /\ file \in [records : Records, data : {"disk"}]
    /\ durable \in [records : Records, data : {"disk"}]
    /\ reply \in [Process -> Seq(Replies)]

\* A record has a join token of its own group, or nothing.
Sound(records) ==
    \A g \in Group :
       /\ records[g].join = None => records[g].invite = None
       /\ records[g].join # None =>
             records[g].join \in 1..minted /\ about[records[g].join].group = g
       /\ records[g].invite # None =>
             records[g].invite \in 1..minted /\ about[records[g].invite].kind = "invite"

\* The answer to a choice of a group.
Answered(p, r) ==
    /\ r.kind \in {"welcome", "issued", "member", "pending"}
    /\ r.join \in 1..minted /\ about[r.join].group = work[p].group
    /\ r.invite # None => r.invite \in 1..minted /\ about[r.invite].kind = "invite"
    /\ r.kind # "issued" => r.invite = None
    /\ r.kind = "welcome" => work[p].supplied = r.join
    /\ r.kind = "issued" => work[p].supplied = None
    /\ r.kind = "member" => work[p].supplied \notin Precious
    /\ r.kind = "pending" => work[p].supplied \in {None, r.join}

\* The answer to a rotation.
Rotated(p, r) ==
    /\ r.kind \in {"rotated", "invite"}
    /\ r.kind = "rotated" =>
          /\ r.join \in 1..minted /\ r.invite = None
          /\ about[r.join].who = session[p].who
          /\ about[r.join].group = session[p].group
    /\ r.kind = "invite" =>
          r.join = None /\ r.invite \in 1..minted /\ about[r.invite].kind = "invite"

Queue(p) ==
    /\ pc[p] = "asked" =>
          /\ work[p].group \in Group /\ work[p].supplied \in (1..minted) \cup {None, Shared}
          /\ Len(reply[p]) = 1 /\ Answered(p, reply[p][1])
    /\ InChat(p) =>
          /\ session[p].group \in Group /\ session[p].who \in 1..minted
          /\ \A i \in 1..Len(reply[p]) : Rotated(p, reply[p][i])
    /\ pc[p] # "asked" /\ ~InChat(p) => reply[p] = <<>>
    /\ work[p].fresh \subseteq 1..minted
    /\ pc[p] \notin Saving => work[p].fresh = {}
    /\ pc[p] = "off" => mem[p] = Empty

\* The record of the group that p chats in.
Recorded(p) ==
    LET join == mem[p][session[p].group].join
    IN  /\ join # None /\ about[join].group = session[p].group
        /\ session[p].own => about[join].who = session[p].who

\* A rotated token has outdated the one that it replaces and those before it.
Overtaken(p) ==
    \A i \in 1..Len(reply[p]) : reply[p][i].kind = "rotated" =>
       /\ session[p].own => mem[p][session[p].group].join \notin current
       /\ \A j \in 1..(i - 1) : reply[p][j].kind = "rotated" => reply[p][j].join \notin current

\* One process: its copy, its connection, its chat.
Local(p) ==
    /\ Sound(mem[p])
    /\ Queue(p)
    /\ InChat(p) => Recorded(p) /\ Overtaken(p)

\* All of them, and the disk.
Structure ==
    /\ Sound(file.records) /\ Sound(durable.records)
    /\ \A p \in Process : Local(p)

\* A token that is not kept has only just been issued.
Owed ==
    \A t \in Precious : Kept(t) \/
       \E p \in Process : \E i \in 1..Len(reply[p]) :
          reply[p][i].kind # "welcome" /\ t \in InReply(reply[p][i])

\* What a process has in its copy is kept.
Copies == \A p \in Process : \A t \in Precious : SavedIn(mem[p], t) => Kept(t)

\* What a power failure would take away is about to be synced.
Synced ==
    \A t \in Precious : SavedIn(file.records, t) =>
       \/ SavedIn(durable.records, t)
       \/ \E p \in Process : t \in work[p].fresh
       \/ fate[t] # "none"

\* A copy that nobody has outrun has what the file has.
UpToDate ==
    \A p \in Process : pc[p] # "off" /\ p \notin stale =>
       \A t \in Precious : SavedIn(file.records, t) => SavedIn(mem[p], t) \/ fate[t] # "none"

\* What a save is for gets into the file.
Arrives ==
    \A p \in Process : \A t \in work[p].fresh \cap Precious :
       /\ pc[p] \in {"save", "synced"} => SavedIn(mem[p], t)
       /\ pc[p] = "renamed" => SavedIn(file.records, t) \/ fate[t] # "none"

-----------------------------------------------------------------------------
(* What the gateway hands out *)

\* Mint numbers the new tokens on and leaves the old ones as they are.
LEMMA MintEffect ==
  ASSUME Typed, NEW kinds \in Seq(Kind), Len(kinds) \in {1, 2}, NEW g \in Group,
         NEW who \in Token \cup {None}, NEW old, Mint(kinds, g, who, old)
  PROVE  /\ minted' = minted + Len(kinds) /\ minted' \in 0..MaxTokens
         /\ about' \in Seq(About) /\ Len(about') = minted'
         /\ \A t \in 1..minted : about'[t] = about[t]
         /\ \A i \in 1..Len(kinds) :
               about'[minted + i] = [group |-> g, kind |-> kinds[i],
                                     who |-> IF who = None THEN minted + i ELSE who]
         /\ current' = (current \ old) \cup (minted + 1)..minted'
<1>1. minted \in Nat /\ minted' = minted + Len(kinds) /\ minted' \in 0..MaxTokens
      /\ Len(kinds) \in Nat
      /\ current' = (current \ old) \cup (minted + 1)..minted'
  BY ConstantsAssumption DEF Mint, Typed, TypeOK
<1> DEFINE new == [i \in 1..Len(kinds) |-> [group |-> g, kind |-> kinds[i],
                                     who |-> IF who = None THEN minted + i ELSE who]]
<1>2. DOMAIN kinds = 1..Len(kinds) /\ about' = about \o new
  BY DEF Mint
<1>3. \A i \in 1..Len(kinds) : kinds[i] \in Kind /\ minted + i \in Token
  BY <1>1, ConstantsAssumption DEF Token
<1>4. \A i \in 1..Len(kinds) : new[i] \in About
  BY <1>3 DEF About
<1>5. new \in Seq(About) /\ Len(new) = Len(kinds)
  <2> HIDE DEF new
  <2>1. new = [i \in 1..Len(kinds) |-> new[i]]
    BY DEF new
  <2>2. QED
    BY <1>1, <1>4, <2>1
<1>6. about \in Seq(About) /\ Len(about) = minted
  BY DEF Typed, TypeOK
<1> HIDE DEF new
<1>b. /\ about \o new \in Seq(About) /\ Len(about \o new) = Len(about) + Len(new)
      /\ \A i \in 1..Len(about) + Len(new) :
            (about \o new)[i] = IF i <= Len(about) THEN about[i] ELSE new[i - Len(about)]
  <2>1. /\ about \o new \in Seq(About)
        /\ Len(about \o new) = Len(about) + Len(new)
    BY <1>5, <1>6, ConcatProperties
  <2>2. \A i \in 1..Len(about) + Len(new) :
            (about \o new)[i] = IF i <= Len(about) THEN about[i] ELSE new[i - Len(about)]
    BY <1>5, <1>6, ConcatProperties
  <2>3. QED
    BY <2>1, <2>2
<1>7. about' \in Seq(About) /\ Len(about') = minted'
  BY <1>1, <1>2, <1>5, <1>6, <1>b
<1>8. \A t \in 1..minted : about'[t] = about[t]
  BY <1>1, <1>2, <1>5, <1>6, <1>b
<1>9. \A i \in 1..Len(kinds) : about'[minted + i] = new[i]
  BY <1>1, <1>2, <1>5, <1>6, <1>b
<1> USE DEF new
<1>10. QED
  BY <1>1, <1>7, <1>8, <1>9


-----------------------------------------------------------------------------
(* Types, in parts *)

GatewayTyped ==
    /\ mode \in [Group -> Mode \cup {"absent"}]
    /\ minted \in 0..MaxTokens
    /\ about \in Seq(About) /\ Len(about) = minted
    /\ \A t \in 1..minted : about[t].who \in 1..minted
    /\ current \subseteq 1..minted

DiskTyped ==
    /\ file \in [records : Records, data : {"disk"}]
    /\ durable \in [records : Records, data : {"disk"}]

Session == [group : Group \cup {NoGroup}, who : Token \cup {None}, own : BOOLEAN]
Work == [group : Group \cup {NoGroup}, supplied : Token \cup {None, Shared},
         fresh : SUBSET Token, after : {"lobby", "chat"}]

ProcessTyped ==
    /\ mem \in [Process -> Records]
    /\ pc \in [Process -> PC]
    /\ session \in [Process -> Session]
    /\ work \in [Process -> Work]
    /\ reply \in [Process -> Seq(Replies)]
    /\ stale \subseteq Process

CountsTyped ==
    /\ fate \in [Token -> Fate]
    /\ requests \in 0..MaxRequests /\ faults \in 0..MaxFaults

\* Typed is its four parts.
LEMMA TypedParts == Typed <=> GatewayTyped /\ DiskTyped /\ ProcessTyped /\ CountsTyped
<1>1. ASSUME Typed PROVE GatewayTyped /\ DiskTyped /\ ProcessTyped /\ CountsTyped
  BY <1>1 DEF Typed, TypeOK, GatewayTyped, DiskTyped, ProcessTyped, CountsTyped, Session, Work
<1>2. ASSUME GatewayTyped, DiskTyped, ProcessTyped, CountsTyped PROVE Typed
  <2>1. DOMAIN about = 1..minted /\ \A t \in 1..minted : about[t] \in About
    BY <1>2 DEF GatewayTyped
  <2>2. \A p \in Process : \A i \in DOMAIN reply[p] : reply[p][i] \in Replies
    BY <1>2 DEF ProcessTyped
  <2>3. /\ {file.data, durable.data} \subseteq {"disk", "cache", "torn"}
        /\ {file.records, durable.records} \subseteq Records
    BY <1>2 DEF DiskTyped
  <2>4. QED
    BY <1>2, <2>1, <2>2, <2>3
    DEF GatewayTyped, DiskTyped, ProcessTyped, CountsTyped, Typed, TypeOK, Session, Work
<1>3. QED
  BY <1>1, <1>2

\* A fate is one of the reasons, and the first one stays.
LEMMA DoomedFates ==
  ASSUME Typed, NEW tokens, NEW reason \in Fate
  PROVE  /\ Doomed(tokens, reason) \in [Token -> Fate]
         /\ \A t \in Token : fate[t] # "none" => Doomed(tokens, reason)[t] = fate[t]
         /\ reason # "none" =>
               \A t \in tokens \cap Precious : Doomed(tokens, reason)[t] # "none"
<1>1. fate \in [Token -> Fate]
  BY DEF Typed, TypeOK
<1>2. minted \in 0..MaxTokens /\ current \subseteq 1..minted /\ MaxTokens \in Nat
  BY ConstantsAssumption DEF Typed, TypeOK
<1>3. Precious \subseteq Token
  <2>1. SUFFICES ASSUME NEW t \in Precious PROVE t \in Token
    OBVIOUS
  <2>2. t \in 1..minted
    BY <1>2 DEF Precious
  <2>3. QED
    BY <1>2, <2>2 DEF Token
<1>4. QED
  BY <1>1, <1>3 DEF Doomed

-----------------------------------------------------------------------------
(* Steps of the gateway *)

\* What no step takes back: a token's group and holder, an invite's kind, that
\* a token is not accepted any more, and that its loss has a name.
Grows ==
    /\ minted <= minted'
    /\ \A t \in 1..minted :
          /\ about'[t].group = about[t].group /\ about'[t].who = about[t].who
          /\ about'[t].kind = "invite" <=> about[t].kind = "invite"
          /\ t \in current' => t \in current
    /\ \A t \in Token : fate[t] # "none" => fate'[t] # "none"

\* p's question is answered with r, and r has every new token.
Issues(p, r) ==
    /\ reply' = [reply EXCEPT ![p] = Append(@, r)]
    /\ GatewayTyped' /\ Grows
    /\ \A t \in Precious' : t > minted => t \in InReply(r) /\ r.kind # "welcome"
    /\ requests' \in 0..MaxRequests
    /\ UNCHANGED <<diskVars, mem, session, stale, fate, faults>>

\* CreateGroup answers with the administrator token, and the invite token of an invite
\* group.
LEMMA CreateIssues ==
  ASSUME Typed, NEW p \in Process, NEW g \in Group, NEW m \in Mode, CreateGroup(p, g, m)
  PROVE  \E r \in Replies : Issues(p, r) /\ Answered(p, r)'
<1> DEFINE kinds == IF m = "invite" THEN <<"admin", "invite">> ELSE <<"admin">>
<1>1. kinds \in Seq(Kind) /\ Len(kinds) \in {1, 2}
      /\ (m = "invite" => Len(kinds) = 2 /\ kinds[1] = "admin" /\ kinds[2] = "invite")
      /\ (m # "invite" => Len(kinds) = 1 /\ kinds[1] = "admin")
  <2>1. CASE m = "invite"
    <3>1. kinds = <<"admin", "invite">>
      BY <2>1
    <3>2. QED
      BY <2>1, <3>1 DEF Kind
  <2>2. CASE m # "invite"
    <3>1. kinds = <<"admin">>
      BY <2>2
    <3>2. QED
      BY <2>2, <3>1 DEF Kind
  <2>3. QED
    BY <2>1, <2>2
<1> HIDE DEF kinds
<1>2. /\ Mint(kinds, g, None, {}) /\ mode' = [mode EXCEPT ![g] = m]
      /\ pc' = [pc EXCEPT ![p] = "asked"]
      /\ work' = [work EXCEPT ![p] = [Idle EXCEPT !.group = g]]
      /\ requests' \in 0..MaxRequests
      /\ UNCHANGED <<diskVars, mem, session, stale, fate, faults>>
  BY ConstantsAssumption DEF CreateGroup, Ask, kinds, Typed, TypeOK
<1>r. PICK r : r = [kind |-> "issued", join |-> minted + 1,
                    invite |-> IF m = "invite" THEN minted + 2 ELSE None]
  OBVIOUS
<1>3. reply' = [reply EXCEPT ![p] = Append(@, r)]
  BY <1>r DEF CreateGroup, Answer
<1>4. /\ minted' = minted + Len(kinds) /\ minted' \in 0..MaxTokens
      /\ about' \in Seq(About) /\ Len(about') = minted'
      /\ \A t \in 1..minted : about'[t] = about[t]
      /\ \A i \in 1..Len(kinds) :
            about'[minted + i] = [group |-> g, kind |-> kinds[i], who |-> minted + i]
      /\ current' = current \cup (minted + 1)..minted'
  <2>1. /\ minted' = minted + Len(kinds) /\ minted' \in 0..MaxTokens
        /\ about' \in Seq(About) /\ Len(about') = minted'
        /\ \A t \in 1..minted : about'[t] = about[t]
        /\ \A i \in 1..Len(kinds) :
              about'[minted + i] = [group |-> g, kind |-> kinds[i],
                                    who |-> IF None = None THEN minted + i ELSE None]
        /\ current' = (current \ {}) \cup (minted + 1)..minted'
    BY <1>1, <1>2, MintEffect
  <2>2. QED
    BY <2>1
<1>5. minted \in Nat /\ current \subseteq 1..minted /\ mode \in [Group -> Mode \cup {"absent"}]
      /\ work \in [Process -> Work]
  BY TypedParts DEF GatewayTyped, ProcessTyped
<1>a. /\ minted' = minted + 1 \/ (m = "invite" /\ minted' = minted + 2)
      /\ m = "invite" => minted' = minted + 2
      /\ MaxTokens \in Nat
  BY <1>1, <1>4, <1>5, ConstantsAssumption
<1>b. about'[minted + 1] = [group |-> g, kind |-> "admin", who |-> minted + 1]
  <2>1. 1 \in 1..Len(kinds) /\ kinds[1] = "admin"
    BY <1>1
  <2>2. QED
    BY <1>4, <2>1
<1>c. m = "invite" => about'[minted + 2].kind = "invite"
  <2>1. SUFFICES ASSUME m = "invite" PROVE about'[minted + 2].kind = "invite"
    OBVIOUS
  <2>2. Len(kinds) = 2 /\ kinds[2] = "invite"
    BY <1>1, <2>1
  <2>3. about'[minted + 2] = [group |-> g, kind |-> "invite", who |-> minted + 2]
    <3>1. 2 \in 1..Len(kinds)
      BY <2>2
    <3>2. QED
      BY <1>4, <2>2, <3>1
  <2>4. QED
    BY <2>3
<1>6. r \in Replies
  BY <1>r, <1>a, <1>4, <1>5 DEF Replies, Token, None
<1>7. GatewayTyped'
  <2>1. \A t \in 1..minted' : about'[t].who \in 1..minted'
    <3>1. \A t \in 1..minted : about'[t].who \in 1..minted
      BY <1>4, TypedParts DEF GatewayTyped
    <3>2. about'[minted + 1].who = minted + 1
      BY <1>b
    <3>3. m = "invite" => about'[minted + 2].who = minted + 2
      <4>1. SUFFICES ASSUME m = "invite" PROVE about'[minted + 2].who = minted + 2
        OBVIOUS
      <4>a. Len(kinds) = 2
        BY <1>1, <4>1
      <4>2. 2 \in 1..Len(kinds)
        BY <4>a
      <4>3. about'[minted + 2] = [group |-> g, kind |-> kinds[2], who |-> minted + 2]
        BY <1>4, <4>2
      <4>4. QED
        BY <4>3
    <3>4. QED
      BY <1>a, <1>5, <3>1, <3>2, <3>3
  <2>2. mode' \in [Group -> Mode \cup {"absent"}]
    BY <1>2, <1>5
  <2>3. current' \subseteq 1..minted'
    <3>1. ASSUME NEW t \in current' PROVE t \in 1..minted'
      <4>1. t \in 1..minted \/ t \in (minted + 1)..minted'
        BY <1>4, <1>5
      <4>2. QED
        BY <1>a, <1>5, <4>1
    <3>2. QED
      BY <3>1
  <2>4. QED
    BY <1>4, <2>1, <2>2, <2>3 DEF GatewayTyped
<1>8. Grows
  BY <1>2, <1>4, <1>5, <1>1 DEF Grows
<1>9. \A t \in Precious' : t > minted => t \in InReply(r) /\ r.kind # "welcome"
  <2>1. SUFFICES ASSUME NEW t \in Precious', t > minted
                 PROVE  t = minted + 1
    <3>1. minted + 1 # None /\ r.kind = "issued" /\ r.join = minted + 1
      BY <1>r, <1>5 DEF None
    <3>2. minted + 1 \in InReply(r)
      BY <3>1 DEF InReply
    <3>3. QED
      BY <3>1, <3>2
  <2>2. t \in current' /\ about'[t].kind # "invite"
    BY DEF Precious
  <2>3. t \in (minted + 1)..minted'
    BY <1>4, <1>5, <2>1, <2>2
  <2>4. t = minted + 1 \/ (m = "invite" /\ t = minted + 2)
    BY <1>a, <1>5, <2>3
  <2>5. QED
    BY <1>c, <2>2, <2>4
<1>10. Answered(p, r)'
  <2>1. work'[p] = [Idle EXCEPT !.group = g]
    BY <1>2, <1>5
  <2>2. work'[p].group = g /\ work'[p].supplied = None
    BY <2>1 DEF Idle
  <2>3. minted + 1 \in 1..minted' /\ about'[minted + 1].group = g
    BY <1>a, <1>b, <1>5
  <2>4. m = "invite" => minted + 2 \in 1..minted' /\ about'[minted + 2].kind = "invite"
    BY <1>a, <1>c, <1>5
  <2>5. /\ r.kind = "issued" /\ r.join = minted + 1
        /\ r.invite = IF m = "invite" THEN minted + 2 ELSE None
    BY <1>r
  <2>6. QED
    BY <2>2, <2>3, <2>4, <2>5 DEF Answered
<1>11. Issues(p, r)
  BY <1>2, <1>3, <1>7, <1>8, <1>9 DEF Issues
<1>12. QED
  BY <1>6, <1>10, <1>11

\* One new token.
LEMMA MintOne ==
  ASSUME Typed, NEW k \in Kind, NEW g \in Group, NEW who \in (1..minted) \cup {None}, NEW old,
         Mint(<<k>>, g, who, old), UNCHANGED <<mode, fate>>
  PROVE  /\ minted \in Nat /\ minted' = minted + 1 /\ minted + 1 \in Token
         /\ about'[minted + 1] =
               [group |-> g, kind |-> k, who |-> IF who = None THEN minted + 1 ELSE who]
         /\ \A t \in 1..minted : about'[t] = about[t]
         /\ current' = (current \ old) \cup {minted + 1}
         /\ GatewayTyped' /\ Grows
         /\ \A t \in Precious' : t > minted => t = minted + 1
<1>0. who \in Token \cup {None}
  BY TypedParts, ConstantsAssumption DEF GatewayTyped, Token
<1>1. <<k>> \in Seq(Kind) /\ Len(<<k>>) = 1 /\ <<k>>[1] = k
  OBVIOUS
<1>2. /\ minted' = minted + 1 /\ minted' \in 0..MaxTokens
      /\ about' \in Seq(About) /\ Len(about') = minted'
      /\ \A t \in 1..minted : about'[t] = about[t]
      /\ \A i \in 1..1 :
            about'[minted + i] = [group |-> g, kind |-> <<k>>[i],
                                  who |-> IF who = None THEN minted + i ELSE who]
      /\ current' = (current \ old) \cup (minted + 1)..minted'
  <2>1. /\ minted' = minted + Len(<<k>>) /\ minted' \in 0..MaxTokens
        /\ about' \in Seq(About) /\ Len(about') = minted'
        /\ \A t \in 1..minted : about'[t] = about[t]
        /\ \A i \in 1..Len(<<k>>) :
              about'[minted + i] = [group |-> g, kind |-> <<k>>[i],
                                    who |-> IF who = None THEN minted + i ELSE who]
        /\ current' = (current \ old) \cup (minted + 1)..minted'
    BY <1>1, <1>0, MintEffect
  <2>2. QED
    BY <1>1, <2>1
<1>3. minted \in Nat /\ current \subseteq 1..minted /\ mode \in [Group -> Mode \cup {"absent"}]
  BY TypedParts DEF GatewayTyped
<1>4. about'[minted + 1] =
         [group |-> g, kind |-> k, who |-> IF who = None THEN minted + 1 ELSE who]
  <2>1. 1 \in 1..1
    OBVIOUS
  <2>2. about'[minted + 1] =
           [group |-> g, kind |-> <<k>>[1], who |-> IF who = None THEN minted + 1 ELSE who]
    BY <1>2, <2>1
  <2>3. QED
    BY <1>1, <2>2
<1>5. current' = (current \ old) \cup {minted + 1}
  BY <1>2, <1>3
<1>6. minted + 1 \in Token
  BY <1>2, <1>3, ConstantsAssumption DEF Token
<1>7. GatewayTyped'
  <2>1. current' \subseteq 1..minted'
    <3>1. minted' = minted + 1 /\ minted \in Nat
      BY <1>2, <1>3
    <3>2. SUFFICES ASSUME NEW t \in current' PROVE t \in 1..minted'
      OBVIOUS
    <3>3. t \in 1..minted \/ t = minted + 1
      BY <1>3, <1>5
    <3>4. QED
      BY <3>1, <3>3
  <2>2. mode' = mode
    OBVIOUS
  <2>3. \A t \in 1..minted' : about'[t].who \in 1..minted'
    <3>1. \A t \in 1..minted : about'[t].who \in 1..minted
      BY <1>2, TypedParts DEF GatewayTyped
    <3>2. about'[minted + 1].who \in 1..(minted + 1)
      BY <1>3, <1>4
    <3>3. minted' = minted + 1
      BY <1>2
    <3>4. QED
      BY <1>3, <3>1, <3>2, <3>3
  <2>4. QED
    BY <1>2, <1>3, <2>1, <2>2, <2>3 DEF GatewayTyped
<1>8. Grows
  <2>1. ASSUME NEW t \in 1..minted
        PROVE  about'[t] = about[t] /\ (t \in current' => t \in current)
    BY <1>2, <1>3, <1>5
  <2>2. QED
    BY <1>2, <1>3, <2>1 DEF Grows
<1>9. \A t \in Precious' : t > minted => t = minted + 1
  BY <1>3, <1>5 DEF Precious
<1>10. QED
  BY <1>2, <1>3, <1>4, <1>5, <1>6, <1>7, <1>8, <1>9

\* Nothing minted.
LEMMA MintNone ==
  ASSUME Typed, UNCHANGED <<gatewayVars, fate>>
  PROVE  /\ GatewayTyped' /\ Grows
         /\ \A t \in Precious' : t \in Precious /\ t \in 1..minted
<1>1. minted \in Nat /\ current \subseteq 1..minted /\ GatewayTyped
  BY TypedParts DEF GatewayTyped
<1>2. UNCHANGED <<mode, minted, about, current, fate>>
  BY DEF gatewayVars
<1>3. GatewayTyped'
  BY <1>1, <1>2 DEF GatewayTyped
<1>4. Grows
  BY <1>1, <1>2 DEF Grows
<1>5. \A t \in Precious' : t \in Precious /\ t \in 1..minted
  BY <1>1, <1>2 DEF Precious
<1>6. QED
  BY <1>3, <1>4, <1>5

\* A choice of a group is accepted as it is, brings a member or request token, or keeps
\* waiting; what it presented is nothing, the shared invite or a token that was issued.
LEMMA JoinIssues ==
  ASSUME Typed, NEW p \in Process, Local(p), NEW g \in Group, NEW t \in Token \cup {None, Shared},
         JoinGroup(p, g, t)
  PROVE  /\ \E r \in Replies : Issues(p, r) /\ Answered(p, r)'
         /\ t \in (1..minted) \cup {None, Shared}
<1>1. /\ requests' \in 0..MaxRequests
      /\ pc' = [pc EXCEPT ![p] = "asked"]
      /\ work' = [work EXCEPT ![p] = [Idle EXCEPT !.group = g, !.supplied = t]]
      /\ UNCHANGED <<mode, diskVars, mem, session, stale, fate, faults>>
  BY ConstantsAssumption DEF JoinGroup, Ask, Typed, TypeOK
<1>2. /\ minted \in Nat /\ current \subseteq 1..minted /\ work \in [Process -> Work]
      /\ minted <= MaxTokens /\ MaxTokens \in Nat
  BY TypedParts, ConstantsAssumption DEF GatewayTyped, ProcessTyped
<1>3. t \in (1..minted) \cup {None, Shared}
  <2>1. mem[p][g].join \in (1..minted) \cup {None}
    BY DEF Local, Sound
  <2>2. t \in {mem[p][g].join, None, Shared} \cup current
    BY DEF JoinGroup, Presented
  <2>3. QED
    BY <1>2, <2>1, <2>2
<1>4. work'[p].group = g /\ work'[p].supplied = t
  <2>1. work'[p] = [Idle EXCEPT !.group = g, !.supplied = t]
    BY <1>1, <1>2
  <2>2. QED
    BY <2>1 DEF Idle
<1>5. ASSUME Accepts(t, g), Answer(p, [kind |-> "welcome", join |-> t, invite |-> None]),
             UNCHANGED <<minted, about, current>>
      PROVE  \E r \in Replies : Issues(p, r) /\ Answered(p, r)'
  <2>1. PICK r : r = [kind |-> "welcome", join |-> t, invite |-> None]
    OBVIOUS
  <2>2. t \in current /\ about[t].group = g
    BY <1>5 DEF Accepts, Identity
  <2>3. t \in 1..minted /\ t \in Token
    BY <1>2, <2>2 DEF Token
  <2>4. r \in Replies
    BY <2>1, <2>3 DEF Replies
  <2>5. UNCHANGED <<gatewayVars, fate>>
    BY <1>1, <1>5 DEF gatewayVars
  <2>6. GatewayTyped' /\ Grows /\ \A u \in Precious' : ~(u > minted)
    BY <1>2, <2>5, MintNone
  <2>7. Issues(p, r)
    BY <1>1, <1>5, <2>1, <2>6 DEF Issues, Answer
  <2>8. Answered(p, r)'
    BY <1>4, <1>5, <2>1, <2>2, <2>3 DEF Answered
  <2>9. QED
    BY <2>4, <2>7, <2>8
<1>6. ASSUME Redeems(t, g),
             Mint(<<"member">>, g, None, {u \in {t} \cap current : about[u].kind = "approved"}),
             Answer(p, [kind |-> "member", join |-> minted + 1, invite |-> None])
      PROVE  \E r \in Replies : Issues(p, r) /\ Answered(p, r)'
  <2>1. PICK r : r = [kind |-> "member", join |-> minted + 1, invite |-> None]
    OBVIOUS
  <2>2. PICK old : old = {u \in {t} \cap current : about[u].kind = "approved"}
    OBVIOUS
  <2>3. "member" \in Kind /\ Mint(<<"member">>, g, None, old) /\ UNCHANGED <<mode, fate>>
    BY <1>1, <1>6, <2>2 DEF Kind
  <2>4. /\ minted' = minted + 1 /\ minted + 1 \in Token
        /\ about'[minted + 1] = [group |-> g, kind |-> "member",
                                 who |-> IF None = None THEN minted + 1 ELSE None]
        /\ \A u \in 1..minted : about'[u] = about[u]
        /\ current' = (current \ old) \cup {minted + 1}
        /\ GatewayTyped' /\ Grows
        /\ \A u \in Precious' : u > minted => u = minted + 1
    BY <2>3, MintOne
  <2>5. r \in Replies
    BY <2>1, <2>4 DEF Replies
  <2>6. minted + 1 \in InReply(r) /\ r.kind # "welcome" /\ r.join = minted + 1 /\ r.invite = None
    BY <1>2, <2>1 DEF InReply, None
  <2>7. Issues(p, r)
    BY <1>1, <1>6, <2>1, <2>4, <2>6 DEF Issues, Answer
  <2>8. t \notin Precious'
    <3>1. CASE t \notin current
      BY <1>2, <1>3, <2>4, <3>1 DEF Precious, Shared, None, Token
    <3>2. CASE t \in current /\ about[t].kind = "invite"
      BY <1>2, <2>4, <3>2 DEF Precious
    <3>3. CASE t \in current /\ about[t].kind = "approved"
      BY <1>2, <2>2, <2>4, <3>3 DEF Precious
    <3>4. QED
      <4>1. CASE t = None \/ t = Shared
        BY <1>2, <3>1, <4>1 DEF Shared, None
      <4>2. CASE t \notin {None, Shared}
        BY <1>6, <3>2, <3>3, <4>2 DEF Redeems
      <4>3. QED
        BY <4>1, <4>2
  <2>9. Answered(p, r)'
    BY <1>2, <1>4, <2>1, <2>4, <2>6, <2>8 DEF Answered
  <2>10. QED
    BY <2>5, <2>7, <2>9
<1>7. ASSUME t = None, Mint(<<"pending">>, g, None, {}),
             Answer(p, [kind |-> "pending", join |-> minted + 1, invite |-> None])
      PROVE  \E r \in Replies : Issues(p, r) /\ Answered(p, r)'
  <2>1. PICK r : r = [kind |-> "pending", join |-> minted + 1, invite |-> None]
    OBVIOUS
  <2>3. "pending" \in Kind /\ Mint(<<"pending">>, g, None, {}) /\ UNCHANGED <<mode, fate>>
    BY <1>1, <1>7 DEF Kind
  <2>4. /\ minted' = minted + 1 /\ minted + 1 \in Token
        /\ about'[minted + 1] = [group |-> g, kind |-> "pending",
                                 who |-> IF None = None THEN minted + 1 ELSE None]
        /\ GatewayTyped' /\ Grows
        /\ \A u \in Precious' : u > minted => u = minted + 1
    BY <2>3, MintOne
  <2>5. r \in Replies
    BY <2>1, <2>4 DEF Replies
  <2>6. minted + 1 \in InReply(r) /\ r.kind # "welcome" /\ r.join = minted + 1 /\ r.invite = None
    BY <1>2, <2>1 DEF InReply, None
  <2>7. Issues(p, r)
    BY <1>1, <1>7, <2>1, <2>4, <2>6 DEF Issues, Answer
  <2>9. Answered(p, r)'
    BY <1>2, <1>4, <1>7, <2>1, <2>4, <2>6 DEF Answered
  <2>10. QED
    BY <2>5, <2>7, <2>9
<1>8. ASSUME StillPending(t, g), Answer(p, [kind |-> "pending", join |-> t, invite |-> None]),
             UNCHANGED <<minted, about, current>>
      PROVE  \E r \in Replies : Issues(p, r) /\ Answered(p, r)'
  <2>1. PICK r : r = [kind |-> "pending", join |-> t, invite |-> None]
    OBVIOUS
  <2>2. t \in current /\ about[t].group = g
    BY <1>8 DEF StillPending
  <2>3. t \in 1..minted /\ t \in Token
    BY <1>2, <2>2 DEF Token
  <2>4. r \in Replies
    BY <2>1, <2>3 DEF Replies
  <2>5. UNCHANGED <<gatewayVars, fate>>
    BY <1>1, <1>8 DEF gatewayVars
  <2>6. GatewayTyped' /\ Grows /\ \A u \in Precious' : ~(u > minted)
    BY <1>2, <2>5, MintNone
  <2>7. Issues(p, r)
    BY <1>1, <1>8, <2>1, <2>6 DEF Issues, Answer
  <2>8. Answered(p, r)'
    BY <1>4, <1>8, <2>1, <2>2, <2>3 DEF Answered
  <2>9. QED
    BY <2>4, <2>7, <2>8
<1>9. QED
  BY <1>3, <1>5, <1>6, <1>7, <1>8 DEF JoinGroup

\* A rotation puts a new token of the same identity in the place of the old ones.
LEMMA RotateIdentityIssues ==
  ASSUME Typed, NEW p \in Process, Local(p), RotateIdentity(p)
  PROVE  \E r \in Replies :
            /\ Issues(p, r) /\ Rotated(p, r)'
            /\ r.kind = "rotated" /\ r.join = minted + 1
            /\ \A t \in current' : about'[t].who = session[p].who => t = minted + 1
<1>1. PICK s : s = session[p]
  OBVIOUS
<1>2. PICK old : old = {t \in current : about[t].who = session[p].who}
  OBVIOUS
<1>3. pc[p] = "chat" /\ s.group \in Group /\ s.who \in 1..minted
  BY <1>1 DEF RotateIdentity, Ask, Local, Queue, InChat
<1>4. /\ minted \in Nat /\ current \subseteq 1..minted
      /\ about \in Seq(About) /\ Len(about) = minted
      /\ minted <= MaxTokens /\ MaxTokens \in Nat
  BY TypedParts, ConstantsAssumption DEF GatewayTyped
<1>5. s.who \in Token \cup {None} /\ s.who # None /\ about[s.who].kind \in Kind
  <2>1. s.who \in Token /\ s.who # None /\ about[s.who] \in About
    BY <1>3, <1>4 DEF Token, None
  <2>2. QED
    BY <2>1 DEF About
<1>6. /\ Mint(<<about[s.who].kind>>, s.group, s.who, old)
      /\ Answer(p, [kind |-> "rotated", join |-> minted + 1, invite |-> None])
      /\ UNCHANGED <<mode, diskVars, mem, pc, session, work, stale, fate, faults>>
      /\ requests' \in 0..MaxRequests
  <2>1. requests \in 0..MaxRequests /\ MaxRequests \in Nat
    BY ConstantsAssumption DEF Typed, TypeOK
  <2>2. requests < MaxRequests /\ requests' = requests + 1
    BY DEF RotateIdentity, Ask
  <2>3. Mint(<<about[session[p].who].kind>>, session[p].group, session[p].who, old)
    BY <1>2 DEF RotateIdentity
  <2>4. /\ Answer(p, [kind |-> "rotated", join |-> minted + 1, invite |-> None])
        /\ UNCHANGED <<mode, diskVars, mem, pc, session, work, stale, fate, faults>>
    BY DEF RotateIdentity
  <2>5. QED
    BY <1>1, <2>1, <2>2, <2>3, <2>4
<1>7. PICK k \in Kind : k = about[s.who].kind
  BY <1>5
<1>8. /\ minted' = minted + 1 /\ minted + 1 \in Token
      /\ about'[minted + 1] = [group |-> s.group, kind |-> k,
                               who |-> IF s.who = None THEN minted + 1 ELSE s.who]
      /\ \A t \in 1..minted : about'[t] = about[t]
      /\ current' = (current \ old) \cup {minted + 1}
      /\ GatewayTyped' /\ Grows
      /\ \A t \in Precious' : t > minted => t = minted + 1
  <2>1. Mint(<<k>>, s.group, s.who, old) /\ UNCHANGED <<mode, fate>>
    BY <1>6, <1>7
  <2>2. QED
    BY <1>3, <1>5, <2>1, MintOne
<1>9. PICK r : r = [kind |-> "rotated", join |-> minted + 1, invite |-> None]
  OBVIOUS
<1>10. r \in Replies
  BY <1>8, <1>9 DEF Replies
<1>11. /\ minted + 1 \in InReply(r) /\ r.kind = "rotated" /\ r.join = minted + 1
       /\ r.invite = None
  BY <1>4, <1>9 DEF InReply, None
<1>12. Issues(p, r)
  BY <1>6, <1>8, <1>9, <1>11 DEF Issues, Answer
<1>13. Rotated(p, r)'
  BY <1>1, <1>4, <1>5, <1>6, <1>8, <1>11 DEF Rotated
<1>14. ASSUME NEW t \in current', about'[t].who = session[p].who PROVE t = minted + 1
  BY <1>1, <1>2, <1>4, <1>8, <1>14
<1>15. QED
  BY <1>10, <1>11, <1>12, <1>13, <1>14

\* A new invite token stands for no identity.
LEMMA RotateInviteIssues ==
  ASSUME Typed, NEW p \in Process, Local(p), RotateInvite(p)
  PROVE  \E r \in Replies : Issues(p, r) /\ Rotated(p, r)' /\ r.kind = "invite"
<1>1. PICK g : g = session[p].group
  OBVIOUS
<1>2. PICK old :
         old = {t \in current : about[t].group = session[p].group /\ about[t].kind = "invite"}
  OBVIOUS
<1>3. pc[p] = "chat" /\ g \in Group
  BY <1>1 DEF RotateInvite, Ask, Local, Queue, InChat
<1>4. minted \in Nat
  BY TypedParts DEF GatewayTyped
<1>5. /\ Mint(<<"invite">>, g, None, old)
      /\ Answer(p, [kind |-> "invite", join |-> None, invite |-> minted + 1])
      /\ UNCHANGED <<mode, diskVars, mem, pc, session, work, stale, fate, faults>>
      /\ requests' \in 0..MaxRequests
  <2>1. requests \in 0..MaxRequests /\ MaxRequests \in Nat
    BY ConstantsAssumption DEF Typed, TypeOK
  <2>2. requests < MaxRequests /\ requests' = requests + 1
    BY DEF RotateInvite, Ask
  <2>3. Mint(<<"invite">>, session[p].group, None, old)
    BY <1>2 DEF RotateInvite
  <2>4. /\ Answer(p, [kind |-> "invite", join |-> None, invite |-> minted + 1])
        /\ UNCHANGED <<mode, diskVars, mem, pc, session, work, stale, fate, faults>>
    BY DEF RotateInvite
  <2>5. QED
    BY <1>1, <2>1, <2>2, <2>3, <2>4
<1>6. /\ minted' = minted + 1 /\ minted + 1 \in Token
      /\ about'[minted + 1] = [group |-> g, kind |-> "invite",
                               who |-> IF None = None THEN minted + 1 ELSE None]
      /\ GatewayTyped' /\ Grows
      /\ \A t \in Precious' : t > minted => t = minted + 1
  <2>1. Mint(<<"invite">>, g, None, old) /\ UNCHANGED <<mode, fate>> /\ "invite" \in Kind
    BY <1>5 DEF Kind
  <2>2. QED
    BY <1>3, <2>1, MintOne
<1>7. PICK r : r = [kind |-> "invite", join |-> None, invite |-> minted + 1]
  OBVIOUS
<1>8. r \in Replies
  BY <1>6, <1>7 DEF Replies
<1>9. ~\E t \in Precious' : t > minted
  BY <1>6 DEF Precious
<1>10. Issues(p, r)
  BY <1>5, <1>6, <1>7, <1>9 DEF Issues, Answer
<1>11. Rotated(p, r)'
  BY <1>4, <1>6, <1>7 DEF Rotated
<1>12. QED
  BY <1>7, <1>8, <1>10, <1>11

\* An approval changes what a token is, not which tokens there are.
LEMMA ApproveGrows ==
  ASSUME Typed, NEW t \in Token, Approve(t)
  PROVE  GatewayTyped' /\ Grows /\ minted' = minted /\ current' = current
<1>1. /\ t \in current /\ about[t].kind = "pending"
      /\ about' = [about EXCEPT ![t].kind = "approved"]
      /\ UNCHANGED <<mode, minted, current, fate>>
  BY DEF Approve
<1>2. /\ minted \in Nat /\ current \subseteq 1..minted
      /\ about \in Seq(About) /\ Len(about) = minted
      /\ GatewayTyped
  BY TypedParts DEF GatewayTyped
<1>3. t \in 1..minted /\ about[t] \in About
  BY <1>1, <1>2
<1>4. PICK a : a = [about[t] EXCEPT !.kind = "approved"]
  OBVIOUS
<1>5. a \in About /\ a.group = about[t].group /\ a.who = about[t].who /\ a.kind = "approved"
  BY <1>3, <1>4 DEF About, Kind
<1>6. about' = [about EXCEPT ![t] = a]
  BY <1>1, <1>4
<1>7. about' \in Seq(About) /\ Len(about') = minted
      /\ \A u \in 1..minted : about'[u] = IF u = t THEN a ELSE about[u]
  BY <1>2, <1>3, <1>5, <1>6
<1>8. GatewayTyped'
  BY <1>1, <1>2, <1>3, <1>5, <1>7 DEF GatewayTyped
<1>9. Grows
  BY <1>1, <1>2, <1>5, <1>7 DEF Grows
<1>10. QED
  BY <1>1, <1>8, <1>9

-----------------------------------------------------------------------------
(* One process's part of the invariant *)

\* The connections and copies of all but p are left alone.
Apart(p) ==
    \A q \in Process : q # p =>
       /\ mem'[q] = mem[q] /\ pc'[q] = pc[q] /\ session'[q] = session[q]
       /\ work'[q] = work[q] /\ reply'[q] = reply[q]

\* What was minted stays so.
LEMMA MintedGrows ==
  ASSUME Typed, GatewayTyped', Grows
  PROVE  /\ minted \in Nat /\ minted' \in Nat /\ 1..minted \subseteq 1..minted'
         /\ 1..minted \subseteq Token
         /\ \A t \in (1..minted) \cup {None, Shared} : t \notin Precious => t \notin Precious'
<1>1. minted \in Nat /\ minted' \in Nat /\ minted <= minted' /\ minted' <= MaxTokens
      /\ MaxTokens \in Nat /\ current' \subseteq 1..minted' /\ minted <= MaxTokens
  BY TypedParts, ConstantsAssumption DEF GatewayTyped, Grows
<1>2. None \notin 1..minted' /\ Shared \notin 1..minted'
  BY <1>1 DEF None, Shared
<1>3. ASSUME NEW t \in 1..minted, t \notin Precious PROVE t \notin Precious'
  BY <1>3 DEF Precious, Grows
<1>4. ASSUME NEW t \in {None, Shared} PROVE t \notin Precious'
  BY <1>1, <1>2, <1>4 DEF Precious
<1>5. QED
  <2>1. 1..minted \subseteq 1..minted' /\ 1..minted \subseteq Token
    BY <1>1 DEF Token
  <2>2. QED
    BY <1>1, <1>3, <1>4, <2>1

\* Records stay sound, replies what they are.
LEMMA SoundStays ==
  ASSUME Typed, GatewayTyped', Grows, NEW records, Sound(records)
  PROVE  Sound(records)'
<1>1. 1..minted \subseteq 1..minted'
  BY MintedGrows
<1>2. QED
  BY <1>1 DEF Sound, Grows

\* The store of a new user has nothing in it that could be wrong.
LEMMA EmptySound == Sound(Empty) /\ Empty \in Records
BY DEF Sound, Empty, NoRecord, Records, Record

\* A later issue does not make an answer wrong.
LEMMA AnsweredStays ==
  ASSUME Typed, GatewayTyped', Grows, NEW p \in Process, NEW r, Answered(p, r),
         work[p].supplied \in (1..minted) \cup {None, Shared}, work'[p] = work[p]
  PROVE  Answered(p, r)'
<1>1. 1..minted \subseteq 1..minted'
      /\ (work[p].supplied \notin Precious => work[p].supplied \notin Precious')
  BY MintedGrows
<1>2. QED
  BY <1>1 DEF Answered, Grows

\* Nor the answer to a rotation.
LEMMA RotatedStays ==
  ASSUME Typed, GatewayTyped', Grows, NEW p \in Process, NEW r, Rotated(p, r),
         session'[p] = session[p]
  PROVE  Rotated(p, r)'
<1>1. 1..minted \subseteq 1..minted'
  BY MintedGrows
<1>2. QED
  BY <1>1 DEF Rotated, Grows

\* A process that takes no step keeps its part.
LEMMA FrameLocal ==
  ASSUME Typed, GatewayTyped', Grows, NEW p \in Process, Local(p),
         mem'[p] = mem[p], pc'[p] = pc[p], session'[p] = session[p],
         work'[p] = work[p], reply'[p] = reply[p]
  PROVE  Local(p)'
<1>1. 1..minted \subseteq 1..minted' /\ minted \in Nat /\ reply[p] \in Seq(Replies)
      /\ 1..minted \subseteq Token
  BY MintedGrows, TypedParts DEF ProcessTyped
<1>2. Sound(mem[p])'
  <2>1. PICK m : m = mem[p]
    OBVIOUS
  <2>2. Sound(m)'
    BY <2>1, SoundStays DEF Local
  <2>3. QED
    BY <2>1, <2>2 DEF Sound
<1>3. Queue(p)'
  <2>1. CASE pc[p] = "asked"
    <3>1. Answered(p, reply[p][1]) /\ work[p].supplied \in (1..minted) \cup {None, Shared}
      BY <2>1 DEF Local, Queue
    <3>2. PICK r : r = reply[p][1]
      OBVIOUS
    <3>3. Answered(p, r)'
      BY <3>1, <3>2, AnsweredStays
    <3>4. Answered(p, reply[p][1])'
      BY <3>2, <3>3 DEF Answered
    <3>5. ~InChat(p) /\ ~InChat(p)'
      BY <2>1 DEF InChat, Saving
    <3>6. QED
      BY <1>1, <2>1, <3>4, <3>5 DEF Local, Queue
  <2>2. CASE InChat(p)
    <3>1. InChat(p)' /\ pc[p] # "asked"
      BY <2>2 DEF InChat, Saving
    <3>2. ASSUME NEW i \in 1..Len(reply[p]) PROVE Rotated(p, reply[p][i])'
      <4>1. Rotated(p, reply[p][i])
        BY <2>2 DEF Local, Queue
      <4>2. PICK r : r = reply[p][i]
        OBVIOUS
      <4>3. Rotated(p, r)'
        BY <4>1, <4>2, RotatedStays
      <4>4. QED
        BY <4>2, <4>3 DEF Rotated
    <3>3. \A i \in 1..Len(reply'[p]) : Rotated(p, reply[p][i])'
      BY <3>2
    <3>4. QED
      BY <1>1, <2>2, <3>1, <3>3 DEF Local, Queue
  <2>3. CASE pc[p] # "asked" /\ ~InChat(p)
    <3>1. ~InChat(p)'
      BY <2>3 DEF InChat
    <3>2. QED
      BY <1>1, <2>3, <3>1 DEF Local, Queue
  <2>4. QED
    BY <2>1, <2>2, <2>3
<1>4. ASSUME InChat(p)' PROVE Recorded(p)' /\ Overtaken(p)'
  <2>1. InChat(p)
    BY <1>4 DEF InChat
  <2>2. session[p].group \in Group /\ Recorded(p) /\ Overtaken(p) /\ Sound(mem[p])
        /\ \A i \in 1..Len(reply[p]) : Rotated(p, reply[p][i])
    BY <2>1 DEF Local, Queue
  <2>3. PICK join : join = mem[p][session[p].group].join
    OBVIOUS
  <2>4. join \in 1..minted
    BY <2>2, <2>3 DEF Recorded, Sound
  <2>5. Recorded(p)'
    BY <2>2, <2>3, <2>4 DEF Recorded, Grows
  <2>6. Overtaken(p)'
    <3>1. SUFFICES ASSUME NEW i \in 1..Len(reply[p]), reply[p][i].kind = "rotated"
                   PROVE  /\ session[p].own => join \notin current'
                          /\ \A j \in 1..(i - 1) : reply[p][j].kind = "rotated" =>
                                reply[p][j].join \notin current'
      BY <2>3 DEF Overtaken
    <3>2. session[p].own => join \notin current'
      BY <2>2, <2>3, <2>4, <3>1 DEF Overtaken, Grows
    <3>3. ASSUME NEW j \in 1..(i - 1), reply[p][j].kind = "rotated"
          PROVE  reply[p][j].join \notin current'
      <4>1. j \in 1..Len(reply[p]) /\ reply[p][j].join \notin current
        BY <1>1, <2>2, <3>1, <3>3 DEF Overtaken
      <4>2. reply[p][j].join \in 1..minted
        BY <2>2, <3>3, <4>1 DEF Rotated
      <4>3. QED
        BY <4>1, <4>2 DEF Grows
    <3>4. QED
      BY <3>2, <3>3
  <2>7. QED
    BY <2>5, <2>6
<1>5. QED
  BY <1>2, <1>3, <1>4 DEF Local

\* A question is under way.
LEMMA AskedLocal ==
  ASSUME Typed, NEW p \in Process, NEW r \in Replies, Local(p), Issues(p, r), Answered(p, r)',
         pc[p] = "lobby", pc'[p] = "asked", work'[p].group \in Group,
         work'[p].supplied \in (1..minted) \cup {None, Shared}, work'[p].fresh = {}
  PROVE  Local(p)'
<1>1. /\ GatewayTyped' /\ Grows /\ reply' = [reply EXCEPT ![p] = Append(@, r)] /\ mem' = mem
      /\ reply \in [Process -> Seq(Replies)]
  BY TypedParts DEF Issues, ProcessTyped
<1>2. reply[p] = <<>>
  BY DEF Local, Queue, InChat, Saving
<1>3. reply'[p] = <<r>>
  BY <1>1, <1>2
<1>4. Len(reply'[p]) = 1 /\ reply'[p][1] = r
  BY <1>3
<1>5. Answered(p, reply[p][1])'
  BY <1>4 DEF Answered
<1>6. Sound(mem[p])'
  <2>1. PICK m : m = mem[p]
    OBVIOUS
  <2>2. Sound(m)'
    BY <1>1, <2>1, SoundStays DEF Local
  <2>3. QED
    BY <1>1, <2>1, <2>2 DEF Sound
<1>7. ~InChat(p)'
  BY DEF InChat, Saving
<1>8. 1..minted \subseteq 1..minted'
  BY <1>1, MintedGrows
<1>9. Queue(p)'
  BY <1>4, <1>5, <1>7, <1>8 DEF Queue
<1>10. QED
  BY <1>6, <1>7, <1>9 DEF Local

\* The answer to a rotation queues behind what is still unread.
LEMMA RotatedLocal ==
  ASSUME Typed, NEW p \in Process, NEW r \in Replies, Local(p), Issues(p, r), Rotated(p, r)',
         pc[p] = "chat", pc' = pc, work' = work,
         r.kind = "rotated" =>
            /\ r.join = minted + 1
            /\ \A t \in current' : about'[t].who = session[p].who => t = minted + 1
  PROVE  Local(p)'
<1>1. /\ GatewayTyped' /\ Grows /\ reply' = [reply EXCEPT ![p] = Append(@, r)] /\ mem' = mem
      /\ session' = session /\ reply \in [Process -> Seq(Replies)]
  BY TypedParts DEF Issues, ProcessTyped
<1>2. 1..minted \subseteq 1..minted' /\ minted \in Nat
  BY <1>1, MintedGrows
<1>3. PICK s : s = reply[p]
  OBVIOUS
<1>4. /\ s \in Seq(Replies) /\ Len(s) \in Nat
      /\ reply'[p] = Append(s, r) /\ Len(reply'[p]) = Len(s) + 1
      /\ \A i \in 1..Len(s) : reply'[p][i] = s[i]
      /\ reply'[p][Len(s) + 1] = r
  BY <1>1, <1>3
<1>5. Sound(mem[p])'
  <2>1. PICK m : m = mem[p]
    OBVIOUS
  <2>2. Sound(m)'
    BY <1>1, <2>1, SoundStays DEF Local
  <2>3. QED
    BY <1>1, <2>1, <2>2 DEF Sound
<1>6. InChat(p) /\ InChat(p)'
  BY DEF InChat
<1>7. /\ session[p].group \in Group /\ session[p].who \in 1..minted
      /\ \A i \in 1..Len(s) : Rotated(p, s[i])
      /\ Recorded(p) /\ Overtaken(p) /\ Sound(mem[p])
      /\ work[p].fresh = {}
  BY <1>3, <1>6 DEF Local, Queue, Saving
<1>8. \A i \in 1..Len(reply'[p]) : Rotated(p, reply[p][i])'
  <2>1. ASSUME NEW i \in 1..Len(s) PROVE Rotated(p, s[i])'
    <3>1. PICK u : u = s[i]
      OBVIOUS
    <3>2. Rotated(p, u)'
      BY <1>1, <1>7, <3>1, RotatedStays
    <3>3. QED
      BY <3>1, <3>2 DEF Rotated
  <2>2. ASSUME NEW i \in 1..Len(reply'[p]) PROVE Rotated(p, reply[p][i])'
    <3>1. CASE i \in 1..Len(s)
      BY <1>4, <2>1, <3>1 DEF Rotated
    <3>2. CASE i = Len(s) + 1
      BY <1>4, <3>2 DEF Rotated
    <3>3. QED
      BY <1>4, <3>1, <3>2
  <2>3. QED
    BY <2>2
<1>9. Queue(p)'
  BY <1>2, <1>6, <1>7, <1>8, <1>1 DEF Queue, Saving
<1>10. PICK join : join = mem[p][session[p].group].join
  OBVIOUS
<1>11. join \in 1..minted /\ (session[p].own => about[join].who = session[p].who)
  BY <1>7, <1>10 DEF Recorded, Sound
<1>12. Recorded(p)'
  BY <1>1, <1>7, <1>10, <1>11 DEF Recorded, Grows
<1>13. Overtaken(p)'
  <2>1. SUFFICES ASSUME NEW i \in 1..(Len(s) + 1), reply'[p][i].kind = "rotated"
                 PROVE  /\ session[p].own => join \notin current'
                        /\ \A j \in 1..(i - 1) : reply'[p][j].kind = "rotated" =>
                              reply'[p][j].join \notin current'
    BY <1>1, <1>4, <1>10 DEF Overtaken
  <2>2. ASSUME NEW t \in 1..minted, about[t].who = session[p].who, r.kind = "rotated"
        PROVE  t \notin current'
    BY <1>1, <1>2, <2>2 DEF Grows
  <2>3. ASSUME NEW t \in 1..minted, t \notin current PROVE t \notin current'
    BY <1>1, <2>3 DEF Grows
  <2>4. session[p].own => join \notin current'
    <3>1. CASE i \in 1..Len(s)
      BY <1>3, <1>4, <1>7, <1>10, <1>11, <2>1, <2>3, <3>1 DEF Overtaken
    <3>2. CASE i = Len(s) + 1
      BY <1>4, <1>11, <2>1, <2>2, <3>2
    <3>3. QED
      BY <1>4, <3>1, <3>2
  <2>5. ASSUME NEW j \in 1..(i - 1), reply'[p][j].kind = "rotated"
        PROVE  reply'[p][j].join \notin current'
    <3>1. j \in 1..Len(s) /\ reply'[p][j] = s[j]
      BY <1>4
    <3>2. s[j].join \in 1..minted /\ about[s[j].join].who = session[p].who
      BY <1>7, <2>5, <3>1 DEF Rotated
    <3>3. CASE i \in 1..Len(s)
      <4>1. s[i].kind = "rotated" /\ s[j].kind = "rotated"
        BY <1>4, <2>1, <2>5, <3>1, <3>3
      <4>2. s[j].join \notin current
        BY <1>3, <1>7, <3>3, <4>1 DEF Overtaken
      <4>3. QED
        BY <2>3, <3>1, <3>2, <4>2
    <3>4. CASE i = Len(s) + 1
      BY <1>4, <2>1, <2>2, <3>1, <3>2, <3>4
    <3>5. QED
      BY <1>4, <3>3, <3>4
  <2>6. QED
    BY <2>4, <2>5
<1>14. QED
  BY <1>5, <1>9, <1>12, <1>13 DEF Local

-----------------------------------------------------------------------------
(* Steps of the processes and of the disk: types and structure *)

\* Types and structure survive a step.
Sane == Typed /\ Structure

\* When the processes in ps move and the others do not.
LEMMA StructureSteps ==
  ASSUME Sane, GatewayTyped', Grows, DiskTyped', ProcessTyped', CountsTyped',
         NEW ps \in SUBSET Process, \A q \in ps : Local(q)',
         \A q \in Process \ ps :
            /\ mem'[q] = mem[q] /\ pc'[q] = pc[q] /\ session'[q] = session[q]
            /\ work'[q] = work[q] /\ reply'[q] = reply[q],
         {file'.records, durable'.records} \subseteq
            {file.records, durable.records} \cup {mem[q] : q \in ps}
  PROVE  Sane'
<1>1. Typed'
  BY TypedParts, PTL
<1>2. Typed /\ Sound(file.records) /\ Sound(durable.records) /\ \A q \in Process : Local(q)
  BY DEF Sane, Structure
<1>3. \A q \in Process : Local(q)'
  <2>1. ASSUME NEW q \in Process \ ps PROVE Local(q)'
    BY <1>2, <2>1, FrameLocal
  <2>2. QED
    BY <2>1
<1>4. ASSUME NEW records \in {file.records, durable.records} \cup {mem[q] : q \in ps}
      PROVE  Sound(records)'
  <2>1. PICK m : m = records
    OBVIOUS
  <2>2. Sound(m)
    BY <1>2, <2>1 DEF Local
  <2>3. Sound(m)'
    BY <1>2, <2>2, SoundStays
  <2>4. QED
    BY <2>1, <2>3 DEF Sound
<1>5. Sound(file.records)' /\ Sound(durable.records)'
  <2>1. PICK f : f = file'.records
    OBVIOUS
  <2>2. PICK d : d = durable'.records
    OBVIOUS
  <2>3. Sound(f)' /\ Sound(d)'
    BY <1>4, <2>1, <2>2
  <2>4. QED
    BY <2>1, <2>2, <2>3 DEF Sound
<1>6. QED
  BY <1>1, <1>3, <1>5 DEF Sane, Structure

\* When only p does.
LEMMA StructureStep ==
  ASSUME Sane, NEW p \in Process, GatewayTyped', Grows, DiskTyped', ProcessTyped', CountsTyped',
         Apart(p), Local(p)', {file'.records, durable'.records} \subseteq
            {file.records, durable.records, mem[p]}
  PROVE  Sane'
<1>1. PICK ps : ps = {p}
  OBVIOUS
<1>2. /\ ps \in SUBSET Process /\ \A q \in ps : Local(q)'
      /\ {file'.records, durable'.records} \subseteq
            {file.records, durable.records} \cup {mem[q] : q \in ps}
  BY <1>1
<1>3. \A q \in Process \ ps :
            /\ mem'[q] = mem[q] /\ pc'[q] = pc[q] /\ session'[q] = session[q]
            /\ work'[q] = work[q] /\ reply'[q] = reply[q]
  BY <1>1 DEF Apart
<1>4. QED
  BY <1>2, <1>3, StructureSteps

\* Steps that do not concern the gateway.
LEMMA Still ==
  ASSUME Typed, UNCHANGED gatewayVars, \A t \in Token : fate[t] # "none" => fate'[t] # "none"
  PROVE  GatewayTyped' /\ Grows /\ Precious' = Precious
<1>1. UNCHANGED <<mode, minted, about, current>> /\ GatewayTyped /\ minted \in Nat
  BY TypedParts DEF gatewayVars, GatewayTyped
<1>2. GatewayTyped'
  BY <1>1 DEF GatewayTyped
<1>3. Grows
  BY <1>1 DEF Grows
<1>4. Precious' = Precious
  BY <1>1 DEF Precious
<1>5. QED
  BY <1>2, <1>3, <1>4

\* A created group answers the process that asked.
LEMMA CreateSane ==
  ASSUME Sane, NEW p \in Process, NEW g \in Group, NEW m \in Mode, CreateGroup(p, g, m)
  PROVE  Sane' /\ Grows
<1>1. Typed /\ Local(p)
  BY DEF Sane, Structure
<1>2. PICK r \in Replies : Issues(p, r) /\ Answered(p, r)'
  BY <1>1, CreateIssues
<1>3. /\ pc[p] = "lobby" /\ pc' = [pc EXCEPT ![p] = "asked"]
      /\ work' = [work EXCEPT ![p] = [Idle EXCEPT !.group = g]]
  BY DEF CreateGroup, Ask
<1>4. [Idle EXCEPT !.group = g] \in Work /\ "asked" \in PC
  BY DEF Idle, Work, None, PC
<1>5. ProcessTyped /\ CountsTyped /\ DiskTyped
  BY <1>1, TypedParts
<1>6. PICK w \in Work : w = [Idle EXCEPT !.group = g]
  BY <1>4
<1>7. w.group = g /\ w.supplied = None /\ w.fresh = {}
  BY <1>6 DEF Idle
<1>8. /\ GatewayTyped' /\ Grows /\ reply' = [reply EXCEPT ![p] = Append(@, r)]
      /\ requests' \in 0..MaxRequests
      /\ UNCHANGED <<diskVars, mem, session, stale, fate, faults>>
  BY <1>2 DEF Issues
<1>9. pc' \in [Process -> PC] /\ work' \in [Process -> Work] /\ reply' \in [Process -> Seq(Replies)]
      /\ pc'[p] = "asked" /\ work'[p] = w
  BY <1>3, <1>4, <1>5, <1>6, <1>8 DEF ProcessTyped
<1>10. ProcessTyped' /\ CountsTyped' /\ DiskTyped'
  BY <1>5, <1>8, <1>9 DEF ProcessTyped, CountsTyped, DiskTyped, diskVars
<1>11. Apart(p)
  BY <1>3, <1>5, <1>8 DEF Apart, ProcessTyped
<1>12. Local(p)'
  BY <1>1, <1>2, <1>3, <1>7, <1>9, AskedLocal
<1>13. QED
  BY <1>8, <1>10, <1>11, <1>12, StructureStep DEF diskVars

\* So does a join.
LEMMA JoinSane ==
  ASSUME Sane, NEW p \in Process, NEW g \in Group, NEW t \in Token \cup {None, Shared},
         JoinGroup(p, g, t)
  PROVE  Sane' /\ Grows
<1>1. Typed /\ Local(p)
  BY DEF Sane, Structure
<1>2. /\ \E r \in Replies : Issues(p, r) /\ Answered(p, r)'
      /\ t \in (1..minted) \cup {None, Shared}
  BY <1>1, JoinIssues
<1>a. PICK r \in Replies : Issues(p, r) /\ Answered(p, r)'
  BY <1>2
<1>3. /\ pc[p] = "lobby" /\ pc' = [pc EXCEPT ![p] = "asked"]
      /\ work' = [work EXCEPT ![p] = [Idle EXCEPT !.group = g, !.supplied = t]]
  BY DEF JoinGroup, Ask
<1>4. [Idle EXCEPT !.group = g, !.supplied = t] \in Work /\ "asked" \in PC
  BY DEF Idle, Work, PC
<1>5. ProcessTyped /\ CountsTyped /\ DiskTyped
  BY <1>1, TypedParts
<1>6. PICK w \in Work : w = [Idle EXCEPT !.group = g, !.supplied = t]
  BY <1>4
<1>7. w.group = g /\ w.supplied = t /\ w.fresh = {}
  BY <1>6 DEF Idle
<1>8. /\ GatewayTyped' /\ Grows /\ reply' = [reply EXCEPT ![p] = Append(@, r)]
      /\ requests' \in 0..MaxRequests
      /\ UNCHANGED <<diskVars, mem, session, stale, fate, faults>>
  BY <1>a DEF Issues
<1>9. pc' \in [Process -> PC] /\ work' \in [Process -> Work] /\ reply' \in [Process -> Seq(Replies)]
      /\ pc'[p] = "asked" /\ work'[p] = w
  BY <1>3, <1>4, <1>5, <1>6, <1>8 DEF ProcessTyped
<1>10. ProcessTyped' /\ CountsTyped' /\ DiskTyped'
  BY <1>5, <1>8, <1>9 DEF ProcessTyped, CountsTyped, DiskTyped, diskVars
<1>11. Apart(p)
  BY <1>3, <1>5, <1>8 DEF Apart, ProcessTyped
<1>12. Local(p)'
  BY <1>1, <1>2, <1>a, <1>3, <1>7, <1>9, AskedLocal
<1>13. QED
  BY <1>8, <1>10, <1>11, <1>12, StructureStep DEF diskVars

\* So does a rotation, in the chat that asked for it.
LEMMA RotateSane ==
  ASSUME Sane, NEW p \in Process, RotateIdentity(p) \/ RotateInvite(p)
  PROVE  Sane' /\ Grows
<1>1. Typed /\ Local(p) /\ minted \in Nat
  BY TypedParts DEF Sane, Structure, GatewayTyped
<1>2. PICK r \in Replies :
         /\ Issues(p, r) /\ Rotated(p, r)'
         /\ r.kind = "rotated" =>
               /\ r.join = minted + 1
               /\ \A t \in current' : about'[t].who = session[p].who => t = minted + 1
  <2>1. CASE RotateIdentity(p)
    BY <1>1, <2>1, RotateIdentityIssues
  <2>2. CASE RotateInvite(p)
    BY <1>1, <2>2, RotateInviteIssues
  <2>3. QED
    BY <2>1, <2>2
<1>3. pc[p] = "chat" /\ UNCHANGED <<pc, work>>
  BY DEF RotateIdentity, RotateInvite, Ask
<1>5. ProcessTyped /\ CountsTyped /\ DiskTyped
  BY <1>1, TypedParts
<1>8. /\ GatewayTyped' /\ Grows /\ reply' = [reply EXCEPT ![p] = Append(@, r)]
      /\ requests' \in 0..MaxRequests
      /\ UNCHANGED <<diskVars, mem, session, stale, fate, faults>>
  BY <1>2 DEF Issues
<1>9. reply' \in [Process -> Seq(Replies)]
  BY <1>5, <1>8 DEF ProcessTyped
<1>10. ProcessTyped' /\ CountsTyped' /\ DiskTyped'
  BY <1>3, <1>5, <1>8, <1>9 DEF ProcessTyped, CountsTyped, DiskTyped, diskVars
<1>11. Apart(p)
  BY <1>3, <1>5, <1>8 DEF Apart, ProcessTyped
<1>12. Local(p)'
  BY <1>1, <1>2, <1>3, RotatedLocal
<1>13. QED
  BY <1>8, <1>10, <1>11, <1>12, StructureStep DEF diskVars

\* The rest of a queue.
LEMMA Rest ==
  ASSUME NEW S, NEW s \in Seq(S), s # <<>>
  PROVE  /\ Len(s) \in Nat \ {0} /\ Head(s) = s[1] /\ s[1] \in S
         /\ Tail(s) \in Seq(S) /\ Len(Tail(s)) = Len(s) - 1
         /\ \A i \in 1..Len(Tail(s)) : Tail(s)[i] = s[i + 1]
         /\ Len(s) = 1 => Tail(s) = <<>>
<1>1. /\ Len(s) \in Nat \ {0} /\ Head(s) = s[1] /\ s[1] \in S
      /\ Tail(s) \in Seq(S) /\ Len(Tail(s)) = Len(s) - 1
      /\ \A i \in 1..Len(Tail(s)) : Tail(s)[i] = s[i + 1]
  OBVIOUS
<1>2. Len(s) = 1 => Tail(s) = <<>>
  <2>1. \A seq \in Seq(S) : (seq # <<>>) => (Len(seq) \in Nat \ {0})
    BY EmptySeq
  <2>2. Tail(s) # <<>> => Len(Tail(s)) \in Nat \ {0}
    BY <1>1, <2>1
  <2>3. QED
    BY <1>1, <2>2
<1>3. QED
  BY <1>1, <1>2

\* An administrator's approval leaves the processes alone.
LEMMA ApproveSane ==
  ASSUME Sane, NEW t \in Token, Approve(t)
  PROVE  Sane' /\ Grows
<1>1. Typed /\ DiskTyped /\ ProcessTyped /\ CountsTyped
  BY TypedParts DEF Sane
<1>2. GatewayTyped' /\ Grows
  BY <1>1, ApproveGrows
<1>3. UNCHANGED <<diskVars, processVars, fate, requests, faults>>
  BY DEF Approve
<1>4. UNCHANGED <<file, durable, mem, pc, session, work, reply, stale, fate, requests, faults>>
  BY <1>3 DEF diskVars, processVars
<1>5. DiskTyped' /\ ProcessTyped' /\ CountsTyped'
  BY <1>1, <1>4 DEF DiskTyped, ProcessTyped, CountsTyped
<1>6. PICK ps : ps = {}
  OBVIOUS
<1>7. ps \in SUBSET Process /\ \A q \in ps : Local(q)'
  BY <1>6
<1>8. {file'.records, durable'.records} \subseteq
            {file.records, durable.records} \cup {mem[q] : q \in ps}
  BY <1>4
<1>9. QED
  BY <1>2, <1>4, <1>5, <1>7, <1>8, StructureSteps

\* Nothing is under way.
LEMMA QuietLocal ==
  ASSUME NEW p \in Process, pc'[p] \in {"off", "lobby"}, reply'[p] = <<>>, work'[p].fresh = {},
         Sound(mem[p])', pc'[p] = "off" => mem'[p] = Empty
  PROVE  Local(p)'
<1>1. ~InChat(p)' /\ pc'[p] # "asked"
  BY DEF InChat, Saving
<1>2. Queue(p)'
  BY <1>1 DEF Queue
<1>3. QED
  BY <1>1, <1>2 DEF Local

\* A copy that was not changed, or is empty, or is the file.
LEMMA CopySound ==
  ASSUME Sane, GatewayTyped', Grows, NEW p \in Process,
         mem'[p] \in {mem[p], Empty, file.records}
  PROVE  Sound(mem[p])'
<1>1. Typed /\ Sound(mem[p]) /\ Sound(file.records) /\ Sound(Empty)
  BY EmptySound DEF Sane, Structure, Local
<1>2. PICK m : m = mem'[p]
  OBVIOUS
<1>3. Sound(m)
  BY <1>1, <1>2
<1>4. Sound(m)'
  BY <1>1, <1>3, SoundStays
<1>5. QED
  BY <1>2, <1>4 DEF Sound

\* Start, Stop, LeaveChat, PrintPending and DropPending: nothing is left under way.
LEMMA QuietSane ==
  ASSUME Sane, NEW p \in Process,
         Start(p) \/ Stop(p) \/ LeaveChat(p) \/ PrintPending(p) \/ DropPending(p)
  PROVE  Sane' /\ Grows
<1>1. /\ Typed /\ DiskTyped /\ ProcessTyped /\ CountsTyped /\ Local(p)
      /\ file.records \in Records /\ Empty \in Records
  BY TypedParts, EmptySound DEF Sane, Structure, DiskTyped
<1>2. Idle \in Work /\ NoSession \in Session /\ Idle.fresh = {} /\ {"off", "lobby"} \subseteq PC
  BY DEF Idle, Work, None, NoSession, Session, PC
<1>3. /\ pc[p] \in {"off", "lobby"} => reply[p] = <<>> /\ work[p].fresh = {}
      /\ pc[p] = "asked" => Len(reply[p]) = 1 /\ work[p].fresh = {}
  BY <1>1 DEF Local, Queue, InChat, Saving
<1>4. PICK v \in {"off", "lobby"} : pc' = [pc EXCEPT ![p] = v]
  BY DEF Start, Stop, LeaveChat, PrintPending, DropPending
<1>5. PICK m \in Records : mem' = [mem EXCEPT ![p] = m] /\ m \in {mem[p], Empty, file.records}
                           /\ (v = "off" => m = Empty)
  <2>1. mem = [mem EXCEPT ![p] = mem[p]] /\ mem[p] \in Records
    BY <1>1 DEF ProcessTyped
  <2>2. CASE Start(p)
    <3>1. v = "lobby"
      BY <1>1, <1>4, <2>2 DEF Start, ProcessTyped
    <3>2. QED
      BY <1>1, <2>2, <3>1 DEF Start
  <2>3. CASE Stop(p) \/ PrintPending(p)
    BY <1>1, <2>3 DEF Stop, PrintPending
  <2>4. CASE LeaveChat(p) \/ DropPending(p)
    <3>1. v = "lobby"
      BY <1>1, <1>4, <2>4 DEF LeaveChat, DropPending, ProcessTyped
    <3>2. mem' = mem
      BY <2>4 DEF LeaveChat, DropPending
    <3>3. QED
      BY <2>1, <3>1, <3>2
  <2>5. QED
    BY <2>2, <2>3, <2>4
<1>6. PICK w \in Work : work' = [work EXCEPT ![p] = w] /\ w.fresh = {}
  <2>1. work = [work EXCEPT ![p] = work[p]] /\ work[p] \in Work
    BY <1>1 DEF ProcessTyped
  <2>2. CASE Start(p) \/ Stop(p)
    BY <1>3, <2>1, <2>2 DEF Start, Stop
  <2>3. CASE LeaveChat(p) \/ PrintPending(p) \/ DropPending(p)
    BY <1>2, <2>3 DEF LeaveChat, PrintPending, DropPending
  <2>4. QED
    BY <2>2, <2>3
<1>7. reply' = [reply EXCEPT ![p] = <<>>]
  <2>1. CASE Start(p) \/ Stop(p)
    BY <1>1, <1>3, <2>1 DEF Start, Stop, ProcessTyped
  <2>2. CASE LeaveChat(p)
    BY <2>2 DEF LeaveChat
  <2>3. CASE PrintPending(p) \/ DropPending(p)
    <3>1. Tail(reply[p]) = <<>>
      <4>1. Len(reply[p]) = 1 /\ reply[p] \in Seq(Replies)
        BY <1>1, <1>3, <2>3 DEF PrintPending, DropPending, ProcessTyped
      <4>2. reply[p] # <<>>
        BY <2>3 DEF PrintPending, DropPending
      <4>3. QED
        BY <4>1, <4>2, Rest
    <3>2. QED
      BY <1>1, <2>3, <3>1 DEF PrintPending, DropPending, ProcessTyped
  <2>4. QED
    BY <2>1, <2>2, <2>3
<1>8. session' \in [Process -> Session] /\ \A q \in Process \ {p} : session'[q] = session[q]
  BY <1>1, <1>2 DEF Start, Stop, LeaveChat, PrintPending, DropPending, ProcessTyped
<1>9. stale' \subseteq Process
  BY <1>1 DEF Start, Stop, LeaveChat, PrintPending, DropPending, ProcessTyped
<1>10. /\ fate' \in [Token -> Fate] /\ \A t \in Token : fate[t] # "none" => fate'[t] # "none"
  <2>1. {"undelivered", "told", "hidden"} \subseteq Fate
    BY DEF Fate
  <2>2. CASE Start(p) \/ Stop(p)
    BY <1>1, <2>2 DEF Start, Stop, CountsTyped
  <2>3. CASE LeaveChat(p)
    BY <1>1, <2>1, <2>3, DoomedFates DEF LeaveChat
  <2>4. CASE PrintPending(p)
    BY <1>1, <2>1, <2>4, DoomedFates DEF PrintPending
  <2>5. CASE DropPending(p)
    BY <1>1, <2>1, <2>5, DoomedFates DEF DropPending
  <2>6. QED
    BY <2>2, <2>3, <2>4, <2>5
<1>11. UNCHANGED <<gatewayVars, diskVars, requests, faults>>
  BY DEF Start, Stop, LeaveChat, PrintPending, DropPending
<1>12. GatewayTyped' /\ Grows
  BY <1>1, <1>10, <1>11, Still
<1>13. UNCHANGED <<file, durable>>
  BY <1>11 DEF diskVars
<1>14. DiskTyped' /\ CountsTyped'
  BY <1>1, <1>10, <1>11, <1>13 DEF DiskTyped, CountsTyped
<1>15. ProcessTyped'
  <2>1. <<>> \in Seq(Replies)
    OBVIOUS
  <2>2. QED
    BY <1>1, <1>2, <1>4, <1>5, <1>6, <1>7, <1>8, <1>9, <2>1 DEF ProcessTyped
<1>16. Apart(p)
  BY <1>1, <1>4, <1>5, <1>6, <1>7, <1>8 DEF Apart, ProcessTyped
<1>17. pc'[p] = v /\ mem'[p] = m /\ work'[p] = w /\ reply'[p] = <<>>
  BY <1>1, <1>4, <1>5, <1>6, <1>7 DEF ProcessTyped
<1>18. Sound(mem[p])'
  BY <1>5, <1>12, <1>17, CopySound
<1>19. Local(p)'
  BY <1>4, <1>5, <1>6, <1>17, <1>18, QuietLocal
<1>20. QED
  BY <1>12, <1>13, <1>14, <1>15, <1>16, <1>19, StructureStep

\* On the way back to the lobby.
LEMMA SavingLocal ==
  ASSUME NEW p \in Process, pc'[p] \in Saving, work'[p].after = "lobby", reply'[p] = <<>>,
         work'[p].fresh \subseteq 1..minted', Sound(mem[p])'
  PROVE  Local(p)'
<1>1. ~InChat(p)' /\ pc'[p] # "asked" /\ pc'[p] # "off"
  BY DEF InChat, Saving
<1>2. Queue(p)'
  BY <1>1 DEF Queue
<1>3. QED
  BY <1>1, <1>2 DEF Local

\* The beginning of a chat.
LEMMA EnterLocal ==
  ASSUME NEW p \in Process, InChat(p)', reply'[p] = <<>>, Sound(mem[p])', Recorded(p)',
         session'[p].group \in Group, session'[p].who \in 1..minted',
         work'[p].fresh \subseteq 1..minted', pc'[p] \notin Saving => work'[p].fresh = {}
  PROVE  Local(p)'
<1>1. pc'[p] # "asked" /\ pc'[p] # "off"
  BY DEF InChat, Saving
<1>2. Len(reply'[p]) = 0
  OBVIOUS
<1>3. Queue(p)' /\ Overtaken(p)'
  BY <1>1, <1>2 DEF Queue, Overtaken
<1>4. QED
  BY <1>3 DEF Local

\* A chat reads its first reply, or loses it.
LEMMA TailLocal ==
  ASSUME Typed, UNCHANGED gatewayVars, NEW p \in Process, Local(p), InChat(p), InChat(p)',
         session'[p] = session[p], reply[p] # <<>>, reply'[p] = Tail(reply[p]),
         Sound(mem[p])', Recorded(p)',
         work'[p].fresh \subseteq 1..minted, pc'[p] \notin Saving => work'[p].fresh = {},
         \/ mem'[p][session[p].group].join = mem[p][session[p].group].join
         \/ /\ reply[p][1].kind = "rotated"
            /\ mem'[p][session[p].group].join = reply[p][1].join
  PROVE  Local(p)'
<1>1. PICK s : s = reply[p]
  OBVIOUS
<1>2. PICK u : u = Tail(s)
  OBVIOUS
<1>3. /\ s \in Seq(Replies) /\ Len(s) \in Nat \ {0} /\ Len(u) = Len(s) - 1
      /\ \A i \in 1..Len(u) : u[i] = s[i + 1]
  <2>1. s \in Seq(Replies) /\ s # <<>>
    BY <1>1, TypedParts DEF ProcessTyped
  <2>2. QED
    BY <1>2, <2>1, Rest
<1>4. reply'[p] = u /\ UNCHANGED <<minted, about, current>> /\ minted \in Nat
  BY <1>1, <1>2, TypedParts DEF gatewayVars, GatewayTyped
<1>5. /\ session[p].group \in Group /\ session[p].who \in 1..minted
      /\ \A i \in 1..Len(s) : Rotated(p, s[i])
      /\ Overtaken(p)
  BY <1>1 DEF Local, Queue
<1>6. \A i \in 1..Len(reply'[p]) : Rotated(p, reply[p][i])'
  <2>1. ASSUME NEW i \in 1..Len(u) PROVE Rotated(p, u[i])'
    <3>1. i + 1 \in 1..Len(s) /\ u[i] = s[i + 1]
      BY <1>3
    <3>2. Rotated(p, u[i])
      BY <1>5, <3>1
    <3>3. QED
      BY <1>4, <3>2 DEF Rotated
  <2>2. QED
    BY <1>4, <2>1 DEF Rotated
<1>7. pc'[p] # "asked" /\ pc'[p] # "off"
  BY DEF InChat, Saving
<1>8. Queue(p)'
  BY <1>4, <1>5, <1>6, <1>7 DEF Queue
<1>9. Overtaken(p)'
  <2>1. SUFFICES ASSUME NEW i \in 1..Len(u), u[i].kind = "rotated"
                 PROVE  /\ session[p].own => mem'[p][session[p].group].join \notin current
                        /\ \A j \in 1..(i - 1) : u[j].kind = "rotated" => u[j].join \notin current
    BY <1>4 DEF Overtaken
  <2>2. i + 1 \in 1..Len(s) /\ s[i + 1].kind = "rotated"
    BY <1>3, <2>1
  <2>3. /\ session[p].own => mem[p][session[p].group].join \notin current
        /\ \A j \in 1..i : s[j].kind = "rotated" => s[j].join \notin current
    BY <1>1, <1>5, <2>2 DEF Overtaken
  <2>4. session[p].own => mem'[p][session[p].group].join \notin current
    <3>1. 1 \in 1..i
      BY <1>3
    <3>2. QED
      BY <1>1, <2>3, <3>1
  <2>5. ASSUME NEW j \in 1..(i - 1), u[j].kind = "rotated" PROVE u[j].join \notin current
    <3>1. j + 1 \in 1..i /\ u[j] = s[j + 1]
      BY <1>3
    <3>2. QED
      BY <2>3, <2>5, <3>1
  <2>6. QED
    BY <2>4, <2>5
<1>10. QED
  BY <1>8, <1>9 DEF Local

\* A reply that never comes.
LEMMA LoseSane ==
  ASSUME Sane, NEW p \in Process, LoseReply(p)
  PROVE  Sane' /\ Grows
<1>1. Typed /\ DiskTyped /\ ProcessTyped /\ CountsTyped /\ Local(p)
  BY TypedParts DEF Sane, Structure
<1>2. /\ reply[p] # <<>> /\ reply' = [reply EXCEPT ![p] = Tail(@)]
      /\ fate' = Doomed(InReply(Head(reply[p])), "undelivered")
      /\ UNCHANGED <<gatewayVars, diskVars, mem, session, work, stale, requests>>
      /\ faults < MaxFaults /\ faults' = faults + 1
  BY DEF LoseReply, Fault
<1>3. PICK v \in PC : pc' = [pc EXCEPT ![p] = v] /\ v = IF pc[p] = "asked" THEN "lobby" ELSE pc[p]
  BY <1>1 DEF LoseReply, ProcessTyped, PC
<1>4. reply[p] \in Seq(Replies) /\ Tail(reply[p]) \in Seq(Replies)
      /\ (Len(reply[p]) = 1 => Tail(reply[p]) = <<>>)
  BY <1>1, <1>2, Rest DEF ProcessTyped
<1>5. /\ fate' \in [Token -> Fate] /\ \A t \in Token : fate[t] # "none" => fate'[t] # "none"
  BY <1>1, <1>2, DoomedFates DEF Fate
<1>6. GatewayTyped' /\ Grows
  BY <1>1, <1>2, <1>5, Still
<1>7. UNCHANGED <<file, durable>>
  BY <1>2 DEF diskVars
<1>8. faults' \in 0..MaxFaults
  BY <1>1, <1>2, ConstantsAssumption DEF CountsTyped
<1>9. DiskTyped' /\ CountsTyped'
  BY <1>1, <1>2, <1>5, <1>7, <1>8 DEF DiskTyped, CountsTyped
<1>10. ProcessTyped'
  BY <1>1, <1>2, <1>3, <1>4 DEF ProcessTyped
<1>11. Apart(p)
  BY <1>1, <1>2, <1>3 DEF Apart, ProcessTyped
<1>12. pc'[p] = v /\ reply'[p] = Tail(reply[p])
  BY <1>1, <1>2, <1>3 DEF ProcessTyped
<1>13. Sound(mem[p])'
  BY <1>2, <1>6, CopySound
<1>14. Local(p)'
  <2>1. CASE pc[p] = "asked"
    <3>1. Len(reply[p]) = 1 /\ work[p].fresh = {} /\ v = "lobby"
      BY <1>1, <1>3, <2>1 DEF Local, Queue, Saving
    <3>2. QED
      BY <1>2, <1>4, <1>12, <1>13, <3>1, QuietLocal
  <2>2. CASE pc[p] # "asked"
    <3>1. InChat(p) /\ v = pc[p]
      BY <1>1, <1>2, <1>3, <2>2 DEF Local, Queue
    <3>2. InChat(p)'
      BY <1>2, <1>12, <3>1 DEF InChat
    <3>3. /\ work[p].fresh \subseteq 1..minted /\ (pc[p] \notin Saving => work[p].fresh = {})
          /\ Recorded(p)
      BY <1>1, <3>1 DEF Local, Queue
    <3>4. Recorded(p)'
      BY <1>2, <3>3 DEF Recorded, gatewayVars
    <3>5. QED
      BY <1>1, <1>2, <1>12, <1>13, <3>1, <3>2, <3>3, <3>4, TailLocal
  <2>3. QED
    BY <2>1, <2>2
<1>15. QED
  BY <1>6, <1>7, <1>9, <1>10, <1>11, <1>14, StructureStep

-----------------------------------------------------------------------------
(* Steps that change a record *)

\* A record that Sound allows for g.
SoundRecord(g, record) ==
    /\ record.join = None => record.invite = None
    /\ record.join # None => record.join \in 1..minted /\ about[record.join].group = g
    /\ record.invite # None => record.invite \in 1..minted /\ about[record.invite].kind = "invite"

\* The step's part in the copy, and what it leaves alone.
LEMMA ChangeEffect ==
  ASSUME Sane, NEW p \in Process, NEW g \in Group, NEW record \in Record, NEW reason \in Fate,
         Change(p, g, record, reason), SoundRecord(g, record), UNCHANGED gatewayVars
  PROVE  /\ mem' \in [Process -> Records] /\ \A q \in Process \ {p} : mem'[q] = mem[q]
         /\ mem'[p] = [mem[p] EXCEPT ![g] = record]
         /\ pc' \in [Process -> PC] /\ \A q \in Process \ {p} : pc'[q] = pc[q]
         /\ pc'[p] = "save"
         /\ fate' \in [Token -> Fate]
         /\ GatewayTyped' /\ Grows /\ Sound(mem[p])'
<1>1. Typed /\ ProcessTyped /\ CountsTyped /\ Sound(mem[p])
  BY TypedParts DEF Sane, Structure, Local
<1>2. PICK m : m = [mem[p] EXCEPT ![g] = record]
  OBVIOUS
<1>3. mem[p] \in Records /\ m \in Records /\ m[g] = record
      /\ \A h \in Group : h # g => m[h] = mem[p][h]
  BY <1>1, <1>2 DEF ProcessTyped, Records
<1>4. mem' = [mem EXCEPT ![p] = m]
  BY <1>2 DEF Change
<1>5. mem' \in [Process -> Records] /\ mem'[p] = m /\ \A q \in Process \ {p} : mem'[q] = mem[q]
  BY <1>1, <1>3, <1>4 DEF ProcessTyped
<1>6. pc' = [pc EXCEPT ![p] = "save"] /\ "save" \in PC
  BY DEF Change, PC
<1>7. /\ fate' \in [Token -> Fate] /\ \A t \in Token : fate[t] # "none" => fate'[t] # "none"
  BY <1>1, DoomedFates DEF Change
<1>8. GatewayTyped' /\ Grows
  BY <1>1, <1>7, Still
<1>9. Sound(m)
  BY <1>1, <1>3 DEF Sound, SoundRecord
<1>10. Sound(m)'
  BY <1>1, <1>8, <1>9, SoundStays
<1>11. Sound(mem[p])'
  BY <1>5, <1>10 DEF Sound
<1>12. QED
  BY <1>1, <1>2, <1>5, <1>6, <1>7, <1>8, <1>11 DEF ProcessTyped

\* Forget and Import: the user's word.
LEMMA UserSane ==
  ASSUME Sane, NEW p \in Process,
         (\E g \in Group : Forget(p, g)) \/ (\E t \in Token : Import(p, t))
  PROVE  Sane' /\ Grows
<1>1. Typed /\ DiskTyped /\ ProcessTyped /\ CountsTyped /\ GatewayTyped /\ Local(p)
  BY TypedParts DEF Sane, Structure
<1>2. /\ pc[p] = "lobby" /\ requests < MaxRequests /\ requests' = requests + 1
      /\ work' = [work EXCEPT ![p] = Idle]
      /\ UNCHANGED <<gatewayVars, diskVars, session, reply, stale, faults>>
  BY DEF Forget, Import, Ask
<1>3. PICK g \in Group, record \in Record :
         Change(p, g, record, "dropped") /\ SoundRecord(g, record)
  <2>1. ASSUME NEW g \in Group, Forget(p, g)
        PROVE  Change(p, g, NoRecord, "dropped") /\ SoundRecord(g, NoRecord) /\ NoRecord \in Record
    BY <2>1 DEF Forget, SoundRecord, NoRecord, Record
  <2>2. ASSUME NEW t \in Token, Import(p, t)
        PROVE  \E g \in Group, record \in Record :
                  Change(p, g, record, "dropped") /\ SoundRecord(g, record)
    <3>1. t \in 1..minted
      BY <1>1, <2>2 DEF Import, Told, Precious, GatewayTyped
    <3>2. about[t] \in About
      BY <1>1, <3>1 DEF GatewayTyped
    <3>3. PICK g \in Group : g = about[t].group
      BY <3>2 DEF About
    <3>4. Change(p, g, [join |-> t, invite |-> None], "dropped")
      BY <2>2, <3>3 DEF Import
    <3>5. SoundRecord(g, [join |-> t, invite |-> None])
      BY <3>1, <3>3 DEF SoundRecord, None
    <3>6. [join |-> t, invite |-> None] \in Record
      BY DEF Record
    <3>7. QED
      BY <3>4, <3>5, <3>6
  <2>3. QED
    BY <2>1, <2>2
<1>4. /\ mem' \in [Process -> Records] /\ \A q \in Process \ {p} : mem'[q] = mem[q]
      /\ pc' \in [Process -> PC] /\ \A q \in Process \ {p} : pc'[q] = pc[q]
      /\ pc'[p] = "save"
      /\ fate' \in [Token -> Fate]
      /\ GatewayTyped' /\ Grows /\ Sound(mem[p])'
  <2>1. "dropped" \in Fate
    BY DEF Fate
  <2>2. QED
    BY <1>2, <1>3, <2>1, ChangeEffect
<1>5. Idle \in Work /\ Idle.after = "lobby" /\ Idle.fresh = {}
  BY DEF Idle, Work, None
<1>6. work'[p] = Idle /\ reply'[p] = <<>>
  BY <1>1, <1>2 DEF ProcessTyped, Local, Queue, InChat, Saving
<1>7. UNCHANGED <<file, durable>>
  BY <1>2 DEF diskVars
<1>8. requests' \in 0..MaxRequests
  BY <1>1, <1>2, ConstantsAssumption DEF CountsTyped
<1>9. DiskTyped' /\ CountsTyped'
  BY <1>1, <1>2, <1>4, <1>7, <1>8 DEF DiskTyped, CountsTyped
<1>10. ProcessTyped'
  BY <1>1, <1>2, <1>4, <1>5 DEF ProcessTyped
<1>11. Apart(p)
  BY <1>1, <1>2, <1>4 DEF Apart, ProcessTyped
<1>12. Local(p)'
  BY <1>4, <1>5, <1>6, SavingLocal DEF Saving
<1>13. QED
  BY <1>4, <1>7, <1>9, <1>10, <1>11, <1>12, StructureStep

\* What a process is to save because of a reply.
SavingWork(g, r, after) == [Idle EXCEPT !.group = g, !.fresh = InReply(r), !.after = after]

\* It is a save of the tokens of that reply.
LEMMA SavingWorkType ==
  ASSUME NEW g \in Group, NEW r \in Replies, NEW after \in {"lobby", "chat"}
  PROVE  /\ SavingWork(g, r, after) \in Work
         /\ SavingWork(g, r, after).fresh = InReply(r) /\ SavingWork(g, r, after).after = after
<1>1. InReply(r) \subseteq Token
  BY DEF InReply, Replies
<1>2. QED
  BY <1>1 DEF SavingWork, Idle, Work, None

\* ReadWelcome: what is saved, and for whom.
LEMMA WelcomeEffect ==
  ASSUME Sane, NEW p \in Process, ReadWelcome(p)
  PROVE  \E r \in Replies, g \in Group, own \in BOOLEAN :
            /\ reply[p] = <<r>> /\ Answered(p, r) /\ r.kind # "pending" /\ g = work[p].group
            /\ session'[p] = [group |-> g, who |-> about[r.join].who, own |-> own]
            /\ own => r.kind # "welcome" \/ mem[p][g].join \in {None, r.join}
            /\ NothingToSave(p, r) => mem[p][g].join # None
            /\ ~NothingToSave(p, r) =>
                  /\ WelcomeRecord(p, r) \in Record /\ SoundRecord(g, WelcomeRecord(p, r))
                  /\ WelcomeRecord(p, r).join = r.join
<1>1. Typed /\ ProcessTyped /\ GatewayTyped /\ Local(p)
  BY TypedParts DEF Sane, Structure
<1>2. pc[p] = "asked" /\ reply[p] # <<>>
  BY DEF ReadWelcome
<1>3. /\ work[p].group \in Group /\ Len(reply[p]) = 1 /\ Answered(p, reply[p][1])
      /\ Sound(mem[p])
  BY <1>1, <1>2 DEF Local, Queue
<1>4. PICK r : r = reply[p][1]
  OBVIOUS
<1>5. PICK g \in Group : g = work[p].group
  BY <1>3
<1>6. reply[p] \in Seq(Replies) /\ r \in Replies /\ Head(reply[p]) = r /\ reply[p] = <<r>>
  <2>1. reply[p] \in Seq(Replies)
    BY <1>1 DEF ProcessTyped
  <2>2. QED
    BY <1>2, <1>3, <1>4, <2>1, Rest
<1>7. Answered(p, r) /\ r.kind # "pending" /\ r.join \in 1..minted /\ about[r.join].group = g
  BY <1>3, <1>4, <1>5, <1>6 DEF ReadWelcome, Answered
<1>8. r.join # None /\ r.join \in Token /\ (r.kind = "welcome" => work[p].supplied = r.join)
  BY <1>6, <1>7, <1>1, ConstantsAssumption DEF None, Answered, Token, GatewayTyped
<1>9. \E own \in BOOLEAN :
         /\ session'[p] = [group |-> g, who |-> about[r.join].who, own |-> own]
         /\ own => r.kind # "welcome" \/ mem[p][g].join \in {None, r.join}
  <2>1. session'[p] = [group |-> g, who |-> about[r.join].who,
                       own |-> r.kind # "welcome" \/ mem[p][g].join \in {None, work[p].supplied}]
    BY <1>1, <1>5, <1>6 DEF ReadWelcome, ProcessTyped
  <2>2. CASE r.kind # "welcome" \/ mem[p][g].join \in {None, work[p].supplied}
    <3>1. session'[p] = [group |-> g, who |-> about[r.join].who, own |-> TRUE]
      BY <2>1, <2>2
    <3>2. r.kind # "welcome" \/ mem[p][g].join \in {None, r.join}
      BY <1>8, <2>2
    <3>3. QED
      BY <3>1, <3>2
  <2>3. CASE ~(r.kind # "welcome" \/ mem[p][g].join \in {None, work[p].supplied})
    <3>1. session'[p] = [group |-> g, who |-> about[r.join].who, own |-> FALSE]
      BY <2>1, <2>3
    <3>2. QED
      BY <3>1
  <2>4. QED
    BY <2>2, <2>3
<1>10. mem[p][g] \in Record
  BY <1>1 DEF ProcessTyped, Records
<1>11. ASSUME NothingToSave(p, r) PROVE mem[p][g].join # None
  <2>1. mem[p][g] # NoRecord
    BY <1>5, <1>8, <1>11 DEF NothingToSave
  <2>2. mem[p][g].join = None => mem[p][g].invite = None
    BY <1>3 DEF Sound
  <2>3. QED
    BY <1>10, <2>1, <2>2 DEF Record, NoRecord
<1>12. ASSUME ~NothingToSave(p, r)
       PROVE  /\ WelcomeRecord(p, r) \in Record /\ SoundRecord(g, WelcomeRecord(p, r))
              /\ WelcomeRecord(p, r).join = r.join
  <2>1. CASE r.kind = "welcome"
    <3>1. WelcomeRecord(p, r) = [join |-> r.join, invite |-> None]
      BY <1>8, <2>1 DEF WelcomeRecord
    <3>2. QED
      BY <1>7, <1>8, <3>1 DEF SoundRecord, Record, None
  <2>2. CASE r.kind = "issued"
    <3>1. WelcomeRecord(p, r) = [join |-> r.join, invite |-> r.invite]
      BY <2>2 DEF WelcomeRecord, NewRecord
    <3>2. r.invite \in Token \cup {None}
      BY <1>6 DEF Replies
    <3>3. r.invite # None => r.invite \in 1..minted /\ about[r.invite].kind = "invite"
      BY <1>7 DEF Answered
    <3>4. PICK record : record = WelcomeRecord(p, r)
      OBVIOUS
    <3>5. record.join = r.join /\ record.invite = r.invite /\ record \in Record
      BY <1>8, <3>1, <3>2, <3>4 DEF Record
    <3>6. QED
      BY <1>7, <1>8, <3>3, <3>4, <3>5 DEF SoundRecord
  <2>3. CASE r.kind = "member"
    <3>1. WelcomeRecord(p, r) = [mem[p][g] EXCEPT !.join = r.join]
      BY <1>5, <2>3 DEF WelcomeRecord, NewRecord
    <3>2. PICK record : record = WelcomeRecord(p, r)
      OBVIOUS
    <3>3. record.join = r.join /\ record.invite = mem[p][g].invite /\ record \in Record
      BY <1>8, <1>10, <3>1, <3>2 DEF Record
    <3>4. mem[p][g].invite # None =>
             mem[p][g].invite \in 1..minted /\ about[mem[p][g].invite].kind = "invite"
      BY <1>3 DEF Sound
    <3>5. QED
      BY <1>7, <1>8, <3>2, <3>3, <3>4 DEF SoundRecord
  <2>4. QED
    BY <1>7, <2>1, <2>2, <2>3 DEF Answered
<1>13. QED
  BY <1>5, <1>6, <1>7, <1>9, <1>11, <1>12

\* A Welcome starts a chat with a record, or a save that ends in one.
LEMMA WelcomeSane ==
  ASSUME Sane, NEW p \in Process, ReadWelcome(p)
  PROVE  Sane' /\ Grows
<1>1. Typed /\ DiskTyped /\ ProcessTyped /\ CountsTyped /\ GatewayTyped /\ Local(p)
  BY TypedParts DEF Sane, Structure
<1>2. PICK r \in Replies, g \in Group, own \in BOOLEAN :
            /\ reply[p] = <<r>> /\ Answered(p, r) /\ r.kind # "pending" /\ g = work[p].group
            /\ session'[p] = [group |-> g, who |-> about[r.join].who, own |-> own]
            /\ own => r.kind # "welcome" \/ mem[p][g].join \in {None, r.join}
            /\ NothingToSave(p, r) => mem[p][g].join # None
            /\ ~NothingToSave(p, r) =>
                  /\ WelcomeRecord(p, r) \in Record /\ SoundRecord(g, WelcomeRecord(p, r))
                  /\ WelcomeRecord(p, r).join = r.join
  BY WelcomeEffect
<1>3. /\ reply' = [reply EXCEPT ![p] = Tail(@)] /\ Head(reply[p]) = r /\ Tail(reply[p]) = <<>>
      /\ UNCHANGED <<gatewayVars, diskVars, stale, requests, faults>>
      /\ \E s : session' = [session EXCEPT ![p] = s]
  <2>1. Head(<<r>>) = r /\ Tail(<<r>>) = <<>>
    OBVIOUS
  <2>2. QED
    BY <1>2, <2>1 DEF ReadWelcome
<1>4. r.join \in 1..minted /\ r.join # None /\ about[r.join].group = g
      /\ about[r.join].who \in 1..minted /\ about[r.join].who \in Token
      /\ InReply(r) \subseteq 1..minted
  <2>1. r.join \in 1..minted /\ about[r.join].group = g /\ minted \in Nat /\ minted <= MaxTokens
        /\ about[r.join].who \in 1..minted
    BY <1>1, <1>2 DEF Answered, GatewayTyped
  <2>2. r.invite # None => r.invite \in 1..minted
    BY <1>2 DEF Answered
  <2>3. QED
    BY <2>1, <2>2, ConstantsAssumption DEF None, Token, InReply
<1>5. /\ mem' \in [Process -> Records] /\ \A q \in Process \ {p} : mem'[q] = mem[q]
      /\ pc' \in [Process -> PC] /\ \A q \in Process \ {p} : pc'[q] = pc[q]
      /\ fate' \in [Token -> Fate]
      /\ GatewayTyped' /\ Grows /\ Sound(mem[p])'
      /\ \/ /\ NothingToSave(p, r) /\ pc'[p] = "chat" /\ mem'[p] = mem[p]
            /\ work' = [work EXCEPT ![p] = Idle]
         \/ /\ ~NothingToSave(p, r) /\ pc'[p] = "save"
            /\ mem'[p] = [mem[p] EXCEPT ![g] = WelcomeRecord(p, r)]
            /\ work' = [work EXCEPT ![p] = SavingWork(g, r, "chat")]
  <2>1. CASE NothingToSave(p, r)
    <3>1. /\ pc' = [pc EXCEPT ![p] = "chat"] /\ "chat" \in PC
          /\ work' = [work EXCEPT ![p] = Idle]
          /\ UNCHANGED <<mem, fate>>
      BY <1>3, <2>1 DEF ReadWelcome, PC
    <3>2. GatewayTyped' /\ Grows
      BY <1>1, <1>3, <3>1, Still
    <3>3. Sound(mem[p])'
      BY <3>1, <3>2, CopySound
    <3>4. QED
      BY <1>1, <2>1, <3>1, <3>2, <3>3 DEF ProcessTyped, CountsTyped
  <2>2. CASE ~NothingToSave(p, r)
    <3>1. PICK record \in Record : record = WelcomeRecord(p, r)
      BY <1>2, <2>2
    <3>2. PICK reason \in Fate :
             reason = CASE work[p].supplied = mem[p][g].join -> "none"
                        [] work[p].supplied = None -> "renewed"
                        [] OTHER -> "dropped"
      BY DEF Fate
    <3>3. Change(p, g, record, reason)
      BY <1>2, <1>3, <2>2, <3>1, <3>2 DEF ReadWelcome
    <3>4. SoundRecord(g, record)
      BY <1>2, <2>2, <3>1
    <3>5. /\ mem' \in [Process -> Records] /\ \A q \in Process \ {p} : mem'[q] = mem[q]
          /\ mem'[p] = [mem[p] EXCEPT ![g] = record]
          /\ pc' \in [Process -> PC] /\ \A q \in Process \ {p} : pc'[q] = pc[q]
          /\ pc'[p] = "save"
          /\ fate' \in [Token -> Fate]
          /\ GatewayTyped' /\ Grows /\ Sound(mem[p])'
      BY <1>3, <3>3, <3>4, ChangeEffect
    <3>6. work' = [work EXCEPT ![p] = SavingWork(g, r, "chat")]
      BY <1>2, <1>3, <2>2 DEF ReadWelcome, SavingWork
    <3>7. QED
      BY <2>2, <3>1, <3>5, <3>6
  <2>3. QED
    BY <2>1, <2>2
<1>6. /\ Idle \in Work /\ Idle.fresh = {} /\ SavingWork(g, r, "chat") \in Work
      /\ SavingWork(g, r, "chat").fresh = InReply(r) /\ SavingWork(g, r, "chat").after = "chat"
  BY SavingWorkType DEF Idle, Work, None
<1>7. session'[p] \in Session
  BY <1>2, <1>4 DEF Session
<1>8. UNCHANGED <<file, durable>>
  BY <1>3 DEF diskVars
<1>9. DiskTyped' /\ CountsTyped'
  BY <1>1, <1>3, <1>5, <1>8 DEF DiskTyped, CountsTyped
<1>10. ProcessTyped'
  <2>1. session' \in [Process -> Session]
    BY <1>1, <1>3, <1>7 DEF ProcessTyped
  <2>2. reply' \in [Process -> Seq(Replies)]
    <3>1. <<>> \in Seq(Replies)
      OBVIOUS
    <3>2. Tail(reply[p]) \in Seq(Replies)
      BY <1>3, <3>1
    <3>3. QED
      BY <1>1, <1>3, <3>2 DEF ProcessTyped
  <2>3. work' \in [Process -> Work]
    BY <1>1, <1>5, <1>6 DEF ProcessTyped
  <2>4. QED
    BY <1>1, <1>3, <1>5, <2>1, <2>2, <2>3 DEF ProcessTyped
<1>11. Apart(p)
  BY <1>1, <1>3, <1>5 DEF Apart, ProcessTyped
<1>12. Local(p)'
  <2>1. reply'[p] = <<>>
    BY <1>1, <1>3 DEF ProcessTyped
  <2>2. InChat(p)' /\ (work'[p].fresh \subseteq 1..minted')
        /\ (pc'[p] \notin Saving => work'[p].fresh = {})
    <3>1. minted' = minted
      BY <1>3 DEF gatewayVars
    <3>2. work'[p] \in {Idle, SavingWork(g, r, "chat")}
          /\ \/ pc'[p] = "chat" /\ work'[p] = Idle
             \/ pc'[p] = "save" /\ work'[p] = SavingWork(g, r, "chat")
      BY <1>1, <1>5 DEF ProcessTyped
    <3>3. QED
      BY <1>4, <1>6, <3>1, <3>2 DEF InChat, Saving
  <2>3. session'[p].group = g /\ session'[p].who = about[r.join].who
        /\ (session'[p].own => r.kind # "welcome" \/ mem[p][g].join \in {None, r.join})
    BY <1>2
  <2>4. about' = about /\ minted' = minted
    BY <1>3 DEF gatewayVars
  <2>5. Recorded(p)'
    <3>1. CASE NothingToSave(p, r)
      <4>1. mem'[p] = mem[p] /\ mem[p][g].join # None /\ r.kind = "welcome"
        BY <1>2, <1>5, <3>1 DEF NothingToSave
      <4>2. about[mem[p][g].join].group = g
        BY <1>1, <4>1 DEF Local, Sound
      <4>3. session'[p].own => mem[p][g].join = r.join
        BY <2>3, <4>1
      <4>4. QED
        BY <2>3, <2>4, <4>1, <4>2, <4>3 DEF Recorded
    <3>2. CASE ~NothingToSave(p, r)
      <4>1. mem'[p][g].join = r.join
        BY <1>1, <1>2, <1>5, <3>2 DEF ProcessTyped, Records
      <4>2. QED
        BY <1>4, <2>3, <2>4, <4>1 DEF Recorded
    <3>3. QED
      BY <3>1, <3>2
  <2>6. QED
    BY <1>4, <1>5, <2>1, <2>2, <2>3, <2>4, <2>5, EnterLocal
<1>13. QED
  BY <1>5, <1>8, <1>9, <1>10, <1>11, <1>12, StructureStep

\* The request token, on the way back to the lobby.
LEMMA PendingSane ==
  ASSUME Sane, NEW p \in Process, ReadPending(p)
  PROVE  Sane' /\ Grows
<1>1. Typed /\ DiskTyped /\ ProcessTyped /\ CountsTyped /\ GatewayTyped /\ Local(p)
  BY TypedParts DEF Sane, Structure
<1>2. pc[p] = "asked" /\ reply[p] # <<>>
  BY DEF ReadPending
<1>3. work[p].group \in Group /\ Len(reply[p]) = 1 /\ Answered(p, reply[p][1])
  BY <1>1, <1>2 DEF Local, Queue
<1>4. PICK r : r = reply[p][1]
  OBVIOUS
<1>5. PICK g \in Group : g = work[p].group
  BY <1>3
<1>6. r \in Replies /\ Head(reply[p]) = r /\ Tail(reply[p]) = <<>>
  <2>1. reply[p] \in Seq(Replies)
    BY <1>1 DEF ProcessTyped
  <2>2. QED
    BY <1>2, <1>3, <1>4, <2>1, Rest
<1>7. r.kind = "pending"
  BY <1>6 DEF ReadPending
<1>8. r.join \in 1..minted /\ about[r.join].group = g /\ r.invite = None
      /\ r.join \in Token /\ r.join # None
  <2>1. r.join \in 1..minted /\ about[r.join].group = g /\ minted \in Nat /\ minted <= MaxTokens
        /\ r.invite = None
    BY <1>1, <1>3, <1>4, <1>5, <1>7 DEF Answered, GatewayTyped
  <2>2. QED
    BY <2>1, ConstantsAssumption DEF Token, None
<1>9. PICK record \in Record : record = [join |-> r.join, invite |-> r.invite]
  BY <1>8 DEF Record
<1>10. SoundRecord(g, [join |-> r.join, invite |-> None])
  BY <1>8 DEF SoundRecord
<1>11. /\ Change(p, g, record, "none") /\ SoundRecord(g, record)
       /\ work' = [work EXCEPT ![p] = [Idle EXCEPT !.fresh = InReply(r)]]
       /\ reply' = [reply EXCEPT ![p] = Tail(@)]
       /\ UNCHANGED <<gatewayVars, diskVars, session, stale, requests, faults>>
  <2>1. NewRecord(NoRecord, r) = [join |-> r.join, invite |-> None]
    BY <1>7 DEF NewRecord
  <2>2. record = [join |-> r.join, invite |-> None]
    BY <1>8, <1>9
  <2>3. QED
    BY <1>5, <1>6, <1>10, <2>1, <2>2 DEF ReadPending
<1>12. /\ mem' \in [Process -> Records] /\ \A q \in Process \ {p} : mem'[q] = mem[q]
       /\ pc' \in [Process -> PC] /\ \A q \in Process \ {p} : pc'[q] = pc[q]
       /\ pc'[p] = "save"
       /\ fate' \in [Token -> Fate]
       /\ GatewayTyped' /\ Grows /\ Sound(mem[p])'
  <2>1. "none" \in Fate
    BY DEF Fate
  <2>2. QED
    BY <1>11, <2>1, ChangeEffect
<1>13. PICK w \in Work : /\ w = [Idle EXCEPT !.fresh = InReply(r)]
                         /\ w.fresh = InReply(r) /\ w.after = "lobby"
  <2>1. InReply(r) \subseteq Token
    BY <1>6 DEF InReply, Replies
  <2>2. PICK w : w = [Idle EXCEPT !.fresh = InReply(r)]
    OBVIOUS
  <2>3. w = [group |-> NoGroup, supplied |-> None, fresh |-> InReply(r), after |-> "lobby"]
    BY <2>2 DEF Idle
  <2>4. w \in Work /\ w.fresh = InReply(r) /\ w.after = "lobby"
    BY <2>1, <2>3 DEF Work, None
  <2>5. QED
    BY <2>2, <2>4
<1>14. work' = [work EXCEPT ![p] = w] /\ work'[p] = w /\ reply'[p] = <<>>
  BY <1>1, <1>6, <1>11, <1>13 DEF ProcessTyped
<1>15. UNCHANGED <<file, durable>>
  BY <1>11 DEF diskVars
<1>16. DiskTyped' /\ CountsTyped'
  BY <1>1, <1>11, <1>12, <1>15 DEF DiskTyped, CountsTyped
<1>17. ProcessTyped'
  <2>1. <<>> \in Seq(Replies)
    OBVIOUS
  <2>2. Tail(reply[p]) \in Seq(Replies)
    BY <1>6, <2>1
  <2>3. reply' \in [Process -> Seq(Replies)]
    BY <1>1, <1>11, <2>2 DEF ProcessTyped
  <2>4. QED
    BY <1>1, <1>11, <1>12, <1>14, <2>3 DEF ProcessTyped
<1>18. Apart(p)
  BY <1>1, <1>11, <1>12 DEF Apart, ProcessTyped
<1>19. w.fresh \subseteq 1..minted'
  BY <1>8, <1>11, <1>13 DEF InReply, gatewayVars
<1>20. Local(p)'
  BY <1>12, <1>13, <1>14, <1>19, SavingLocal DEF Saving
<1>21. QED
  BY <1>12, <1>15, <1>16, <1>17, <1>18, <1>20, StructureStep

\* In a chat, the record that a rotation changes is there.
LEMMA RotatedEffect ==
  ASSUME Sane, NEW p \in Process, ReadRotated(p)
  PROVE  \E r \in Replies, g \in Group :
            /\ reply[p] # <<>> /\ r = reply[p][1] /\ Rotated(p, r) /\ g = session[p].group
            /\ mem[p][g].join # None
            /\ NewRecord(mem[p][g], r) \in Record /\ SoundRecord(g, NewRecord(mem[p][g], r))
            /\ \/ r.kind = "rotated" /\ NewRecord(mem[p][g], r).join = r.join
               \/ r.kind = "invite" /\ NewRecord(mem[p][g], r).join = mem[p][g].join
            /\ Change(p, g, NewRecord(mem[p][g], r), IF session[p].own THEN "none" ELSE "dropped")
            /\ work' = [work EXCEPT ![p] = SavingWork(g, r, "chat")]
            /\ reply' = [reply EXCEPT ![p] = Tail(@)]
            /\ UNCHANGED <<gatewayVars, diskVars, session, stale, requests, faults>>
<1>1. Typed /\ ProcessTyped /\ GatewayTyped /\ Local(p)
  BY TypedParts DEF Sane, Structure
<1>2. pc[p] = "chat" /\ reply[p] # <<>> /\ InChat(p)
  BY DEF ReadRotated, InChat
<1>3. PICK r : r = reply[p][1]
  OBVIOUS
<1>4. r \in Replies /\ Head(reply[p]) = r /\ Len(reply[p]) \in Nat \ {0}
  <2>1. reply[p] \in Seq(Replies)
    BY <1>1 DEF ProcessTyped
  <2>2. QED
    BY <1>2, <1>3, <2>1, Rest
<1>5. /\ session[p].group \in Group /\ Rotated(p, r) /\ Recorded(p) /\ Sound(mem[p])
  <2>1. 1 \in 1..Len(reply[p])
    BY <1>4
  <2>2. QED
    BY <1>1, <1>2, <1>3, <2>1 DEF Local, Queue
<1>6. PICK g \in Group : g = session[p].group
  BY <1>5
<1>7. PICK old : old = mem[p][g]
  OBVIOUS
<1>8. /\ old \in Record /\ old.join # None /\ old # NoRecord
      /\ old.join \in 1..minted /\ about[old.join].group = g
      /\ old.invite # None => old.invite \in 1..minted /\ about[old.invite].kind = "invite"
  BY <1>1, <1>5, <1>6, <1>7 DEF ProcessTyped, Records, Recorded, Sound, NoRecord
<1>9. /\ NewRecord(old, r) \in Record /\ SoundRecord(g, NewRecord(old, r))
      /\ \/ r.kind = "rotated" /\ NewRecord(old, r).join = r.join
         \/ r.kind = "invite" /\ NewRecord(old, r).join = old.join
  <2>1. CASE r.kind = "rotated"
    <3>1. PICK record : record = [old EXCEPT !.join = r.join]
      OBVIOUS
    <3>2. NewRecord(old, r) = record
      BY <2>1, <3>1 DEF NewRecord
    <3>3. r.join \in Token \cup {None} /\ r.join \in 1..minted /\ about[r.join].group = g
      BY <1>4, <1>5, <1>6, <2>1 DEF Replies, Rotated
    <3>4. record \in Record /\ record.join = r.join /\ record.invite = old.invite
      BY <1>8, <3>1, <3>3 DEF Record
    <3>5. r.join # None
      BY <3>3 DEF None
    <3>6. SoundRecord(g, record)
      BY <1>8, <3>3, <3>4, <3>5 DEF SoundRecord
    <3>7. QED
      BY <2>1, <3>2, <3>4, <3>6
  <2>2. CASE r.kind = "invite"
    <3>1. PICK record : record = [old EXCEPT !.invite = r.invite]
      OBVIOUS
    <3>2. NewRecord(old, r) = record
      BY <2>2, <3>1 DEF NewRecord
    <3>3. /\ r.invite \in Token \cup {None} /\ r.invite \in 1..minted
          /\ about[r.invite].kind = "invite"
      BY <1>4, <1>5, <2>2 DEF Replies, Rotated
    <3>4. record \in Record /\ record.invite = r.invite /\ record.join = old.join
      BY <1>8, <3>1, <3>3 DEF Record
    <3>5. SoundRecord(g, record)
      BY <1>8, <3>3, <3>4 DEF SoundRecord
    <3>6. QED
      BY <2>2, <3>2, <3>4, <3>5
  <2>3. QED
    BY <1>5, <2>1, <2>2 DEF Rotated
<1>10. /\ Change(p, g, NewRecord(old, r), IF session[p].own THEN "none" ELSE "dropped")
       /\ work' = [work EXCEPT ![p] = [Idle EXCEPT !.group = g, !.fresh = InReply(r),
                                                   !.after = "chat"]]
       /\ reply' = [reply EXCEPT ![p] = Tail(@)]
       /\ UNCHANGED session
  BY <1>4, <1>6, <1>7, <1>8 DEF ReadRotated
<1>11. UNCHANGED <<gatewayVars, diskVars, stale, requests, faults>>
  BY DEF ReadRotated
<1>12. work' = [work EXCEPT ![p] = SavingWork(g, r, "chat")]
  BY <1>10 DEF SavingWork
<1>13. QED
  BY <1>2, <1>3, <1>4, <1>5, <1>6, <1>7, <1>8, <1>9, <1>10, <1>11, <1>12

\* A rotated token takes the place of the session's own.
LEMMA RotatedSane ==
  ASSUME Sane, NEW p \in Process, ReadRotated(p)
  PROVE  Sane' /\ Grows
<1>1. Typed /\ DiskTyped /\ ProcessTyped /\ CountsTyped /\ GatewayTyped /\ Local(p)
  BY TypedParts DEF Sane, Structure
<1>2. PICK r \in Replies, g \in Group :
            /\ reply[p] # <<>> /\ r = reply[p][1] /\ Rotated(p, r) /\ g = session[p].group
            /\ mem[p][g].join # None
            /\ NewRecord(mem[p][g], r) \in Record /\ SoundRecord(g, NewRecord(mem[p][g], r))
            /\ \/ r.kind = "rotated" /\ NewRecord(mem[p][g], r).join = r.join
               \/ r.kind = "invite" /\ NewRecord(mem[p][g], r).join = mem[p][g].join
            /\ Change(p, g, NewRecord(mem[p][g], r), IF session[p].own THEN "none" ELSE "dropped")
            /\ work' = [work EXCEPT ![p] = SavingWork(g, r, "chat")]
            /\ reply' = [reply EXCEPT ![p] = Tail(@)]
            /\ UNCHANGED <<gatewayVars, diskVars, session, stale, requests, faults>>
  BY RotatedEffect
<1>3. PICK record \in Record : record = NewRecord(mem[p][g], r)
  BY <1>2
<1>4. PICK reason \in Fate : reason = IF session[p].own THEN "none" ELSE "dropped"
  BY DEF Fate
<1>5. /\ mem' \in [Process -> Records] /\ \A q \in Process \ {p} : mem'[q] = mem[q]
      /\ mem'[p] = [mem[p] EXCEPT ![g] = record]
      /\ pc' \in [Process -> PC] /\ \A q \in Process \ {p} : pc'[q] = pc[q]
      /\ pc'[p] = "save"
      /\ fate' \in [Token -> Fate]
      /\ GatewayTyped' /\ Grows /\ Sound(mem[p])'
  <2>1. Change(p, g, record, reason) /\ SoundRecord(g, record) /\ UNCHANGED gatewayVars
    BY <1>2, <1>3, <1>4
  <2>2. QED
    BY <2>1, ChangeEffect
<1>6. PICK w \in Work : w = SavingWork(g, r, "chat") /\ w.fresh = InReply(r) /\ w.after = "chat"
  BY SavingWorkType
<1>7. reply[p] \in Seq(Replies) /\ Tail(reply[p]) \in Seq(Replies)
  BY <1>1, <1>2, Rest DEF ProcessTyped
<1>8. work' = [work EXCEPT ![p] = w] /\ work'[p] = w /\ reply'[p] = Tail(reply[p])
  BY <1>1, <1>2, <1>6 DEF ProcessTyped
<1>9. UNCHANGED <<file, durable, mode, minted, about, current>>
  BY <1>2 DEF diskVars, gatewayVars
<1>10. DiskTyped' /\ CountsTyped'
  BY <1>1, <1>2, <1>5, <1>9 DEF DiskTyped, CountsTyped
<1>11. ProcessTyped'
  BY <1>1, <1>2, <1>5, <1>7, <1>8 DEF ProcessTyped
<1>12. Apart(p)
  BY <1>1, <1>2, <1>5 DEF Apart, ProcessTyped
<1>13. Local(p)'
  <2>1. InChat(p)
    BY DEF ReadRotated, InChat
  <2>2. InChat(p)' /\ pc'[p] \in Saving
    BY <1>5, <1>6, <1>8 DEF InChat, Saving
  <2>3. w.fresh \subseteq 1..minted
    BY <1>2, <1>6 DEF Rotated, InReply
  <2>4. mem'[p][g] = record /\ session'[p] = session[p]
    BY <1>1, <1>2, <1>5 DEF ProcessTyped, Records
  <2>5. Recorded(p)
    BY <1>1, <2>1 DEF Local
  <2>6. Recorded(p)'
    <3>1. CASE r.kind = "rotated"
      <4>1. record.join = r.join /\ r.join \in 1..minted /\ r.join # None
        BY <1>2, <1>3, <3>1 DEF Rotated, None
      <4>2. about[r.join].who = session[p].who /\ about[r.join].group = g
        BY <1>2, <3>1 DEF Rotated
      <4>3. QED
        BY <1>2, <1>9, <2>4, <4>1, <4>2 DEF Recorded
    <3>2. CASE r.kind # "rotated"
      <4>1. record.join = mem[p][g].join
        BY <1>2, <1>3, <3>2
      <4>2. QED
        BY <1>2, <1>9, <2>4, <2>5, <4>1 DEF Recorded
    <3>3. QED
      BY <3>1, <3>2
  <2>7. \/ mem'[p][session[p].group].join = mem[p][session[p].group].join
        \/ /\ reply[p][1].kind = "rotated"
           /\ mem'[p][session[p].group].join = reply[p][1].join
    BY <1>2, <1>3, <2>4
  <2>8. QED
    BY <1>1, <1>2, <1>5, <1>6, <1>8, <2>1, <2>2, <2>3, <2>4, <2>6, <2>7, TailLocal
<1>14. QED
  BY <1>5, <1>9, <1>10, <1>11, <1>12, <1>13, StructureStep

-----------------------------------------------------------------------------
(* Steps of save, and crashes *)

\* The same chat.
LEMMA SameChat ==
  ASSUME Typed, UNCHANGED gatewayVars, NEW p \in Process, Local(p), InChat(p), InChat(p)',
         session'[p] = session[p], reply'[p] = reply[p], mem'[p] = mem[p],
         work'[p].fresh \subseteq work[p].fresh, pc'[p] \notin Saving => work'[p].fresh = {}
  PROVE  Local(p)'
<1>1. UNCHANGED <<minted, about, current>>
  BY DEF gatewayVars
<1>2. pc'[p] # "asked" /\ pc'[p] # "off"
  BY DEF InChat, Saving
<1>3. /\ session[p].group \in Group /\ session[p].who \in 1..minted
      /\ \A i \in 1..Len(reply[p]) : Rotated(p, reply[p][i])
      /\ work[p].fresh \subseteq 1..minted
      /\ Recorded(p) /\ Overtaken(p) /\ Sound(mem[p])
  BY DEF Local, Queue
<1>4. Sound(mem[p])' /\ Recorded(p)' /\ Overtaken(p)'
  <2>1. Sound(mem[p])'
    BY <1>1, <1>3 DEF Sound
  <2>2. Recorded(p)'
    BY <1>1, <1>3 DEF Recorded
  <2>3. Overtaken(p)'
    BY <1>1, <1>3 DEF Overtaken
  <2>4. QED
    BY <2>1, <2>2, <2>3
<1>5. \A i \in 1..Len(reply'[p]) : Rotated(p, reply[p][i])'
  BY <1>1, <1>3 DEF Rotated
<1>6. Queue(p)'
  BY <1>1, <1>2, <1>3, <1>5 DEF Queue
<1>7. QED
  BY <1>4, <1>6 DEF Local

\* The temporary file is written, and renamed.
LEMMA WriteSane ==
  ASSUME Sane, NEW p \in Process, WriteTemporary(p) \/ Rename(p)
  PROVE  Sane' /\ Grows
<1>1. Typed /\ DiskTyped /\ ProcessTyped /\ CountsTyped /\ Local(p) /\ mem[p] \in Records
  BY TypedParts DEF Sane, Structure, ProcessTyped
<1>2. PICK v \in Saving : pc' = [pc EXCEPT ![p] = v]
  BY DEF WriteTemporary, Rename, Step, Saving
<1>3. /\ pc[p] \in Saving
      /\ UNCHANGED <<gatewayVars, durable, mem, session, work, reply, requests, faults>>
      /\ stale' \subseteq Process
  <2>1. CASE WriteTemporary(p)
    BY <1>1, <2>1 DEF WriteTemporary, Step, Saving, diskVars, ProcessTyped
  <2>2. CASE Rename(p)
    BY <1>1, <2>2 DEF Rename, Step, Saving, ProcessTyped
  <2>3. QED
    BY <2>1, <2>2
<1>4. file' = file \/ file' = [records |-> mem[p], data |-> "disk"]
  BY DEF WriteTemporary, Rename, diskVars
<1>5. /\ fate' \in [Token -> Fate] /\ \A t \in Token : fate[t] # "none" => fate'[t] # "none"
  <2>1. CASE fate' = fate
    BY <1>1, <2>1 DEF CountsTyped
  <2>2. CASE fate' = Doomed(OnFile(file) \ OnFile(file'), "overwritten")
    <3>1. PICK lost : lost = OnFile(file) \ OnFile(file')
      OBVIOUS
    <3>2. fate' = Doomed(lost, "overwritten") /\ "overwritten" \in Fate
      BY <2>2, <3>1 DEF Fate
    <3>3. QED
      BY <1>1, <3>2, DoomedFates
  <2>3. QED
    BY <2>1, <2>2 DEF WriteTemporary, Rename
<1>6. GatewayTyped' /\ Grows
  BY <1>1, <1>3, <1>5, Still
<1>7. DiskTyped' /\ CountsTyped'
  BY <1>1, <1>3, <1>4, <1>5 DEF DiskTyped, CountsTyped
<1>8. v \in PC
  BY <1>2 DEF Saving, PC
<1>9. ProcessTyped'
  BY <1>1, <1>2, <1>3, <1>8 DEF ProcessTyped
<1>10. Apart(p)
  BY <1>1, <1>2, <1>3 DEF Apart, ProcessTyped
<1>11. pc'[p] = v
  BY <1>1, <1>2 DEF ProcessTyped
<1>12. Sound(mem[p])'
  BY <1>3, <1>6, CopySound
<1>13. Local(p)'
  <2>1. CASE InChat(p)
    <3>1. InChat(p)'
      BY <1>2, <1>3, <1>11, <2>1 DEF InChat, Saving
    <3>2. QED
      BY <1>1, <1>2, <1>3, <1>11, <2>1, <3>1, SameChat
  <2>2. CASE ~InChat(p)
    <3>1. reply[p] = <<>> /\ work[p].after = "lobby" /\ work[p].fresh \subseteq 1..minted
      <4>1. work[p].after \in {"lobby", "chat"}
        BY <1>1 DEF ProcessTyped, Work
      <4>2. QED
        BY <1>1, <1>3, <2>2, <4>1 DEF Local, Queue, InChat, Saving
    <3>2. work'[p].fresh \subseteq 1..minted'
      BY <1>3, <3>1 DEF gatewayVars
    <3>3. QED
      BY <1>2, <1>3, <1>11, <1>12, <3>1, <3>2, SavingLocal
  <2>3. QED
    BY <2>1, <2>2
<1>14. {file'.records, durable'.records} \subseteq {file.records, durable.records, mem[p]}
  BY <1>3, <1>4
<1>15. QED
  BY <1>6, <1>7, <1>9, <1>10, <1>13, <1>14, StructureStep

\* What follows a save.
LEMMA ReturnEffect ==
  ASSUME Typed, NEW p \in Process, NEW to \in {"off", "lobby", "chat"}, Return(p, to)
  PROVE  /\ mem' \in [Process -> Records] /\ pc' \in [Process -> PC]
         /\ session' \in [Process -> Session] /\ work' \in [Process -> Work]
         /\ stale' \subseteq Process
         /\ \A q \in Process \ {p} :
               /\ mem'[q] = mem[q] /\ pc'[q] = pc[q]
               /\ session'[q] = session[q] /\ work'[q] = work[q]
         /\ pc'[p] = to /\ work'[p].fresh = {}
         /\ mem'[p] = IF to = "off" THEN Empty ELSE mem[p]
         /\ to = "chat" => session'[p] = session[p]
<1>1. ProcessTyped
  BY TypedParts
<1>2. to \in PC /\ Idle \in Work /\ Idle.fresh = {} /\ NoSession \in Session /\ Empty \in Records
  BY EmptySound DEF PC, Idle, Work, None, NoSession, Session
<1>3. pc' \in [Process -> PC] /\ pc'[p] = to /\ \A q \in Process \ {p} : pc'[q] = pc[q]
  BY <1>1, <1>2 DEF Return, ProcessTyped
<1>4. /\ work' \in [Process -> Work] /\ work'[p].fresh = {}
      /\ \A q \in Process \ {p} : work'[q] = work[q]
  BY <1>1, <1>2 DEF Return, ProcessTyped
<1>5. /\ mem' \in [Process -> Records] /\ mem'[p] = (IF to = "off" THEN Empty ELSE mem[p])
      /\ \A q \in Process \ {p} : mem'[q] = mem[q]
  BY <1>1, <1>2 DEF Return, ProcessTyped
<1>6. /\ session' \in [Process -> Session] /\ \A q \in Process \ {p} : session'[q] = session[q]
      /\ to = "chat" => session'[p] = session[p]
  BY <1>1, <1>2 DEF Return, ProcessTyped
<1>7. stale' \subseteq Process
  BY <1>1 DEF Return, ProcessTyped
<1>8. QED
  BY <1>3, <1>4, <1>5, <1>6, <1>7

\* After the last step of save the process goes on where it was.
LEMMA SyncSane ==
  ASSUME Sane, NEW p \in Process, SyncDirectory(p)
  PROVE  Sane' /\ Grows
<1>1. Typed /\ DiskTyped /\ ProcessTyped /\ CountsTyped /\ Local(p)
  BY TypedParts DEF Sane, Structure
<1>2. PICK to \in {"lobby", "chat"} : to = work[p].after
  BY <1>1 DEF ProcessTyped, Work
<1>3. /\ pc[p] = "renamed" /\ durable' = file /\ Return(p, to)
      /\ UNCHANGED <<gatewayVars, file, reply, fate, requests, faults>>
  BY <1>2 DEF SyncDirectory
<1>4. /\ mem' \in [Process -> Records] /\ pc' \in [Process -> PC]
      /\ session' \in [Process -> Session] /\ work' \in [Process -> Work]
      /\ stale' \subseteq Process
      /\ \A q \in Process \ {p} :
               /\ mem'[q] = mem[q] /\ pc'[q] = pc[q]
               /\ session'[q] = session[q] /\ work'[q] = work[q]
      /\ pc'[p] = to /\ work'[p].fresh = {} /\ mem'[p] = mem[p]
      /\ to = "chat" => session'[p] = session[p]
  BY <1>1, <1>3, ReturnEffect
<1>5. GatewayTyped' /\ Grows
  BY <1>1, <1>3, Still
<1>6. DiskTyped' /\ CountsTyped' /\ ProcessTyped'
  BY <1>1, <1>3, <1>4 DEF DiskTyped, CountsTyped, ProcessTyped
<1>7. Apart(p)
  BY <1>3, <1>4 DEF Apart
<1>8. Sound(mem[p])'
  BY <1>4, <1>5, CopySound
<1>9. Local(p)'
  <2>1. CASE to = "chat"
    <3>1. InChat(p) /\ InChat(p)'
      BY <1>2, <1>3, <1>4, <2>1 DEF InChat, Saving
    <3>2. QED
      BY <1>1, <1>3, <1>4, <2>1, <3>1, SameChat
  <2>2. CASE to = "lobby"
    <3>1. reply[p] = <<>>
      BY <1>1, <1>2, <1>3, <2>2 DEF Local, Queue, InChat
    <3>2. QED
      BY <1>3, <1>4, <1>8, <2>2, <3>1, QuietLocal
  <2>3. QED
    BY <2>1, <2>2
<1>10. QED
  BY <1>3, <1>5, <1>6, <1>7, <1>9, StructureStep

\* A failed save leaves no question open.
LEMMA FailSane ==
  ASSUME Sane, NEW p \in Process, NEW to \in {"off", "lobby"}, SaveFails(p, to)
  PROVE  Sane' /\ Grows
<1>1. Typed /\ DiskTyped /\ ProcessTyped /\ CountsTyped
  BY TypedParts DEF Sane
<1>2. /\ pc[p] \in Saving /\ Return(p, to) /\ reply' = [reply EXCEPT ![p] = <<>>]
      /\ faults < MaxFaults /\ faults' = faults + 1
      /\ UNCHANGED <<gatewayVars, diskVars, requests>>
  BY DEF SaveFails, Fault
<1>3. PICK why \in Fate : why = IF work[p].after = "chat" THEN "told" ELSE "hidden"
  BY DEF Fate
<1>4. fate' = [t \in Token |-> IF t \in work[p].fresh
                               THEN Doomed(work[p].fresh, why)[t]
                               ELSE Doomed(InReplies(p), "undelivered")[t]]
  BY <1>3 DEF SaveFails
<1>5. /\ fate' \in [Token -> Fate] /\ \A t \in Token : fate[t] # "none" => fate'[t] # "none"
  <2>1. /\ Doomed(work[p].fresh, why) \in [Token -> Fate]
        /\ \A t \in Token : fate[t] # "none" => Doomed(work[p].fresh, why)[t] = fate[t]
    BY <1>1, DoomedFates
  <2>2. /\ Doomed(InReplies(p), "undelivered") \in [Token -> Fate]
        /\ \A t \in Token : fate[t] # "none" => Doomed(InReplies(p), "undelivered")[t] = fate[t]
    <3>1. "undelivered" \in Fate
      BY DEF Fate
    <3>2. QED
      BY <1>1, <3>1, DoomedFates
  <2>3. QED
    BY <1>4, <2>1, <2>2
<1>6. /\ mem' \in [Process -> Records] /\ pc' \in [Process -> PC]
      /\ session' \in [Process -> Session] /\ work' \in [Process -> Work]
      /\ stale' \subseteq Process
      /\ \A q \in Process \ {p} :
               /\ mem'[q] = mem[q] /\ pc'[q] = pc[q]
               /\ session'[q] = session[q] /\ work'[q] = work[q]
      /\ pc'[p] = to /\ work'[p].fresh = {}
      /\ mem'[p] = IF to = "off" THEN Empty ELSE mem[p]
  BY <1>1, <1>2, ReturnEffect
<1>7. GatewayTyped' /\ Grows
  BY <1>1, <1>2, <1>5, Still
<1>8. faults' \in 0..MaxFaults
  BY <1>1, <1>2, ConstantsAssumption DEF CountsTyped
<1>9. UNCHANGED <<file, durable>>
  BY <1>2 DEF diskVars
<1>10. DiskTyped' /\ CountsTyped'
  BY <1>1, <1>2, <1>5, <1>8, <1>9 DEF DiskTyped, CountsTyped
<1>11. <<>> \in Seq(Replies)
  OBVIOUS
<1>12. reply' \in [Process -> Seq(Replies)] /\ reply'[p] = <<>>
       /\ \A q \in Process \ {p} : reply'[q] = reply[q]
  BY <1>1, <1>2, <1>11 DEF ProcessTyped
<1>13. ProcessTyped'
  BY <1>6, <1>12 DEF ProcessTyped
<1>14. Apart(p)
  BY <1>6, <1>12 DEF Apart
<1>15. Sound(mem[p])'
  BY <1>6, <1>7, CopySound
<1>16. Local(p)'
  BY <1>6, <1>12, <1>15, QuietLocal
<1>17. QED
  BY <1>7, <1>9, <1>10, <1>13, <1>14, <1>16, StructureStep

\* Whatever of the disk survives a halt is a file that was written.
LEMMA HaltSane ==
  ASSUME Sane, NEW ps \in SUBSET Process, Halt(ps),
         file' \in {file, durable}, durable' \in {file, durable}
  PROVE  Sane' /\ Grows
<1>1. Typed /\ DiskTyped /\ ProcessTyped /\ CountsTyped
  BY TypedParts DEF Sane
<1>2. /\ faults < MaxFaults /\ faults' = faults + 1
      /\ pc' = [p \in Process |-> IF p \in ps THEN "off" ELSE pc[p]]
      /\ mem' = [p \in Process |-> IF p \in ps THEN Empty ELSE mem[p]]
      /\ session' = [p \in Process |-> IF p \in ps THEN NoSession ELSE session[p]]
      /\ work' = [p \in Process |-> IF p \in ps THEN Idle ELSE work[p]]
      /\ reply' = [p \in Process |-> IF p \in ps THEN <<>> ELSE reply[p]]
      /\ stale' = stale \ ps /\ UNCHANGED <<gatewayVars, requests>>
  BY DEF Halt, Fault
<1>3. /\ fate' \in [Token -> Fate] /\ \A t \in Token : fate[t] # "none" => fate'[t] # "none"
  <2>1. PICK lost :
           lost = {t \in Token : \E p \in ps : t \in InReplies(p) \cup work[p].fresh}
    OBVIOUS
  <2>2. fate' = Doomed(lost, "undelivered") /\ "undelivered" \in Fate
    BY <2>1 DEF Halt, Fate
  <2>3. QED
    BY <1>1, <2>2, DoomedFates
<1>4. GatewayTyped' /\ Grows
  BY <1>1, <1>2, <1>3, Still
<1>5. faults' \in 0..MaxFaults
  BY <1>1, <1>2, ConstantsAssumption DEF CountsTyped
<1>6. DiskTyped' /\ CountsTyped'
  BY <1>1, <1>2, <1>3, <1>5 DEF DiskTyped, CountsTyped
<1>7. /\ "off" \in PC /\ Idle \in Work /\ Idle.fresh = {} /\ NoSession \in Session
      /\ Empty \in Records
  BY EmptySound DEF PC, Idle, Work, None, NoSession, Session
<1>8. <<>> \in Seq(Replies)
  OBVIOUS
<1>9. ProcessTyped'
  BY <1>1, <1>2, <1>7, <1>8 DEF ProcessTyped
<1>10. ASSUME NEW q \in ps PROVE Local(q)'
  <2>1. q \in Process /\ pc'[q] = "off" /\ mem'[q] = Empty /\ work'[q] = Idle /\ reply'[q] = <<>>
    BY <1>2
  <2>2. Sound(mem[q])'
    BY <1>4, <2>1, CopySound
  <2>3. QED
    BY <1>7, <2>1, <2>2, QuietLocal
<1>11. \A q \in Process \ ps :
            /\ mem'[q] = mem[q] /\ pc'[q] = pc[q] /\ session'[q] = session[q]
            /\ work'[q] = work[q] /\ reply'[q] = reply[q]
  BY <1>2
<1>12. {file'.records, durable'.records} \subseteq
            {file.records, durable.records} \cup {mem[q] : q \in ps}
  OBVIOUS
<1>13. QED
  BY <1>4, <1>6, <1>9, <1>10, <1>11, <1>12, StructureSteps

\* A power failure leaves one of the two files that were written; a killed process
\* changes neither.
LEMMA CrashSane ==
  ASSUME Sane, PowerFailure \/ \E p \in Process : Crash(p)
  PROVE  /\ Sane' /\ Grows
         /\ \E ps \in SUBSET Process :
               /\ Halt(ps)
               /\ \/ ps = Process /\ file' \in {file, durable} /\ durable' = file'
                  \/ UNCHANGED <<file, durable>>
<1>1. CASE PowerFailure
  <2>1. file \in [records : Records, data : {"disk"}]
    BY <1>1, TypedParts DEF Sane, DiskTyped
  <2>2. [file EXCEPT !.data = IF @ = "cache" THEN "torn" ELSE @] = file
    BY <2>1
  <2>3. Halt(Process) /\ file' \in {file, durable} /\ durable' = file'
    BY <1>1, <2>2 DEF PowerFailure
  <2>4. Sane' /\ Grows
    BY <2>3, HaltSane
  <2>5. QED
    BY <2>3, <2>4
<1>2. ASSUME NEW p \in Process, Crash(p)
      PROVE  Sane' /\ Grows /\ Halt({p}) /\ UNCHANGED <<file, durable>>
  <2>1. Halt({p}) /\ UNCHANGED <<file, durable>>
    BY <1>2 DEF Crash, diskVars
  <2>2. QED
    BY <2>1, HaltSane
<1>3. QED
  BY <1>1, <1>2

\* An initial state has both.
LEMMA InitSane == Init => Sane
<1> SUFFICES ASSUME Init PROVE Sane
  OBVIOUS
<1>1. GatewayTyped
  <2>1. about = <<>> /\ <<>> \in Seq(About) /\ Len(<<>>) = 0 /\ minted = 0 /\ current = {}
    BY DEF Init
  <2>2. QED
    BY <2>1, ConstantsAssumption DEF Init, GatewayTyped
<1>2. DiskTyped
  BY EmptySound DEF Init, DiskTyped
<1>3. ProcessTyped
  <2>1. <<>> \in Seq(Replies)
    OBVIOUS
  <2>2. QED
    BY <2>1, EmptySound
    DEF Init, ProcessTyped, PC, Idle, Work, None, NoSession, Session
<1>4. CountsTyped
  BY ConstantsAssumption DEF Init, CountsTyped, Fate
<1>5. \A p \in Process : Local(p)
  BY EmptySound DEF Init, Local, Queue, InChat, Saving, Idle
<1>6. QED
  BY <1>1, <1>2, <1>3, <1>4, <1>5, EmptySound, TypedParts DEF Init, Sane, Structure

\* Every step keeps it.
LEMMA SaneStep == Sane /\ [Next]_vars => Sane' /\ Grows
<1> SUFFICES ASSUME Sane, [Next]_vars PROVE Sane' /\ Grows
  OBVIOUS
<1>1. ASSUME NEW p \in Process, NEW g \in Group, NEW m \in Mode, CreateGroup(p, g, m)
      PROVE  Sane' /\ Grows
  BY <1>1, CreateSane
<1>2. ASSUME NEW p \in Process, NEW g \in Group, NEW t \in Token \cup {None, Shared},
             JoinGroup(p, g, t)
      PROVE  Sane' /\ Grows
  BY <1>2, JoinSane
<1>3. ASSUME NEW p \in Process,
             (\E g \in Group : Forget(p, g)) \/ (\E t \in Token : Import(p, t))
      PROVE  Sane' /\ Grows
  BY <1>3, UserSane
<1>4. ASSUME NEW p \in Process,
             \/ Start(p) \/ Stop(p) \/ LeaveChat(p) \/ LoseReply(p)
             \/ ReadWelcome(p) \/ ReadPending(p) \/ PrintPending(p) \/ DropPending(p)
             \/ ReadRotated(p) \/ RotateIdentity(p) \/ RotateInvite(p)
             \/ WriteTemporary(p) \/ Rename(p) \/ SyncDirectory(p)
             \/ SaveFails(p, "off") \/ SaveFails(p, "lobby")
      PROVE  Sane' /\ Grows
  BY <1>4, QuietSane, LoseSane, WelcomeSane, PendingSane, RotatedSane, RotateSane,
     WriteSane, SyncSane, FailSane
<1>5. ASSUME PowerFailure \/ \E p \in Process : Crash(p) PROVE Sane' /\ Grows
  BY <1>5, CrashSane
<1>6. ASSUME NEW t \in Token, Approve(t) PROVE Sane' /\ Grows
  BY <1>6, ApproveSane
<1>7. CASE UNCHANGED vars
  <2>1. Typed /\ DiskTyped /\ ProcessTyped /\ CountsTyped
    BY TypedParts DEF Sane
  <2>2. UNCHANGED <<gatewayVars, file, durable, mem, pc, session, work, reply, stale, fate,
                    requests, faults>>
    BY <1>7 DEF vars, diskVars, processVars
  <2>3. GatewayTyped' /\ Grows
    BY <2>1, <2>2, Still
  <2>4. DiskTyped' /\ ProcessTyped' /\ CountsTyped'
    BY <2>1, <2>2 DEF DiskTyped, ProcessTyped, CountsTyped
  <2>5. PICK ps : ps = {}
    OBVIOUS
  <2>6. ps \in SUBSET Process /\ \A q \in ps : Local(q)'
    BY <2>5
  <2>7. {file'.records, durable'.records} \subseteq
            {file.records, durable.records} \cup {mem[q] : q \in ps}
    BY <2>2
  <2>8. QED
    BY <2>2, <2>3, <2>4, <2>6, <2>7, StructureSteps
<1>8. QED
  BY <1>1, <1>2, <1>3, <1>4, <1>5, <1>6, <1>7 DEF Next

-----------------------------------------------------------------------------
(* The file is whole, and a chat has its record *)

\* Types and structure hold throughout.
LEMMA SaneAlways == Spec => []Sane
<1>1. Sane /\ [Next]_vars => Sane'
  BY SaneStep
<1>2. QED
  BY <1>1, InitSane, PTL DEF Spec

(***************************************************************************)
(* save writes a temporary file, syncs it and renames it: whatever crash,  *)
(* power failure or error comes between two of these steps, and whatever   *)
(* the other processes do, credentials.json parses.                        *)
(***************************************************************************)
THEOREM FileIsWholeCorrect == Spec => []FileIsWhole
<1>1. Sane => FileIsWhole
  <2>1. SUFFICES ASSUME Sane PROVE FileIsWhole
    OBVIOUS
  <2>2. Typed /\ TypeOK /\ DiskTyped
    BY <2>1, TypedParts DEF Sane, Typed
  <2>3. file.data = "disk" /\ durable.data = "disk"
    BY <2>2 DEF DiskTyped
  <2>4. QED
    BY <2>2, <2>3 DEF FileIsWhole
<1>2. QED
  BY <1>1, SaneAlways, PTL

(***************************************************************************)
(* persist_rotated_token refuses a token for a group without a record, and *)
(* run_chat would drop it with the connection: in a chat the record is     *)
(* there, and it is that of the session's identity unless the user came    *)
(* with another token.                                                     *)
(***************************************************************************)
THEOREM RecordInChatCorrect == Spec => []RecordInChat
<1>1. Sane => RecordInChat
  BY DEF Sane, Structure, Local, InChat, Recorded, RecordInChat
<1>2. QED
  BY <1>1, SaneAlways, PTL

-----------------------------------------------------------------------------
(* Tokens are kept *)

Retained == Owed /\ Copies /\ Synced /\ UpToDate /\ Arrives

\* The token of an identity is nowhere in a record but in its join slot.
LEMMA OnlyJoin ==
  ASSUME Sane, NEW records, Sound(records), NEW g \in Group, NEW t \in Precious,
         t \in TokensOf(records[g])
  PROVE  SavedIn(records, t) /\ about[t].group = g
<1>1. t \in 1..minted /\ about[t].kind # "invite" /\ t # None /\ minted \in Nat
  BY TypedParts DEF Sane, GatewayTyped, Precious, None
<1>2. t = records[g].join
  BY <1>1 DEF TokensOf, Sound
<1>3. about[t].group = g
  BY <1>1, <1>2 DEF Sound
<1>4. QED
  BY <1>2, <1>3 DEF SavedIn

\* A token of an identity has been issued, for a group, and is no invite token.
LEMMA PreciousToken ==
  ASSUME Sane
  PROVE  /\ Precious \subseteq 1..minted /\ Precious \subseteq Token /\ None \notin Precious
         /\ \A t \in Precious : about[t].group \in Group /\ about[t].kind # "invite"
<1>1. GatewayTyped /\ MaxTokens \in Nat
  BY TypedParts, ConstantsAssumption DEF Sane
<1>2. ASSUME NEW t \in Precious
      PROVE  /\ t \in 1..minted /\ t \in Token /\ t # None
             /\ about[t].group \in Group /\ about[t].kind # "invite"
  <2>1. t \in 1..minted /\ about[t].kind # "invite"
    BY <1>1 DEF GatewayTyped, Precious
  <2>2. about[t] \in About
    BY <1>1, <2>1 DEF GatewayTyped
  <2>3. QED
    BY <1>1, <2>1, <2>2 DEF GatewayTyped, About, Token, None
<1>3. QED
  BY <1>2

\* A changed record: a token leaves the copy with a reason, or without one as
\* the token that the new one replaces.
LEMMA ChangeKeeps ==
  ASSUME Sane, NEW p \in Process, NEW g \in Group, NEW record \in Record, NEW reason \in Fate,
         Change(p, g, record, reason), SoundRecord(g, record), NEW t \in Precious
  PROVE  /\ SavedIn(mem'[p], t) <=>
               \/ about[t].group # g /\ SavedIn(mem[p], t)
               \/ about[t].group = g /\ t = record.join
         /\ SavedIn(mem[p], t) =>
               \/ SavedIn(mem'[p], t)
               \/ fate'[t] # "none"
               \/ reason = "none" /\ about[t].group = g /\ t = mem[p][g].join /\ t # record.join
<1>1. Typed /\ ProcessTyped /\ about[t].group \in Group /\ t # None /\ about[t].kind # "invite"
  BY TypedParts, PreciousToken DEF Sane
<1>2. mem'[p] = [mem[p] EXCEPT ![g] = record] /\ mem[p] \in Records
  BY <1>1 DEF Change, ProcessTyped
<1>3. mem'[p][g] = record /\ \A h \in Group \ {g} : mem'[p][h] = mem[p][h]
  BY <1>2 DEF Records
<1>4. SavedIn(mem'[p], t) <=>
               \/ about[t].group # g /\ SavedIn(mem[p], t)
               \/ about[t].group = g /\ t = record.join
  BY <1>1, <1>3 DEF SavedIn
<1>5. ASSUME SavedIn(mem[p], t), about[t].group = g, t # record.join, reason # "none"
      PROVE  fate'[t] # "none"
  <2>1. PICK lost : lost = TokensOf(mem[p][g]) \ TokensOf(record)
    OBVIOUS
  <2>2. fate' = Doomed(lost, reason)
    BY <2>1 DEF Change
  <2>3. t # record.invite
    BY <1>1 DEF SoundRecord
  <2>4. t \in lost
    BY <1>1, <1>5, <2>1, <2>3 DEF SavedIn, TokensOf
  <2>5. \A u \in lost \cap Precious : Doomed(lost, reason)[u] # "none"
    BY <1>1, <1>5, DoomedFates
  <2>6. QED
    BY <2>2, <2>4, <2>5
<1>6. SavedIn(mem[p], t) /\ about[t].group = g => t = mem[p][g].join
  BY DEF SavedIn
<1>7. QED
  BY <1>4, <1>5, <1>6

\* A step of p that leaves the disk alone, drops no token without a reason and
\* takes none into the copy that is not kept.
Calm(p) ==
    /\ UNCHANGED <<gatewayVars, diskVars>> /\ Apart(p) /\ stale \ {p} \subseteq stale'
    /\ \A t \in Precious :
          /\ t \in work[p].fresh => t \in work'[p].fresh \/ fate'[t] # "none"
          /\ \A i \in 1..Len(reply[p]) :
                reply[p][i].kind # "welcome" /\ t \in InReply(reply[p][i]) =>
                   \/ \E j \in 1..Len(reply'[p]) :
                         reply'[p][j].kind # "welcome" /\ t \in InReply(reply'[p][j])
                   \/ t \in work'[p].fresh
                   \/ fate'[t] # "none"
          /\ SavedIn(mem'[p], t) =>
                \/ SavedIn(mem[p], t)
                \/ SavedIn(file.records, t)
                \/ t \in work'[p].fresh
                \/ fate'[t] # "none"
          /\ pc'[p] # "off" /\ p \notin stale' =>
                \/ mem'[p] = file.records
                \/ /\ pc[p] # "off" /\ p \notin stale
                   /\ SavedIn(mem[p], t) => SavedIn(mem'[p], t) \/ fate'[t] # "none"
          /\ t \in work'[p].fresh =>
                /\ pc'[p] \in {"save", "synced"} => SavedIn(mem'[p], t)
                /\ pc'[p] = "renamed" => SavedIn(file.records, t) \/ fate'[t] # "none"

\* Such a step loses nothing.
LEMMA CalmRetains ==
  ASSUME Sane, Retained, Grows, NEW p \in Process, Calm(p)
  PROVE  Retained'
<1>1. /\ UNCHANGED <<minted, about, current, file, durable>> /\ Precious' = Precious
      /\ Precious \subseteq Token
  BY PreciousToken DEF Calm, gatewayVars, diskVars, Precious
<1>2. \A t \in Precious : fate[t] # "none" => fate'[t] # "none"
  BY <1>1 DEF Grows
<1>3. \A q \in Process : q # p =>
         /\ mem'[q] = mem[q] /\ pc'[q] = pc[q] /\ work'[q] = work[q] /\ reply'[q] = reply[q]
         /\ (q \notin stale' => q \notin stale)
  BY DEF Calm, Apart
<1>4. ASSUME NEW t \in Precious, \E q \in Process : t \in work[q].fresh
      PROVE  (\E q \in Process : t \in work'[q].fresh) \/ fate'[t] # "none"
  BY <1>3, <1>4 DEF Calm
<1>5. ASSUME NEW t \in Precious, Kept(t) PROVE Kept(t)'
  BY <1>1, <1>2, <1>4, <1>5 DEF Kept, SavedIn
<1>6. Owed'
  <2>1. SUFFICES ASSUME NEW t \in Precious, ~Kept(t)'
                 PROVE  \E q \in Process : \E i \in 1..Len(reply'[q]) :
                           reply'[q][i].kind # "welcome" /\ t \in InReply(reply'[q][i])
    BY <1>1 DEF Owed, InReply
  <2>a. PICK q \in Process :
           \E i \in 1..Len(reply[q]) : reply[q][i].kind # "welcome" /\ t \in InReply(reply[q][i])
    BY <1>5, <2>1 DEF Retained, Owed
  <2>2. PICK i \in 1..Len(reply[q]) : reply[q][i].kind # "welcome" /\ t \in InReply(reply[q][i])
    BY <2>a
  <2>3. CASE q = p
    BY <2>1, <2>2, <2>3 DEF Calm, Kept
  <2>4. CASE q # p
    BY <1>3, <2>2, <2>4
  <2>5. QED
    BY <2>3, <2>4
<1>7. Copies'
  <2>1. SUFFICES ASSUME NEW q \in Process, NEW t \in Precious, SavedIn(mem'[q], t)
                 PROVE  Kept(t)'
    BY <1>1 DEF Copies, SavedIn
  <2>2. CASE SavedIn(mem[q], t)
    BY <1>5, <2>2 DEF Retained, Copies
  <2>3. CASE ~SavedIn(mem[q], t)
    <3>1. q = p
      BY <1>3, <2>1, <2>3
    <3>2. SavedIn(file.records, t) \/ t \in work'[p].fresh \/ fate'[t] # "none"
      BY <2>1, <2>3, <3>1 DEF Calm
    <3>3. QED
      BY <1>1, <3>2 DEF Kept, SavedIn
  <2>4. QED
    BY <2>2, <2>3
<1>8. Synced'
  <2>1. SUFFICES ASSUME NEW t \in Precious, SavedIn(file.records, t)
                 PROVE  \/ SavedIn(durable.records, t)
                        \/ \E q \in Process : t \in work'[q].fresh
                        \/ fate'[t] # "none"
    BY <1>1 DEF Synced, SavedIn
  <2>2. QED
    BY <1>2, <1>4, <2>1 DEF Retained, Synced
<1>9. UpToDate'
  <2>1. SUFFICES ASSUME NEW q \in Process, pc'[q] # "off", q \notin stale',
                        NEW t \in Precious, SavedIn(file.records, t)
                 PROVE  SavedIn(mem'[q], t) \/ fate'[t] # "none"
    BY <1>1 DEF UpToDate, SavedIn
  <2>2. CASE q = p
    <3>1. CASE mem'[p] = file.records
      BY <2>1, <2>2, <3>1
    <3>2. CASE mem'[p] # file.records
      <4>1. /\ pc[p] # "off" /\ p \notin stale
            /\ SavedIn(mem[p], t) => SavedIn(mem'[p], t) \/ fate'[t] # "none"
        BY <2>1, <2>2, <3>2 DEF Calm
      <4>2. SavedIn(mem[p], t) \/ fate[t] # "none"
        BY <2>1, <4>1 DEF Retained, UpToDate
      <4>3. QED
        BY <1>2, <2>2, <4>1, <4>2
    <3>3. QED
      BY <3>1, <3>2
  <2>3. CASE q # p
    <3>1. pc[q] # "off" /\ q \notin stale /\ mem'[q] = mem[q]
      BY <1>3, <2>1, <2>3
    <3>2. QED
      BY <1>2, <2>1, <3>1 DEF Retained, UpToDate
  <2>4. QED
    BY <2>2, <2>3
<1>10. Arrives'
  <2>1. SUFFICES ASSUME NEW q \in Process, NEW t \in Precious, t \in work'[q].fresh
                 PROVE  /\ pc'[q] \in {"save", "synced"} => SavedIn(mem'[q], t)
                        /\ pc'[q] = "renamed" => SavedIn(file.records, t) \/ fate'[t] # "none"
    BY <1>1 DEF Arrives, SavedIn
  <2>2. CASE q = p
    BY <2>1, <2>2 DEF Calm
  <2>3. CASE q # p
    <3>1. mem'[q] = mem[q] /\ pc'[q] = pc[q] /\ t \in work[q].fresh
      BY <1>3, <2>1, <2>3
    <3>2. QED
      BY <1>2, <2>1, <3>1 DEF Retained, Arrives
  <2>4. QED
    BY <2>2, <2>3
<1>11. QED
  BY <1>6, <1>7, <1>8, <1>9, <1>10 DEF Retained

\* Nothing is under way after the step: what was has a reason, or stays queued.
LEMMA QuietCalm ==
  ASSUME Sane, NEW p \in Process, UNCHANGED <<gatewayVars, diskVars>>, Apart(p),
         stale' \in {stale, stale \ {p}}, work'[p].fresh = {},
         \/ pc'[p] = "off" /\ mem'[p] = Empty
         \/ mem'[p] = file.records
         \/ mem'[p] = mem[p] /\ pc[p] # "off" /\ stale' = stale,
         \A t \in Precious : t \in work[p].fresh => fate'[t] # "none",
         \A t \in Precious : \A i \in 1..Len(reply[p]) :
            reply[p][i].kind # "welcome" /\ t \in InReply(reply[p][i]) =>
               \/ \E j \in 1..Len(reply'[p]) :
                     reply'[p][j].kind # "welcome" /\ t \in InReply(reply'[p][j])
               \/ fate'[t] # "none"
  PROVE  Calm(p)
<1>1. stale \ {p} \subseteq stale'
  OBVIOUS
<1>2. ASSUME NEW t \in Precious, SavedIn(mem'[p], t)
      PROVE  SavedIn(mem[p], t) \/ SavedIn(file.records, t)
  <2>1. about[t].group \in Group /\ t # None
    BY PreciousToken
  <2>2. mem'[p] # Empty
    BY <1>2, <2>1 DEF SavedIn, Empty, NoRecord
  <2>3. QED
    BY <1>2, <2>2
<1>3. pc'[p] # "off" /\ p \notin stale' =>
         mem'[p] = file.records \/ (mem'[p] = mem[p] /\ pc[p] # "off" /\ p \notin stale)
  OBVIOUS
<1>4. QED
  BY <1>1, <1>2, <1>3 DEF Calm

\* Everything that p has yet to read.
LEMMA Unread ==
  ASSUME Sane, NEW p \in Process, NEW i \in 1..Len(reply[p])
  PROVE  InReply(reply[p][i]) \subseteq InReplies(p)
<1>1. DOMAIN reply[p] = 1..Len(reply[p])
  BY TypedParts DEF Sane, ProcessTyped
<1>2. QED
  BY <1>1 DEF InReplies

\* Outside save nothing is on its way to the file.
LEMMA NoneFresh ==
  ASSUME Sane, NEW p \in Process, pc[p] \notin Saving
  PROVE  work[p].fresh = {}
BY DEF Sane, Structure, Local, Queue

\* The one answer that a choice of a group has.
LEMMA OneAnswer ==
  ASSUME Sane, NEW p \in Process, pc[p] = "asked"
  PROVE  \E r \in Replies :
            /\ reply[p] # <<>> /\ Len(reply[p]) = 1 /\ reply[p][1] = r /\ Head(reply[p]) = r
            /\ Answered(p, r) /\ \A i \in 1..Len(reply[p]) : reply[p][i] = r
<1>1. reply[p] \in Seq(Replies)
  BY TypedParts DEF Sane, ProcessTyped
<1>2. Len(reply[p]) = 1 /\ Answered(p, reply[p][1])
  BY DEF Sane, Structure, Local, Queue
<1>3. reply[p] # <<>>
  BY <1>2
<1>4. Head(reply[p]) = reply[p][1] /\ reply[p][1] \in Replies
  BY <1>1, <1>3, Rest
<1>5. QED
  BY <1>2, <1>3, <1>4

\* A process that starts has what the file has.
LEMMA StartCalm ==
  ASSUME Sane, NEW p \in Process, Start(p)
  PROVE  Calm(p)
<1>1. /\ pc[p] = "off" /\ pc' = [pc EXCEPT ![p] = "lobby"]
      /\ mem' = [mem EXCEPT ![p] = file.records]
      /\ UNCHANGED <<gatewayVars, diskVars, session, work, reply, stale, fate, requests, faults>>
  BY DEF Start
<1>2. ProcessTyped
  BY TypedParts DEF Sane
<1>3. Apart(p) /\ mem'[p] = file.records
  BY <1>1, <1>2 DEF Apart, ProcessTyped
<1>4. work[p].fresh = {} /\ work'[p].fresh = {}
  BY <1>1, NoneFresh DEF Saving
<1>5. QED
  BY <1>1, <1>3, <1>4, QuietCalm

\* One that stops in the lobby has nothing to lose.
LEMMA StopCalm ==
  ASSUME Sane, NEW p \in Process, Stop(p)
  PROVE  Calm(p)
<1>1. /\ pc[p] = "lobby" /\ pc' = [pc EXCEPT ![p] = "off"]
      /\ mem' = [mem EXCEPT ![p] = Empty] /\ stale' = stale \ {p}
      /\ UNCHANGED <<gatewayVars, diskVars, session, work, reply, fate, requests, faults>>
  BY DEF Stop
<1>2. ProcessTyped
  BY TypedParts DEF Sane
<1>3. Apart(p) /\ mem'[p] = Empty /\ pc'[p] = "off"
  BY <1>1, <1>2 DEF Apart, ProcessTyped
<1>4. work[p].fresh = {} /\ work'[p].fresh = {}
  BY <1>1, NoneFresh DEF Saving
<1>5. QED
  BY <1>1, <1>3, <1>4, QuietCalm

\* What a chat leaves unread has a reason.
LEMMA LeaveCalm ==
  ASSUME Sane, NEW p \in Process, LeaveChat(p)
  PROVE  Calm(p)
<1>1. /\ pc[p] = "chat" /\ pc' = [pc EXCEPT ![p] = "lobby"]
      /\ session' = [session EXCEPT ![p] = NoSession] /\ work' = [work EXCEPT ![p] = Idle]
      /\ fate' = Doomed(InReplies(p), "undelivered") /\ reply' = [reply EXCEPT ![p] = <<>>]
      /\ UNCHANGED <<gatewayVars, diskVars, mem, stale, requests, faults>>
  BY DEF LeaveChat
<1>2. ProcessTyped /\ Typed
  BY TypedParts DEF Sane
<1>3. Apart(p) /\ mem'[p] = mem[p] /\ work'[p] = Idle /\ Idle.fresh = {}
  BY <1>1, <1>2 DEF Apart, ProcessTyped, Idle
<1>4. work[p].fresh = {}
  BY <1>1, NoneFresh DEF Saving
<1>5. \A t \in InReplies(p) \cap Precious : fate'[t] # "none"
  <2>1. "undelivered" \in Fate
    BY DEF Fate
  <2>2. QED
    BY <1>1, <1>2, <2>1, DoomedFates
<1>6. ASSUME NEW t \in Precious, NEW i \in 1..Len(reply[p]), t \in InReply(reply[p][i])
      PROVE  fate'[t] # "none"
  BY <1>5, <1>6, Unread
<1>7. QED
  BY <1>1, <1>3, <1>4, <1>6, QuietCalm

\* The request token of a JoinPending that is not saved is shown, or lost with a
\* reason.
LEMMA UnsavedPendingCalm ==
  ASSUME Sane, NEW p \in Process, PrintPending(p) \/ DropPending(p)
  PROVE  Calm(p)
<1>1. ProcessTyped /\ Typed /\ pc[p] = "asked"
  BY TypedParts DEF Sane, PrintPending, DropPending
<1>2. PICK r \in Replies : Head(reply[p]) = r /\ \A i \in 1..Len(reply[p]) : reply[p][i] = r
  BY <1>1, OneAnswer
<1>3. /\ fate' = Doomed(InReply(r), "told") \/ fate' = Doomed(InReply(r), "hidden")
      /\ work' = [work EXCEPT ![p] = Idle] /\ reply' = [reply EXCEPT ![p] = Tail(@)]
      /\ UNCHANGED <<gatewayVars, diskVars, session>>
      /\ \/ /\ mem' = [mem EXCEPT ![p] = Empty] /\ pc' = [pc EXCEPT ![p] = "off"]
            /\ stale' = stale \ {p}
         \/ pc' = [pc EXCEPT ![p] = "lobby"] /\ mem' = mem /\ stale' = stale
  BY <1>2 DEF PrintPending, DropPending
<1>4. Apart(p) /\ work'[p] = Idle /\ Idle.fresh = {}
  BY <1>1, <1>3 DEF Apart, ProcessTyped, Idle
<1>5. \/ pc'[p] = "off" /\ mem'[p] = Empty
      \/ mem'[p] = mem[p] /\ pc[p] # "off" /\ stale' = stale
  BY <1>1, <1>3 DEF ProcessTyped
<1>6. work[p].fresh = {}
  BY <1>1, NoneFresh DEF Saving
<1>7. \A t \in InReply(r) \cap Precious : fate'[t] # "none"
  <2>1. "told" \in Fate /\ "hidden" \in Fate
    BY DEF Fate
  <2>2. QED
    BY <1>1, <1>3, <2>1, DoomedFates
<1>8. QED
  BY <1>2, <1>3, <1>4, <1>5, <1>6, <1>7, QuietCalm

\* The error of a failed save is the reason of what it was to save, the end of the
\* connection that of the unread replies.
LEMMA FailCalm ==
  ASSUME Sane, NEW p \in Process, NEW to \in {"off", "lobby"}, SaveFails(p, to)
  PROVE  Calm(p)
<1>1. Typed /\ ProcessTyped
  BY TypedParts DEF Sane
<1>2. /\ pc[p] \in Saving /\ Return(p, to) /\ reply' = [reply EXCEPT ![p] = <<>>]
      /\ UNCHANGED <<gatewayVars, diskVars, requests>>
  BY DEF SaveFails
<1>3. PICK why \in Fate \ {"none"} : why = IF work[p].after = "chat" THEN "told" ELSE "hidden"
  BY DEF Fate
<1>4. fate' = [t \in Token |-> IF t \in work[p].fresh
                               THEN Doomed(work[p].fresh, why)[t]
                               ELSE Doomed(InReplies(p), "undelivered")[t]]
  BY <1>3 DEF SaveFails
<1>5. ASSUME NEW t \in Precious, t \in work[p].fresh \/ t \in InReplies(p)
      PROVE  fate'[t] # "none"
  <2>1. t \in Token
    BY PreciousToken
  <2>2. CASE t \in work[p].fresh
    <3>1. Doomed(work[p].fresh, why)[t] # "none"
      BY <1>1, <2>2, DoomedFates
    <3>2. QED
      BY <1>4, <2>1, <2>2, <3>1
  <2>3. CASE t \notin work[p].fresh
    <3>1. "undelivered" \in Fate
      BY DEF Fate
    <3>2. Doomed(InReplies(p), "undelivered")[t] # "none"
      BY <1>1, <1>5, <2>3, <3>1, DoomedFates
    <3>3. QED
      BY <1>4, <2>1, <2>3, <3>2
  <2>4. QED
    BY <2>2, <2>3
<1>6. /\ \A q \in Process \ {p} :
               /\ mem'[q] = mem[q] /\ pc'[q] = pc[q]
               /\ session'[q] = session[q] /\ work'[q] = work[q]
      /\ pc'[p] = to /\ work'[p].fresh = {}
      /\ mem'[p] = IF to = "off" THEN Empty ELSE mem[p]
  BY <1>1, <1>2, ReturnEffect
<1>7. Apart(p)
  BY <1>1, <1>2, <1>6 DEF Apart, ProcessTyped
<1>8. stale' = IF to = "off" THEN stale \ {p} ELSE stale
  BY <1>2 DEF Return
<1>9. \/ pc'[p] = "off" /\ mem'[p] = Empty
      \/ mem'[p] = mem[p] /\ pc[p] # "off" /\ stale' = stale
  BY <1>2, <1>6, <1>8 DEF Saving
<1>10. ASSUME NEW t \in Precious, NEW i \in 1..Len(reply[p]), t \in InReply(reply[p][i])
       PROVE  fate'[t] # "none"
  BY <1>5, <1>10, Unread
<1>11. stale' \in {stale, stale \ {p}}
  BY <1>8
<1>12. QED
  BY <1>2, <1>5, <1>6, <1>7, <1>9, <1>10, <1>11, QuietCalm

\* A lost reply is a reason.
LEMMA LoseCalm ==
  ASSUME Sane, Retained, NEW p \in Process, LoseReply(p)
  PROVE  Calm(p)
<1>1. Typed /\ ProcessTyped
  BY TypedParts DEF Sane
<1>2. /\ reply[p] # <<>> /\ reply' = [reply EXCEPT ![p] = Tail(@)]
      /\ fate' = Doomed(InReply(Head(reply[p])), "undelivered")
      /\ UNCHANGED <<gatewayVars, diskVars, mem, session, work, stale, requests>>
      /\ pc' = [pc EXCEPT ![p] = IF @ = "asked" THEN "lobby" ELSE @]
  BY DEF LoseReply
<1>3. reply[p] \in Seq(Replies) /\ reply'[p] = Tail(reply[p])
  BY <1>1, <1>2 DEF ProcessTyped
<1>4. /\ Len(reply[p]) \in Nat \ {0} /\ Head(reply[p]) = reply[p][1]
      /\ Len(Tail(reply[p])) = Len(reply[p]) - 1
      /\ \A i \in 1..Len(Tail(reply[p])) : Tail(reply[p])[i] = reply[p][i + 1]
  BY <1>2, <1>3, Rest
<1>5. Apart(p)
  BY <1>1, <1>2 DEF Apart, ProcessTyped
<1>6. pc'[p] = IF pc[p] = "asked" THEN "lobby" ELSE pc[p]
  BY <1>1, <1>2 DEF ProcessTyped
<1>7. ASSUME NEW t \in Precious, NEW i \in 1..Len(reply[p]),
             reply[p][i].kind # "welcome", t \in InReply(reply[p][i])
      PROVE  \/ \E j \in 1..Len(reply'[p]) :
                   reply'[p][j].kind # "welcome" /\ t \in InReply(reply'[p][j])
             \/ fate'[t] # "none"
  <2>1. CASE i = 1
    <3>1. "undelivered" \in Fate
      BY DEF Fate
    <3>2. QED
      BY <1>1, <1>2, <1>4, <1>7, <2>1, <3>1, DoomedFates
  <2>2. CASE i # 1
    <3>1. i - 1 \in 1..Len(Tail(reply[p])) /\ (i - 1) + 1 = i
      BY <1>4, <2>2
    <3>2. Tail(reply[p])[i - 1] = reply[p][i]
      BY <1>4, <3>1
    <3>3. QED
      BY <1>3, <1>7, <3>1, <3>2
  <2>3. QED
    BY <2>1, <2>2
<1>8. \A t \in Precious : t \in work[p].fresh =>
         /\ pc'[p] \in {"save", "synced"} => SavedIn(mem'[p], t)
         /\ pc'[p] = "renamed" => SavedIn(file.records, t) \/ fate'[t] # "none"
  <2>1. SUFFICES ASSUME NEW t \in Precious, t \in work[p].fresh
                 PROVE  /\ pc'[p] \in {"save", "synced"} => SavedIn(mem'[p], t)
                        /\ pc'[p] = "renamed" => SavedIn(file.records, t) \/ fate'[t] # "none"
    OBVIOUS
  <2>2. /\ pc[p] \in {"save", "synced"} => SavedIn(mem[p], t)
        /\ pc[p] = "renamed" => SavedIn(file.records, t) \/ fate[t] # "none"
    BY <2>1 DEF Retained, Arrives
  <2>3. fate[t] # "none" => fate'[t] # "none"
    <3>1. "undelivered" \in Fate /\ t \in Token
      BY PreciousToken DEF Fate
    <3>2. QED
      BY <1>1, <1>2, <3>1, DoomedFates
  <2>4. QED
    BY <1>2, <1>6, <2>2, <2>3
<1>9. pc'[p] # "off" => pc[p] # "off"
  BY <1>6
<1>10. QED
  BY <1>2, <1>5, <1>7, <1>8, <1>9 DEF Calm

\* The temporary file changes nothing that anybody reads.
LEMMA WriteCalm ==
  ASSUME Sane, Retained, NEW p \in Process, WriteTemporary(p)
  PROVE  Calm(p)
<1>1. /\ pc[p] = "save" /\ pc' = [pc EXCEPT ![p] = "synced"]
      /\ UNCHANGED <<gatewayVars, diskVars, mem, session, work, reply, stale, fate>>
  BY DEF WriteTemporary, Step
<1>2. ProcessTyped
  BY TypedParts DEF Sane
<1>3. Apart(p) /\ pc'[p] = "synced"
  BY <1>1, <1>2 DEF Apart, ProcessTyped
<1>4. \A t \in Precious : t \in work[p].fresh => SavedIn(mem[p], t)
  BY <1>1 DEF Retained, Arrives
<1>5. QED
  BY <1>1, <1>3, <1>4 DEF Calm

-----------------------------------------------------------------------------
(* Steps that change a record keep what it held *)

\* p changes its copy for what it has read, or for its user.
LEMMA ChangeCalm ==
  ASSUME Sane, NEW p \in Process, NEW g \in Group, NEW record \in Record, NEW reason \in Fate,
         Change(p, g, record, reason), SoundRecord(g, record),
         UNCHANGED <<gatewayVars, diskVars, stale>>, Apart(p),
         pc[p] # "off", work[p].fresh = {},
         \A t \in Precious : t \in work'[p].fresh => t = record.join,
         record.join \in Precious =>
            \/ record.join \in work'[p].fresh
            \/ record.join = mem[p][g].join
            \/ fate'[record.join] # "none",
         reason = "none" => mem[p][g].join \notin Precious \/ mem[p][g].join = record.join,
         \A t \in Precious : \A i \in 1..Len(reply[p]) :
            reply[p][i].kind # "welcome" /\ t \in InReply(reply[p][i]) =>
               \/ \E j \in 1..Len(reply'[p]) :
                     reply'[p][j].kind # "welcome" /\ t \in InReply(reply'[p][j])
               \/ t \in work'[p].fresh
               \/ fate'[t] # "none"
  PROVE  Calm(p)
<1>1. pc'[p] = "save"
  BY ChangeEffect
<1>2. ASSUME NEW t \in Precious
      PROVE  /\ SavedIn(mem'[p], t) <=>
                  \/ about[t].group # g /\ SavedIn(mem[p], t)
                  \/ about[t].group = g /\ t = record.join
             /\ SavedIn(mem[p], t) =>
                  \/ SavedIn(mem'[p], t)
                  \/ fate'[t] # "none"
                  \/ reason = "none" /\ about[t].group = g /\ t = mem[p][g].join /\ t # record.join
  BY ChangeKeeps
<1>3. ASSUME NEW t \in Precious, SavedIn(mem[p], t)
      PROVE  SavedIn(mem'[p], t) \/ fate'[t] # "none"
  BY <1>2, <1>3
<1>4. ASSUME NEW t \in Precious, SavedIn(mem'[p], t)
      PROVE  SavedIn(mem[p], t) \/ t \in work'[p].fresh \/ fate'[t] # "none"
  <2>1. CASE about[t].group # g
    BY <1>2, <1>4, <2>1
  <2>2. CASE about[t].group = g
    <3>1. t = record.join
      BY <1>2, <1>4, <2>2
    <3>2. t = mem[p][g].join => SavedIn(mem[p], t)
      BY <2>2 DEF SavedIn
    <3>3. QED
      BY <3>1, <3>2
  <2>3. QED
    BY <2>1, <2>2
<1>5. ASSUME NEW t \in Precious, t \in work'[p].fresh PROVE SavedIn(mem'[p], t)
  <2>1. t = record.join /\ t # None
    BY <1>5, PreciousToken
  <2>2. about[t].group = g
    BY <2>1 DEF SoundRecord
  <2>3. QED
    BY <1>2, <2>1, <2>2
<1>6. stale \ {p} \subseteq stale' /\ (p \notin stale' => p \notin stale)
  OBVIOUS
<1>7. QED
  BY <1>1, <1>3, <1>4, <1>5, <1>6 DEF Calm

\* A reply's tokens of identities are its join token.
LEMMA ReplyJoin ==
  ASSUME Sane, NEW p \in Process, NEW r, Answered(p, r) \/ Rotated(p, r), NEW t \in Precious,
         t \in InReply(r)
  PROVE  t = r.join
<1>1. t # None /\ about[t].kind # "invite"
  BY PreciousToken
<1>2. r.invite # None => about[r.invite].kind = "invite"
  BY DEF Answered, Rotated
<1>3. QED
  BY <1>1, <1>2 DEF InReply

\* The issued token is on its way to the file; what it displaces has a reason, unless
\* the gateway does not accept it any more.
LEMMA WelcomeCalm ==
  ASSUME Sane, NEW p \in Process, ReadWelcome(p)
  PROVE  Calm(p)
<1>1. ProcessTyped /\ Typed /\ pc[p] = "asked" /\ work[p].fresh = {}
  <2>1. pc[p] = "asked"
    BY DEF ReadWelcome
  <2>2. QED
    BY <2>1, NoneFresh, TypedParts DEF Sane, Saving
<1>2. PICK r \in Replies : /\ Head(reply[p]) = r /\ Answered(p, r)
                           /\ \A i \in 1..Len(reply[p]) : reply[p][i] = r
  BY <1>1, OneAnswer
<1>3. PICK g \in Group : g = work[p].group
  BY <1>1 DEF Sane, Structure, Local, Queue
<1>4. /\ UNCHANGED <<gatewayVars, diskVars, stale>>
      /\ session' = [session EXCEPT ![p] = session'[p]]
      /\ reply' = [reply EXCEPT ![p] = Tail(@)]
  BY <1>1 DEF ReadWelcome, ProcessTyped
<1>5. CASE NothingToSave(p, r)
  <2>1. /\ pc' = [pc EXCEPT ![p] = "chat"] /\ work' = [work EXCEPT ![p] = Idle]
        /\ UNCHANGED <<mem, fate>>
    BY <1>2, <1>5 DEF ReadWelcome
  <2>2. Apart(p) /\ work'[p] = Idle /\ Idle.fresh = {}
    BY <1>1, <1>4, <2>1 DEF Apart, ProcessTyped, Idle
  <2>3. r.kind = "welcome"
    BY <1>5 DEF NothingToSave
  <2>4. QED
    BY <1>1, <1>2, <1>4, <2>1, <2>2, <2>3, QuietCalm
<1>6. CASE ~NothingToSave(p, r)
  <2>1. PICK reason \in Fate : reason = CASE work[p].supplied = mem[p][g].join -> "none"
                                          [] work[p].supplied = None -> "renewed"
                                          [] OTHER -> "dropped"
    BY DEF Fate
  <2>2. PICK record \in Record : record = WelcomeRecord(p, r)
                                 /\ SoundRecord(g, record) /\ record.join = r.join
    <3>1. PICK s \in Replies, h \in Group :
             /\ reply[p] = <<s>> /\ h = work[p].group
             /\ ~NothingToSave(p, s) =>
                  /\ WelcomeRecord(p, s) \in Record /\ SoundRecord(h, WelcomeRecord(p, s))
                  /\ WelcomeRecord(p, s).join = s.join
      BY WelcomeEffect
    <3>2. Head(<<s>>) = s
      OBVIOUS
    <3>3. s = r /\ h = g
      BY <1>2, <1>3, <3>1, <3>2
    <3>4. QED
      BY <1>6, <3>1, <3>3
  <2>3. /\ Change(p, g, record, reason)
        /\ work' = [work EXCEPT ![p] = [Idle EXCEPT !.group = g, !.fresh = InReply(r),
                                                    !.after = "chat"]]
    BY <1>2, <1>3, <1>6, <2>1, <2>2 DEF ReadWelcome
  <2>4. work' = [work EXCEPT ![p] = SavingWork(g, r, "chat")]
    BY <2>3 DEF SavingWork
  <2>5. work'[p].fresh = InReply(r)
    BY <1>1, <2>4, SavingWorkType DEF ProcessTyped
  <2>6. /\ \A q \in Process \ {p} : mem'[q] = mem[q] /\ pc'[q] = pc[q]
    BY <1>4, <2>2, <2>3, ChangeEffect
  <2>7. Apart(p)
    BY <1>1, <1>4, <2>4, <2>6 DEF Apart, ProcessTyped
  <2>8. reason = "none" => mem[p][g].join \notin Precious \/ mem[p][g].join = record.join
    <3>1. SUFFICES ASSUME reason = "none"
                   PROVE  mem[p][g].join \notin Precious \/ mem[p][g].join = record.join
      OBVIOUS
    <3>2. work[p].supplied = mem[p][g].join
      BY <2>1, <3>1
    <3>3. None \notin Precious
      BY PreciousToken
    <3>4. r.kind \in {"welcome", "issued", "member"}
      BY <1>2 DEF Answered, ReadWelcome
    <3>5. QED
      BY <1>2, <2>2, <3>2, <3>3, <3>4 DEF Answered
  <2>9. \A t \in Precious : t \in work'[p].fresh => t = record.join
    BY <1>2, <2>2, <2>5, ReplyJoin
  <2>10. record.join \in Precious => record.join \in work'[p].fresh
    <3>1. record.join # None => record.join \in InReply(r)
      BY <2>2 DEF InReply
    <3>2. QED
      BY <2>5, <3>1, PreciousToken
  <2>11. \A i \in 1..Len(reply[p]) : \A t \in InReply(reply[p][i]) : t \in work'[p].fresh
    BY <1>2, <2>5
  <2>12. pc[p] # "off"
    BY <1>1
  <2>13. QED
    BY <1>1, <1>4, <2>2, <2>3, <2>7, <2>8, <2>9, <2>10, <2>11, <2>12, ChangeCalm
<1>7. QED
  BY <1>5, <1>6

\* The request token takes the place of itself or of nothing.
LEMMA PendingCalm ==
  ASSUME Sane, NEW p \in Process, ReadPending(p)
  PROVE  Calm(p)
<1>1. ProcessTyped /\ Typed /\ pc[p] = "asked" /\ work[p].fresh = {}
  <2>1. pc[p] = "asked"
    BY DEF ReadPending
  <2>2. QED
    BY <2>1, NoneFresh, TypedParts DEF Sane, Saving
<1>2. PICK r \in Replies : /\ Head(reply[p]) = r /\ Answered(p, r)
                           /\ \A i \in 1..Len(reply[p]) : reply[p][i] = r
  BY <1>1, OneAnswer
<1>3. PICK g \in Group : g = work[p].group
  BY <1>1 DEF Sane, Structure, Local, Queue
<1>4. /\ UNCHANGED <<gatewayVars, diskVars, stale, session>>
      /\ reply' = [reply EXCEPT ![p] = Tail(@)]
      /\ work' = [work EXCEPT ![p] = [Idle EXCEPT !.fresh = InReply(r)]]
      /\ Change(p, g, NewRecord(NoRecord, r), "none")
      /\ r.kind = "pending" /\ work[p].supplied = mem[p][g].join
  BY <1>2, <1>3 DEF ReadPending
<1>5. PICK record : record = [join |-> r.join, invite |-> None]
  OBVIOUS
<1>6. record = NewRecord(NoRecord, r) /\ record.join = r.join
  BY <1>4, <1>5 DEF NewRecord
<1>7. record \in Record /\ SoundRecord(g, record)
  <2>1. r.join \in 1..minted /\ about[r.join].group = g /\ r.join \in Token \cup {None}
    BY <1>2, <1>3 DEF Answered, Replies
  <2>2. QED
    BY <1>5, <2>1 DEF Record, SoundRecord, None
<1>8. "none" \in Fate /\ Change(p, g, record, "none")
  BY <1>4, <1>6 DEF Fate
<1>9. work'[p].fresh = InReply(r)
  <2>1. work'[p] = [Idle EXCEPT !.fresh = InReply(r)]
    BY <1>1, <1>4 DEF ProcessTyped
  <2>2. QED
    BY <2>1 DEF Idle
<1>10. \A q \in Process \ {p} : mem'[q] = mem[q] /\ pc'[q] = pc[q]
  BY <1>4, <1>7, <1>8, ChangeEffect
<1>11. Apart(p)
  BY <1>1, <1>4, <1>10 DEF Apart, ProcessTyped
<1>12. mem[p][g].join \notin Precious \/ mem[p][g].join = record.join
  <2>1. work[p].supplied \in {None, r.join}
    BY <1>2, <1>4 DEF Answered
  <2>2. None \notin Precious
    BY PreciousToken
  <2>3. QED
    BY <1>4, <1>6, <2>1, <2>2
<1>13. \A t \in Precious : t \in work'[p].fresh => t = record.join
  BY <1>2, <1>6, <1>9, ReplyJoin
<1>14. record.join \in Precious => record.join \in work'[p].fresh
  <2>1. record.join # None => record.join \in InReply(r)
    BY <1>6 DEF InReply
  <2>2. QED
    BY <1>9, <2>1, PreciousToken
<1>15. \A i \in 1..Len(reply[p]) : \A t \in InReply(reply[p][i]) : t \in work'[p].fresh
  BY <1>2, <1>9
<1>16. pc[p] # "off"
  BY <1>1
<1>17. QED
  BY <1>1, <1>4, <1>7, <1>8, <1>11, <1>12, <1>13, <1>14, <1>15, <1>16, ChangeCalm

\* The old token of the session's identity is not accepted any more (Overtaken); another
\* one in its place is dropped.
LEMMA RotatedCalm ==
  ASSUME Sane, NEW p \in Process, ReadRotated(p)
  PROVE  Calm(p)
<1>1. ProcessTyped /\ Typed /\ pc[p] = "chat" /\ InChat(p) /\ work[p].fresh = {} /\ Local(p)
  <2>1. pc[p] = "chat"
    BY DEF ReadRotated
  <2>2. QED
    BY <2>1, NoneFresh, TypedParts DEF Sane, Saving, InChat, Structure
<1>2. PICK r \in Replies, g \in Group :
            /\ reply[p] # <<>> /\ r = reply[p][1] /\ Rotated(p, r) /\ g = session[p].group
            /\ mem[p][g].join # None
            /\ NewRecord(mem[p][g], r) \in Record /\ SoundRecord(g, NewRecord(mem[p][g], r))
            /\ \/ r.kind = "rotated" /\ NewRecord(mem[p][g], r).join = r.join
               \/ r.kind = "invite" /\ NewRecord(mem[p][g], r).join = mem[p][g].join
            /\ Change(p, g, NewRecord(mem[p][g], r), IF session[p].own THEN "none" ELSE "dropped")
            /\ work' = [work EXCEPT ![p] = SavingWork(g, r, "chat")]
            /\ reply' = [reply EXCEPT ![p] = Tail(@)]
            /\ UNCHANGED <<gatewayVars, diskVars, session, stale, requests, faults>>
  BY RotatedEffect
<1>3. PICK record \in Record : record = NewRecord(mem[p][g], r)
  BY <1>2
<1>4. PICK reason \in Fate : reason = IF session[p].own THEN "none" ELSE "dropped"
  BY DEF Fate
<1>5. Change(p, g, record, reason) /\ SoundRecord(g, record)
  BY <1>2, <1>3, <1>4
<1>6. work'[p].fresh = InReply(r) /\ reply'[p] = Tail(reply[p])
  BY <1>1, <1>2, SavingWorkType DEF ProcessTyped
<1>7. \A q \in Process \ {p} : mem'[q] = mem[q] /\ pc'[q] = pc[q]
  BY <1>2, <1>5, ChangeEffect
<1>8. Apart(p)
  BY <1>1, <1>2, <1>7 DEF Apart, ProcessTyped
<1>9. reply[p] \in Seq(Replies)
  BY <1>1 DEF ProcessTyped
<1>10. /\ Len(reply[p]) \in Nat \ {0} /\ Len(Tail(reply[p])) = Len(reply[p]) - 1
       /\ \A i \in 1..Len(Tail(reply[p])) : Tail(reply[p])[i] = reply[p][i + 1]
  BY <1>2, <1>9, Rest
<1>11. reason = "none" => mem[p][g].join \notin Precious \/ mem[p][g].join = record.join
  <2>1. SUFFICES ASSUME reason = "none", r.kind = "rotated" PROVE mem[p][g].join \notin Precious
    BY <1>2, <1>3
  <2>2. session[p].own
    BY <1>4, <2>1
  <2>3. 1 \in 1..Len(reply[p]) /\ reply[p][1].kind = "rotated"
    BY <1>2, <1>10, <2>1
  <2>4. mem[p][g].join \notin current
    BY <1>1, <1>2, <2>2, <2>3 DEF Local, Overtaken
  <2>5. QED
    BY <2>4 DEF Precious
<1>12. \A t \in Precious : t \in work'[p].fresh => t = record.join
  <2>1. SUFFICES ASSUME NEW t \in Precious, t \in InReply(r) PROVE t = record.join
    BY <1>6
  <2>2. t = r.join /\ t # None
    BY <1>2, <2>1, ReplyJoin, PreciousToken
  <2>3. r.kind = "rotated"
    BY <1>2, <2>2 DEF Rotated
  <2>4. QED
    BY <1>2, <1>3, <2>2, <2>3
<1>13. record.join \in Precious => record.join \in work'[p].fresh \/ record.join = mem[p][g].join
  <2>1. SUFFICES ASSUME record.join \in Precious, r.kind = "rotated"
                 PROVE  record.join \in work'[p].fresh
    BY <1>2, <1>3
  <2>2. record.join = r.join /\ r.join # None
    BY <1>2, <1>3, <2>1, PreciousToken
  <2>3. QED
    BY <1>6, <2>2 DEF InReply
<1>14. ASSUME NEW t \in Precious, NEW i \in 1..Len(reply[p]),
              reply[p][i].kind # "welcome", t \in InReply(reply[p][i])
       PROVE  \/ \E j \in 1..Len(reply'[p]) :
                    reply'[p][j].kind # "welcome" /\ t \in InReply(reply'[p][j])
              \/ t \in work'[p].fresh
  <2>1. CASE i = 1
    BY <1>2, <1>6, <1>14, <2>1
  <2>2. CASE i # 1
    <3>1. i - 1 \in 1..Len(Tail(reply[p])) /\ (i - 1) + 1 = i
      BY <1>10, <2>2
    <3>2. Tail(reply[p])[i - 1] = reply[p][i]
      BY <1>10, <3>1
    <3>3. QED
      BY <1>6, <1>14, <3>1, <3>2
  <2>3. QED
    BY <2>1, <2>2
<1>15. pc[p] # "off"
  BY <1>1
<1>16. QED
  BY <1>1, <1>2, <1>5, <1>8, <1>11, <1>12, <1>13, <1>14, <1>15, ChangeCalm

\* The user drops what was there; what is imported was told before.
LEMMA UserCalm ==
  ASSUME Sane, NEW p \in Process,
         (\E g \in Group : Forget(p, g)) \/ (\E t \in Token : Import(p, t))
  PROVE  Calm(p)
<1>1. Typed /\ ProcessTyped /\ GatewayTyped /\ "dropped" \in Fate
  BY TypedParts DEF Sane, Fate
<1>2. /\ pc[p] = "lobby" /\ work' = [work EXCEPT ![p] = Idle]
      /\ UNCHANGED <<gatewayVars, diskVars, session, reply, stale, faults>>
  BY DEF Forget, Import, Ask
<1>3. PICK g \in Group, record \in Record :
         /\ Change(p, g, record, "dropped") /\ SoundRecord(g, record)
         /\ record.join \in Precious => fate[record.join] # "none"
  <2>1. ASSUME NEW g \in Group, Forget(p, g)
        PROVE  /\ Change(p, g, NoRecord, "dropped") /\ SoundRecord(g, NoRecord)
               /\ NoRecord \in Record /\ NoRecord.join \notin Precious
    BY <2>1, PreciousToken DEF Forget, SoundRecord, NoRecord, Record
  <2>2. ASSUME NEW t \in Token, Import(p, t)
        PROVE  \E g \in Group, record \in Record :
                  /\ Change(p, g, record, "dropped") /\ SoundRecord(g, record)
                  /\ fate[record.join] # "none"
    <3>1. t \in Precious /\ fate[t] # "none"
      BY <2>2 DEF Import, Told
    <3>2. t \in 1..minted /\ about[t].group \in Group
      BY <3>1, PreciousToken
    <3>3. PICK g \in Group : g = about[t].group
      BY <3>2
    <3>4. PICK record : record = [join |-> t, invite |-> None]
      OBVIOUS
    <3>5. Change(p, g, record, "dropped")
      BY <2>2, <3>3, <3>4 DEF Import
    <3>6. SoundRecord(g, record)
      BY <3>2, <3>3, <3>4 DEF SoundRecord, None
    <3>7. record \in Record /\ record.join = t
      BY <3>4 DEF Record
    <3>8. QED
      BY <3>1, <3>5, <3>6, <3>7
  <2>3. QED
    BY <2>1, <2>2
<1>4. /\ \A q \in Process \ {p} : mem'[q] = mem[q] /\ pc'[q] = pc[q]
      /\ Grows
  BY <1>1, <1>2, <1>3, ChangeEffect
<1>5. Apart(p)
  BY <1>1, <1>2, <1>4 DEF Apart, ProcessTyped
<1>6. work'[p] = Idle /\ Idle.fresh = {} /\ work[p].fresh = {} /\ pc[p] # "off"
  BY <1>1, <1>2, NoneFresh DEF ProcessTyped, Idle, Saving
<1>7. record.join \in Precious => fate'[record.join] # "none"
  BY <1>3, <1>4, PreciousToken DEF Grows
<1>8. "dropped" # "none" /\ UNCHANGED <<gatewayVars, diskVars, stale, reply>>
  BY <1>2
<1>9. QED
  BY <1>1, <1>3, <1>5, <1>6, <1>7, <1>8, ChangeCalm

-----------------------------------------------------------------------------
(* Steps that change the disk *)

\* The file is replaced by p's copy.
LEMMA RenameRetains ==
  ASSUME Sane, Retained, NEW p \in Process, Rename(p)
  PROVE  Retained'
<1>1. Typed /\ ProcessTyped /\ Sound(mem[p]) /\ Sound(file.records)
  BY TypedParts DEF Sane, Structure, Local
<1>2. /\ pc[p] = "synced" /\ pc' = [pc EXCEPT ![p] = "renamed"]
      /\ file'.records = mem[p]
      /\ stale' = stale \cup {q \in Process \ {p} : pc[q] # "off"}
      /\ fate' = IF p \in stale THEN Doomed(OnFile(file) \ OnFile(file'), "overwritten") ELSE fate
      /\ UNCHANGED <<mode, minted, about, current, durable, mem, session, work, reply>>
  BY DEF Rename, Step, gatewayVars
<1>3. Precious' = Precious /\ Precious \subseteq Token
  BY <1>2, PreciousToken DEF Precious
<1>4. pc'[p] = "renamed" /\ \A q \in Process \ {p} : pc'[q] = pc[q]
  BY <1>1, <1>2 DEF ProcessTyped
<1>5. \A t \in Precious : fate[t] # "none" => fate'[t] # "none"
  BY <1>3, WriteSane DEF Grows
<1>6. ASSUME NEW t \in Precious, SavedIn(file.records, t)
      PROVE  SavedIn(mem[p], t) \/ fate'[t] # "none"
  <2>1. CASE p \notin stale
    BY <1>2, <1>5, <1>6, <2>1 DEF Retained, UpToDate
  <2>2. CASE p \in stale
    <3>1. PICK g \in Group : g = about[t].group /\ t = file.records[g].join /\ t # None
      BY <1>6, PreciousToken DEF SavedIn
    <3>2. t \in OnFile(file)
      <4>1. t \in TokensOf(file.records[g])
        BY <3>1 DEF TokensOf
      <4>2. QED
        BY <4>1 DEF OnFile
    <3>3. CASE t \in UNION {TokensOf(mem[p][h]) : h \in Group}
      <4>1. PICK h \in Group : t \in TokensOf(mem[p][h])
        BY <3>3
      <4>2. QED
        BY <1>1, <4>1, OnlyJoin
    <3>4. CASE t \notin UNION {TokensOf(mem[p][h]) : h \in Group}
      <4>1. OnFile(file') = UNION {TokensOf(mem[p][h]) : h \in Group}
        BY <1>2 DEF OnFile
      <4>2. PICK lost : lost = OnFile(file) \ OnFile(file')
        OBVIOUS
      <4>3. t \in lost /\ fate' = Doomed(lost, "overwritten") /\ "overwritten" \in Fate
        BY <1>2, <2>2, <3>2, <3>4, <4>1, <4>2 DEF Fate
      <4>4. \A u \in lost \cap Precious : Doomed(lost, "overwritten")[u] # "none"
        BY <1>1, <4>3, DoomedFates
      <4>5. QED
        BY <4>3, <4>4
    <3>5. QED
      BY <3>3, <3>4
  <2>3. QED
    BY <2>1, <2>2
<1>7. ASSUME NEW t \in Precious, Kept(t) PROVE Kept(t)'
  BY <1>2, <1>5, <1>6, <1>7 DEF Kept, SavedIn
<1>8. Owed'
  BY <1>2, <1>3, <1>7 DEF Retained, Owed, InReply
<1>9. Copies'
  BY <1>2, <1>3, <1>7 DEF Retained, Copies, SavedIn
<1>10. Synced'
  <2>1. SUFFICES ASSUME NEW t \in Precious, SavedIn(mem[p], t)
                 PROVE  \/ SavedIn(durable.records, t)
                        \/ \E q \in Process : t \in work[q].fresh
                        \/ fate'[t] # "none"
    BY <1>2, <1>3 DEF Synced, SavedIn
  <2>2. Kept(t)
    BY <2>1 DEF Retained, Copies
  <2>3. QED
    BY <1>5, <2>2 DEF Kept, Retained, Synced
<1>11. UpToDate'
  <2>1. SUFFICES ASSUME NEW q \in Process, pc'[q] # "off", q \notin stale'
                 PROVE  q = p
    BY <1>2, <1>3 DEF UpToDate, SavedIn
  <2>2. QED
    BY <1>2, <1>4, <2>1
<1>12. Arrives'
  <2>1. SUFFICES ASSUME NEW q \in Process, NEW t \in Precious, t \in work[q].fresh
                 PROVE  /\ pc'[q] \in {"save", "synced"} => SavedIn(mem[q], t)
                        /\ pc'[q] = "renamed" => SavedIn(mem[p], t) \/ fate'[t] # "none"
    BY <1>2, <1>3 DEF Arrives, SavedIn
  <2>2. /\ pc[q] \in {"save", "synced"} => SavedIn(mem[q], t)
        /\ pc[q] = "renamed" => SavedIn(file.records, t) \/ fate[t] # "none"
    BY <2>1 DEF Retained, Arrives
  <2>3. QED
    BY <1>2, <1>4, <1>5, <1>6, <2>2
<1>13. QED
  BY <1>8, <1>9, <1>10, <1>11, <1>12 DEF Retained

\* The rename is there to stay.
LEMMA SyncRetains ==
  ASSUME Sane, Retained, NEW p \in Process, SyncDirectory(p)
  PROVE  Retained'
<1>1. Typed /\ ProcessTyped
  BY TypedParts DEF Sane
<1>2. PICK to \in {"lobby", "chat"} : to = work[p].after
  BY <1>1 DEF ProcessTyped, Work
<1>3. /\ pc[p] = "renamed" /\ durable' = file /\ Return(p, to)
      /\ UNCHANGED <<mode, minted, about, current, file, reply, fate>>
  BY <1>2 DEF SyncDirectory, gatewayVars
<1>4. /\ \A q \in Process \ {p} :
               /\ mem'[q] = mem[q] /\ pc'[q] = pc[q]
               /\ session'[q] = session[q] /\ work'[q] = work[q]
      /\ pc'[p] = to /\ work'[p].fresh = {} /\ mem'[p] = mem[p]
  BY <1>1, <1>3, ReturnEffect
<1>5. stale' = stale /\ Precious' = Precious /\ mem' = mem
  BY <1>1, <1>2, <1>3 DEF Return, Precious, ProcessTyped
<1>6. ASSUME NEW t \in Precious, t \in work[p].fresh
      PROVE  SavedIn(file.records, t) \/ fate[t] # "none"
  BY <1>3, <1>6 DEF Retained, Arrives
<1>7. ASSUME NEW t \in Precious, Kept(t) PROVE Kept(t)'
  BY <1>3, <1>4, <1>6, <1>7 DEF Kept, SavedIn
<1>8. Owed'
  BY <1>3, <1>5, <1>7 DEF Retained, Owed, InReply
<1>9. Copies'
  BY <1>3, <1>5, <1>7 DEF Retained, Copies, SavedIn
<1>10. Synced'
  BY <1>3, <1>5 DEF Synced, SavedIn
<1>11. UpToDate'
  <2>1. \A q \in Process : pc'[q] # "off" => pc[q] # "off"
    BY <1>3, <1>4
  <2>2. QED
    BY <1>3, <1>5, <2>1 DEF Retained, UpToDate, SavedIn
<1>12. Arrives'
  <2>1. SUFFICES ASSUME NEW q \in Process, NEW t \in Precious, t \in work'[q].fresh
                 PROVE  /\ pc'[q] \in {"save", "synced"} => SavedIn(mem[q], t)
                        /\ pc'[q] = "renamed" => SavedIn(file.records, t) \/ fate[t] # "none"
    BY <1>3, <1>5 DEF Arrives, SavedIn
  <2>2. q # p /\ t \in work[q].fresh /\ pc'[q] = pc[q]
    BY <1>4, <2>1
  <2>3. QED
    BY <2>2 DEF Retained, Arrives
<1>13. QED
  BY <1>8, <1>9, <1>10, <1>11, <1>12 DEF Retained

\* Some processes stop, or all of them and with them what was not yet durable.
LEMMA HaltRetains ==
  ASSUME Sane, Retained, Grows, NEW ps \in SUBSET Process, Halt(ps),
         \/ ps = Process /\ file' \in {file, durable} /\ durable' = file'
         \/ UNCHANGED <<file, durable>>
  PROVE  Retained'
<1>1. Typed
  BY DEF Sane
<1>2. /\ pc' = [p \in Process |-> IF p \in ps THEN "off" ELSE pc[p]]
      /\ mem' = [p \in Process |-> IF p \in ps THEN Empty ELSE mem[p]]
      /\ work' = [p \in Process |-> IF p \in ps THEN Idle ELSE work[p]]
      /\ reply' = [p \in Process |-> IF p \in ps THEN <<>> ELSE reply[p]]
      /\ stale' = stale \ ps
      /\ UNCHANGED <<mode, minted, about, current>>
  BY DEF Halt, gatewayVars
<1>3. /\ \A q \in Process \ ps : /\ pc'[q] = pc[q] /\ mem'[q] = mem[q]
                                 /\ work'[q] = work[q] /\ reply'[q] = reply[q]
      /\ \A q \in ps : /\ pc'[q] = "off" /\ mem'[q] = Empty
                       /\ work'[q].fresh = {} /\ reply'[q] = <<>>
  BY <1>2 DEF Idle
<1>4. Precious' = Precious /\ Precious \subseteq Token
  BY <1>2, PreciousToken DEF Precious
<1>5. \A t \in Precious : fate[t] # "none" => fate'[t] # "none"
  BY <1>4 DEF Grows
<1>6. ASSUME NEW t \in Precious, NEW q \in ps, t \in InReplies(q) \cup work[q].fresh
      PROVE  fate'[t] # "none"
  <2>1. PICK lost :
           lost = {u \in Token : \E p \in ps : u \in InReplies(p) \cup work[p].fresh}
    OBVIOUS
  <2>2. fate' = Doomed(lost, "undelivered") /\ "undelivered" \in Fate
    BY <2>1 DEF Halt, Fate
  <2>3. t \in lost
    BY <1>4, <1>6, <2>1
  <2>4. QED
    BY <1>1, <2>2, <2>3, DoomedFates
<1>7. ASSUME NEW t \in Precious, \E q \in Process : t \in work[q].fresh
      PROVE  (\E q \in Process : t \in work'[q].fresh) \/ fate'[t] # "none"
  BY <1>3, <1>6, <1>7
<1>8. ASSUME NEW t \in Precious, SavedIn(file.records, t)
      PROVE  \/ SavedIn(file'.records, t)
             \/ \E q \in Process : t \in work'[q].fresh
             \/ fate'[t] # "none"
  <2>1. CASE file' = file
    BY <1>8, <2>1
  <2>2. CASE file' = durable
    <3>1. \/ SavedIn(durable.records, t)
          \/ \E q \in Process : t \in work[q].fresh
          \/ fate[t] # "none"
      BY <1>8 DEF Retained, Synced
    <3>2. QED
      BY <1>5, <1>7, <2>2, <3>1
  <2>3. QED
    BY <2>1, <2>2
<1>9. ASSUME NEW t \in Precious, Kept(t) PROVE Kept(t)'
  BY <1>2, <1>5, <1>7, <1>8, <1>9 DEF Kept, SavedIn
<1>10. Owed'
  <2>1. SUFFICES ASSUME NEW t \in Precious, ~Kept(t)'
                 PROVE  \E q \in Process : \E i \in 1..Len(reply'[q]) :
                           reply'[q][i].kind # "welcome" /\ t \in InReply(reply'[q][i])
    BY <1>4 DEF Owed, InReply
  <2>2. PICK q \in Process :
           \E i \in 1..Len(reply[q]) : reply[q][i].kind # "welcome" /\ t \in InReply(reply[q][i])
    BY <1>9, <2>1 DEF Retained, Owed
  <2>3. q \notin ps
    <3>1. t \in InReplies(q)
      BY <2>2, Unread
    <3>2. fate'[t] = "none"
      BY <2>1 DEF Kept
    <3>3. QED
      BY <1>6, <3>1, <3>2
  <2>4. QED
    BY <1>3, <2>2, <2>3
<1>11. Copies'
  <2>1. SUFFICES ASSUME NEW q \in Process, NEW t \in Precious, SavedIn(mem'[q], t)
                 PROVE  Kept(t)'
    BY <1>2, <1>4 DEF Copies, SavedIn
  <2>2. mem'[q] # Empty
    BY <2>1, PreciousToken DEF SavedIn, Empty, NoRecord
  <2>3. mem'[q] = mem[q]
    BY <1>3, <2>2
  <2>4. QED
    BY <1>9, <2>1, <2>3 DEF Retained, Copies
<1>12. Synced'
  <2>1. CASE durable' = file'
    BY <1>2, <1>4, <2>1 DEF Synced, SavedIn
  <2>2. CASE UNCHANGED <<file, durable>>
    <3>1. SUFFICES ASSUME NEW t \in Precious, SavedIn(file.records, t)
                   PROVE  \/ SavedIn(durable.records, t)
                          \/ \E q \in Process : t \in work'[q].fresh
                          \/ fate'[t] # "none"
      BY <1>2, <1>4, <2>2 DEF Synced, SavedIn
    <3>2. QED
      BY <1>5, <1>7, <3>1 DEF Retained, Synced
  <2>3. QED
    BY <2>1, <2>2
<1>13. UpToDate'
  <2>1. SUFFICES ASSUME NEW q \in Process, pc'[q] # "off", q \notin stale',
                        NEW t \in Precious, SavedIn(file'.records, t)
                 PROVE  SavedIn(mem'[q], t) \/ fate'[t] # "none"
    BY <1>2, <1>4 DEF UpToDate, SavedIn
  <2>2. q \notin ps /\ q \notin stale /\ pc[q] # "off" /\ mem'[q] = mem[q] /\ file' = file
    BY <1>2, <1>3, <2>1
  <2>3. QED
    BY <1>5, <2>1, <2>2 DEF Retained, UpToDate
<1>14. Arrives'
  <2>1. SUFFICES ASSUME NEW q \in Process, NEW t \in Precious, t \in work'[q].fresh
                 PROVE  /\ pc'[q] \in {"save", "synced"} => SavedIn(mem'[q], t)
                        /\ pc'[q] = "renamed" => SavedIn(file'.records, t) \/ fate'[t] # "none"
    BY <1>2, <1>4 DEF Arrives, SavedIn
  <2>2. q \notin ps /\ pc'[q] = pc[q] /\ mem'[q] = mem[q] /\ file' = file /\ t \in work[q].fresh
    BY <1>3, <2>1
  <2>3. QED
    BY <1>5, <2>2 DEF Retained, Arrives
<1>15. QED
  BY <1>10, <1>11, <1>12, <1>13, <1>14 DEF Retained

-----------------------------------------------------------------------------
(* Steps of the gateway *)

\* The gateway issues or approves; a new token is in a reply.
Serves ==
    /\ UNCHANGED <<file, durable, mem, stale, fate>>
    /\ \A q \in Process :
          /\ work'[q].fresh = work[q].fresh
          /\ \/ pc'[q] = pc[q]
             \/ pc'[q] = "asked" /\ pc[q] # "off"
          /\ \A i \in 1..Len(reply[q]) : i \in 1..Len(reply'[q]) /\ reply'[q][i] = reply[q][i]
    /\ \A t \in Precious' : t > minted =>
          \E q \in Process : \E i \in 1..Len(reply'[q]) :
             reply'[q][i].kind # "welcome" /\ t \in InReply(reply'[q][i])

\* What tokens of identities are, in a form that holds of the next state as well.
PreciousKnown ==
    \A t \in Precious : /\ t \in current /\ t \in Token /\ t # None
                        /\ about[t].group \in Group /\ about[t].kind # "invite"

\* PreciousKnown follows from the invariant.
LEMMA PreciousAlways == Sane => PreciousKnown
BY PreciousToken DEF Precious, PreciousKnown

\* Records name no token yet to come.
LEMMA OldOnly ==
  ASSUME Sane, Sane', Grows, NEW records, Sound(records), NEW t \in Precious'
  PROVE  /\ t = records[about'[t].group].join => t \in 1..minted
         /\ t \in 1..minted =>
               /\ t \in Precious
               /\ t = records[about'[t].group].join <=> SavedIn(records, t)
<1>1. about'[t].group \in Group /\ t # None /\ t \in current' /\ about'[t].kind # "invite"
  <2>1. (Sane => PreciousKnown)'
    BY PreciousAlways, PTL
  <2>2. QED
    BY <2>1 DEF PreciousKnown
<1>2. QED
  BY <1>1 DEF Sound, Grows, Precious, SavedIn

\* Records say of the old tokens what they said before, and the new one is owed.
LEMMA ServesRetains ==
  ASSUME Sane, Sane', Grows, Retained, Serves
  PROVE  Retained'
<1>1. /\ Sound(file.records) /\ Sound(durable.records) /\ \A q \in Process : Sound(mem[q])
      /\ minted \in Nat
  BY TypedParts DEF Sane, Structure, Local, GatewayTyped
<1>2. UNCHANGED <<file, durable, mem, stale, fate>>
  BY DEF Serves
<1>3. ASSUME NEW t \in Precious', t \in 1..minted, Kept(t) PROVE Kept(t)'
  <2>1. t = file.records[about'[t].group].join <=> SavedIn(file.records, t)
    BY <1>1, <1>3, OldOnly
  <2>2. QED
    BY <1>2, <1>3, <2>1 DEF Kept, SavedIn, Serves
<1>4. Precious' \subseteq Nat /\ \A t \in Precious' : t > 0
  <2>1. (Sane => PreciousKnown)'
    BY PreciousAlways, PTL
  <2>2. QED
    BY <2>1, ConstantsAssumption DEF Token, PreciousKnown
<1>5. Owed'
  <2>1. SUFFICES ASSUME NEW t \in Precious', ~Kept(t)'
                 PROVE  \E q \in Process : \E i \in 1..Len(reply'[q]) :
                           reply'[q][i].kind # "welcome" /\ t \in InReply(reply'[q][i])
    BY DEF Owed, InReply
  <2>2. CASE t > minted
    BY <2>2 DEF Serves
  <2>3. CASE ~(t > minted)
    <3>1. t \in 1..minted
      BY <1>1, <1>4, <2>3
    <3>2. t \in Precious /\ ~Kept(t)
      BY <1>1, <1>3, <2>1, <3>1, OldOnly
    <3>3. PICK q \in Process : \E i \in 1..Len(reply[q]) :
             reply[q][i].kind # "welcome" /\ t \in InReply(reply[q][i])
      BY <3>2 DEF Retained, Owed
    <3>4. QED
      BY <3>3 DEF Serves
  <2>4. QED
    BY <2>2, <2>3
<1>6. Copies'
  <2>1. SUFFICES ASSUME NEW q \in Process, NEW t \in Precious', t = mem[q][about'[t].group].join
                 PROVE  Kept(t)'
    BY <1>2 DEF Copies, SavedIn
  <2>2. t \in 1..minted /\ t \in Precious /\ SavedIn(mem[q], t)
    BY <1>1, <2>1, OldOnly
  <2>3. QED
    BY <1>3, <2>2 DEF Retained, Copies
<1>7. Synced'
  <2>1. SUFFICES ASSUME NEW t \in Precious', t = file.records[about'[t].group].join
                 PROVE  \/ t = durable.records[about'[t].group].join
                        \/ \E q \in Process : t \in work'[q].fresh
                        \/ fate[t] # "none"
    BY <1>2 DEF Synced, SavedIn
  <2>2. t \in 1..minted /\ t \in Precious /\ SavedIn(file.records, t)
    BY <1>1, <2>1, OldOnly
  <2>3. SavedIn(durable.records, t) => t = durable.records[about'[t].group].join
    BY <1>1, <2>2, OldOnly
  <2>4. QED
    BY <2>2, <2>3 DEF Retained, Synced, Serves
<1>8. UpToDate'
  <2>1. SUFFICES ASSUME NEW q \in Process, pc'[q] # "off", q \notin stale,
                        NEW t \in Precious', t = file.records[about'[t].group].join
                 PROVE  t = mem[q][about'[t].group].join \/ fate[t] # "none"
    BY <1>2 DEF UpToDate, SavedIn
  <2>2. t \in 1..minted /\ t \in Precious /\ SavedIn(file.records, t)
    BY <1>1, <2>1, OldOnly
  <2>3. SavedIn(mem[q], t) => t = mem[q][about'[t].group].join
    BY <1>1, <2>2, OldOnly
  <2>4. pc[q] # "off"
    BY <2>1 DEF Serves
  <2>5. QED
    BY <2>1, <2>2, <2>3, <2>4 DEF Retained, UpToDate
<1>9. Arrives'
  <2>1. SUFFICES ASSUME NEW q \in Process, NEW t \in Precious', t \in work[q].fresh
                 PROVE  /\ pc'[q] \in {"save", "synced"} => t = mem[q][about'[t].group].join
                        /\ pc'[q] = "renamed" =>
                              t = file.records[about'[t].group].join \/ fate[t] # "none"
    BY <1>2 DEF Arrives, SavedIn, Serves
  <2>2. t \in 1..minted
    BY <2>1 DEF Sane, Structure, Local, Queue
  <2>3. t \in Precious
    BY <1>1, <2>2, OldOnly
  <2>4. SavedIn(mem[q], t) => t = mem[q][about'[t].group].join
    BY <1>1, <2>2, OldOnly
  <2>5. SavedIn(file.records, t) => t = file.records[about'[t].group].join
    BY <1>1, <2>2, OldOnly
  <2>6. /\ pc[q] \in {"save", "synced"} => SavedIn(mem[q], t)
        /\ pc[q] = "renamed" => SavedIn(file.records, t) \/ fate[t] # "none"
    BY <2>1, <2>3 DEF Retained, Arrives
  <2>7. pc'[q] = pc[q] \/ pc'[q] = "asked"
    BY DEF Serves
  <2>8. QED
    BY <2>4, <2>5, <2>6, <2>7
<1>10. QED
  BY <1>5, <1>6, <1>7, <1>8, <1>9 DEF Retained

\* A choice of a group.
LEMMA AskedServes ==
  ASSUME Sane, NEW p \in Process, NEW r \in Replies, Issues(p, r),
         pc[p] = "lobby" \/ pc[p] = "chat",
         \/ /\ pc' = [pc EXCEPT ![p] = "asked"]
            /\ \E w \in Work : w.fresh = {} /\ work' = [work EXCEPT ![p] = w]
         \/ UNCHANGED <<pc, work>>
  PROVE  Serves
<1>1. ProcessTyped
  BY TypedParts DEF Sane
<1>2. /\ reply' = [reply EXCEPT ![p] = Append(@, r)]
      /\ UNCHANGED <<file, durable, mem, stale, fate>>
      /\ \A t \in Precious' : t > minted => t \in InReply(r) /\ r.kind # "welcome"
  BY DEF Issues, diskVars
<1>3. reply[p] \in Seq(Replies) /\ reply'[p] = Append(reply[p], r)
      /\ \A q \in Process \ {p} : reply'[q] = reply[q]
  BY <1>1, <1>2 DEF ProcessTyped
<1>4. /\ Len(reply[p]) \in Nat
      /\ Len(Append(reply[p], r)) = Len(reply[p]) + 1
      /\ \A i \in 1..Len(reply[p]) : Append(reply[p], r)[i] = reply[p][i]
      /\ Append(reply[p], r)[Len(reply[p]) + 1] = r
  BY <1>3
<1>5. \A q \in Process : \A i \in 1..Len(reply[q]) :
         i \in 1..Len(reply'[q]) /\ reply'[q][i] = reply[q][i]
  <2>1. ASSUME NEW i \in 1..Len(reply[p])
        PROVE  i \in 1..Len(reply'[p]) /\ reply'[p][i] = reply[p][i]
    BY <1>3, <1>4
  <2>2. QED
    BY <1>3, <2>1
<1>6. \A t \in Precious' : t > minted =>
         \E q \in Process : \E i \in 1..Len(reply'[q]) :
            reply'[q][i].kind # "welcome" /\ t \in InReply(reply'[q][i])
  <2>1. Len(reply[p]) + 1 \in 1..Len(reply'[p]) /\ reply'[p][Len(reply[p]) + 1] = r
    BY <1>3, <1>4
  <2>2. QED
    BY <1>2, <2>1
<1>7. work[p].fresh = {} /\ pc[p] # "off"
  BY NoneFresh DEF Saving
<1>8. \A q \in Process : work'[q].fresh = work[q].fresh
  BY <1>1, <1>7 DEF ProcessTyped
<1>9. \A q \in Process : pc'[q] = pc[q] \/ (pc'[q] = "asked" /\ pc[q] # "off")
  BY <1>1, <1>7 DEF ProcessTyped
<1>10. QED
  BY <1>2, <1>5, <1>6, <1>8, <1>9 DEF Serves

\* All that the gateway does is of this kind.
LEMMA GatewayServes ==
  ASSUME Sane,
         \/ \E p \in Process : \E g \in Group : \E m \in Mode : CreateGroup(p, g, m)
         \/ \E p \in Process : \E g \in Group : \E t \in Token \cup {None, Shared} :
               JoinGroup(p, g, t)
         \/ \E p \in Process : RotateIdentity(p) \/ RotateInvite(p)
         \/ \E t \in Token : Approve(t)
  PROVE  Serves
<1>1. Typed /\ \A p \in Process : Local(p)
  BY DEF Sane, Structure
<1>2. ASSUME NEW p \in Process, NEW g \in Group, NEW m \in Mode, CreateGroup(p, g, m)
      PROVE  Serves
  <2>1. PICK r \in Replies : Issues(p, r)
    BY <1>1, <1>2, CreateIssues
  <2>2. PICK w : w = [Idle EXCEPT !.group = g]
    OBVIOUS
  <2>3. w \in Work /\ w.fresh = {}
    BY <2>2 DEF Idle, Work, None
  <2>4. /\ pc[p] = "lobby" /\ pc' = [pc EXCEPT ![p] = "asked"]
        /\ work' = [work EXCEPT ![p] = w]
    BY <1>2, <2>2 DEF CreateGroup, Ask
  <2>5. QED
    BY <2>1, <2>3, <2>4, AskedServes
<1>3. ASSUME NEW p \in Process, NEW g \in Group, NEW t \in Token \cup {None, Shared},
             JoinGroup(p, g, t)
      PROVE  Serves
  <2>1. PICK r \in Replies : Issues(p, r)
    BY <1>1, <1>3, JoinIssues
  <2>2. PICK w : w = [Idle EXCEPT !.group = g, !.supplied = t]
    OBVIOUS
  <2>3. w \in Work /\ w.fresh = {}
    BY <2>2 DEF Idle, Work, None
  <2>4. /\ pc[p] = "lobby" /\ pc' = [pc EXCEPT ![p] = "asked"]
        /\ work' = [work EXCEPT ![p] = w]
    BY <1>3, <2>2 DEF JoinGroup, Ask
  <2>5. QED
    BY <2>1, <2>3, <2>4, AskedServes
<1>4. ASSUME NEW p \in Process, RotateIdentity(p) \/ RotateInvite(p)
      PROVE  Serves
  <2>1. PICK r \in Replies : Issues(p, r)
    BY <1>1, <1>4, RotateIdentityIssues, RotateInviteIssues
  <2>2. pc[p] = "chat" /\ UNCHANGED <<pc, work>>
    BY <1>4 DEF RotateIdentity, RotateInvite, Ask
  <2>3. QED
    BY <2>1, <2>2, AskedServes
<1>5. ASSUME NEW t \in Token, Approve(t)
      PROVE  Serves
  <2>1. UNCHANGED <<diskVars, processVars, minted, current, fate>>
    BY <1>5 DEF Approve
  <2>2. \A u \in Precious' : ~(u > minted)
    <3>1. current \subseteq 1..minted /\ minted \in Nat
      BY <1>1, TypedParts DEF GatewayTyped
    <3>2. Precious' \subseteq current
      BY <2>1 DEF Precious
    <3>3. QED
      BY <3>1, <3>2
  <2>3. QED
    BY <2>1, <2>2 DEF Serves, diskVars, processVars
<1>6. QED
  BY <1>2, <1>3, <1>4, <1>5

-----------------------------------------------------------------------------
(* The theorem *)

\* At first there is no token to keep.
LEMMA InitRetained == Init => Retained
<1> SUFFICES ASSUME Init PROVE Retained
  OBVIOUS
<1>1. Precious = {}
  BY DEF Init, Precious
<1>2. QED
  BY <1>1 DEF Retained, Owed, Copies, Synced, UpToDate, Arrives

\* Every step keeps what is retained.
LEMMA RetainedStep == Sane /\ Retained /\ [Next]_vars => Retained'
<1> SUFFICES ASSUME Sane, Retained, [Next]_vars PROVE Retained'
  OBVIOUS
<1>1. Sane' /\ Grows
  BY SaneStep
<1>2. ASSUME NEW p \in Process, Calm(p) PROVE Retained'
  BY <1>1, <1>2, CalmRetains
<1>3. ASSUME NEW p \in Process,
             \/ Start(p) \/ Stop(p) \/ LeaveChat(p) \/ LoseReply(p)
             \/ ReadWelcome(p) \/ ReadPending(p) \/ PrintPending(p) \/ DropPending(p)
             \/ ReadRotated(p) \/ WriteTemporary(p)
             \/ SaveFails(p, "off") \/ SaveFails(p, "lobby")
             \/ (\E g \in Group : Forget(p, g)) \/ (\E t \in Token : Import(p, t))
      PROVE  Retained'
  <2>1. Calm(p)
    BY <1>3, StartCalm, StopCalm, LeaveCalm, LoseCalm, WelcomeCalm, PendingCalm,
       UnsavedPendingCalm, RotatedCalm, WriteCalm, FailCalm, UserCalm
  <2>2. QED
    BY <1>2, <2>1
<1>4. ASSUME NEW p \in Process, Rename(p) PROVE Retained'
  BY <1>4, RenameRetains
<1>5. ASSUME NEW p \in Process, SyncDirectory(p) PROVE Retained'
  BY <1>5, SyncRetains
<1>6. ASSUME PowerFailure \/ \E p \in Process : Crash(p) PROVE Retained'
  <2>1. PICK ps \in SUBSET Process :
               /\ Halt(ps)
               /\ \/ ps = Process /\ file' \in {file, durable} /\ durable' = file'
                  \/ UNCHANGED <<file, durable>>
    BY <1>6, CrashSane
  <2>2. QED
    BY <1>1, <2>1, HaltRetains
<1>7. ASSUME \/ \E p \in Process : \E g \in Group : \E m \in Mode : CreateGroup(p, g, m)
             \/ \E p \in Process : \E g \in Group : \E t \in Token \cup {None, Shared} :
                   JoinGroup(p, g, t)
             \/ \E p \in Process : RotateIdentity(p) \/ RotateInvite(p)
             \/ \E t \in Token : Approve(t)
      PROVE  Retained'
  <2>1. Serves
    BY <1>7, GatewayServes
  <2>2. QED
    BY <1>1, <2>1, ServesRetains
<1>8. CASE UNCHANGED vars
  <2>1. UNCHANGED <<minted, about, current, file, durable, mem, pc, work, reply, stale, fate>>
    BY <1>8 DEF vars, gatewayVars, diskVars, processVars
  <2>2. Serves
    <3>1. current \subseteq 1..minted /\ minted \in Nat
      BY TypedParts DEF Sane, GatewayTyped
    <3>2. \A u \in Precious' : ~(u > minted)
      BY <2>1, <3>1 DEF Precious
    <3>3. QED
      BY <2>1, <3>2 DEF Serves
  <2>3. QED
    BY <1>1, <2>2, ServesRetains
<1>9. CASE Next
  BY <1>3, <1>4, <1>5, <1>6, <1>7, <1>9 DEF Next
<1>10. QED
  BY <1>8, <1>9

(***************************************************************************)
(* Whatever the user's processes do at the same time, and whatever fails   *)
(* or crashes between two of their steps: as long as the gateway accepts   *)
(* the token of an identity, it is in credentials.json, on its way there,  *)
(* or its loss has one of the named reasons.                               *)
(***************************************************************************)
THEOREM TokenKeptCorrect == Spec => []TokenKept
<1>1. Sane /\ Retained => TokenKept
  <2>1. SUFFICES ASSUME Sane, Retained, NEW t \in Precious
                 PROVE  Safe(t) \/ fate[t] # "none"
    BY DEF TokenKept
  <2>2. CASE Kept(t)
    BY <2>2 DEF Kept, SavedIn, Safe
  <2>3. CASE ~Kept(t)
    <3>1. PICK q \in Process :
             \E i \in 1..Len(reply[q]) : reply[q][i].kind # "welcome" /\ t \in InReply(reply[q][i])
      BY <2>1, <2>3 DEF Retained, Owed
    <3>2. t \in InReplies(q)
      BY <2>1, <3>1, Unread
    <3>3. QED
      BY <3>2 DEF Safe
  <2>4. QED
    BY <2>2, <2>3
<1>2. Init => Sane /\ Retained
  BY InitSane, InitRetained
<1>3. (Sane /\ Retained) /\ [Next]_vars => (Sane /\ Retained)'
  BY SaneStep, RetainedStep
<1>4. QED
  BY <1>1, <1>2, <1>3, PTL DEF Spec
=============================================================================
