--------------------------- MODULE CredentialFile ---------------------------
(***************************************************************************)
(* The tokens of one user: issued by gateways, kept in one JSON file       *)
(* (credentials.rs), read and written by every lan-chat process of that    *)
(* user (main.rs, tui.rs).                                                 *)
(*                                                                         *)
(* A process reads the whole file once, when it starts, changes its copy,  *)
(* and writes the whole copy back: a temporary file is written, synced and *)
(* renamed over the old one, then the directory is synced.  Nothing keeps  *)
(* two processes apart.  Processes and the machine may crash between any   *)
(* two of these steps, and each of them may fail.                          *)
(*                                                                         *)
(* The gateway is here what hands out tokens and accepts them; Membership  *)
(* is about it.  A token is the number of its generation.                  *)
(***************************************************************************)
EXTENDS Naturals, FiniteSets, Sequences

CONSTANTS
    Process,    \* slots for lan-chat processes of this user
    Group,      \* groups on the gateways, as pairs (gateway_id, group_id)
    NoGroup,
    MaxTokens,  \* bound: tokens generated
    MaxRequests, \* bound: what the user asks a process to do
    MaxFaults   \* bound: crashes, lost replies and failed saves

ASSUME ConstantsAssumption ==
    /\ IsFiniteSet(Process)
    /\ NoGroup \notin Group
    /\ MaxTokens \in Nat
    /\ MaxRequests \in Nat
    /\ MaxFaults \in Nat

VARIABLES
    mode,     \* access_mode of each group; "absent": not created yet
    minted,   \* tokens generated so far
    about,    \* what each of them is: its group, its kind, whose it is
    current,  \* the tokens that the gateway still accepts
    file,     \* credentials.json: its records, and whether its data has reached the disk
    durable,  \* what a power failure would leave of it
    mem,      \* records of each process's CredentialStore
    pc,       \* what each process is doing
    session,  \* the group and the identity it is chatting as, and whether that is the saved one
    work,     \* what its save is for
    reply,    \* the gateway's replies that it has not read yet
    stale,    \* history: processes whose copy another process's save has outrun
    fate,     \* history: why a token may be missing from the file
    requests, \* what the user has asked for so far
    faults    \* crashes, lost replies and failed saves so far

gatewayVars == <<mode, minted, about, current>>
diskVars == <<file, durable>>
processVars == <<mem, pc, session, work, reply, stale>>
vars == <<gatewayVars, diskVars, processVars, fate, requests, faults>>

Token == 1..MaxTokens
None == 0
Shared == MaxTokens + 1 \* an invite token that the user got from another member

\* StoredGroupCredential; a group without one has NoRecord
Record == [join : Token \cup {None}, invite : Token \cup {None}]
NoRecord == [join |-> None, invite |-> None]
Records == [Group -> Record]

Mode == {"public", "invite", "approval"}

\* admin, member  the token of an identity; who: the first token it had
\* invite         the shared invite token of a group
\* pending        a join request's token; approved: once an administrator said yes
Kind == {"admin", "member", "invite", "pending", "approved"}
About == [group : Group, kind : Kind, who : Token]

(***************************************************************************)
(* off      not running                                                    *)
(* lobby    running, in no group                                           *)
(* asked    its choice of a group is on its way to the gateway and back    *)
(* chat     in run_chat                                                    *)
(* save     its copy is changed; save() is about to write a temporary file *)
(* synced   save() has written and synced it                               *)
(* renamed  and renamed it over credentials.json                           *)
(***************************************************************************)
PC == {"off", "lobby", "asked", "chat", "save", "synced", "renamed"}
Saving == {"save", "synced", "renamed"}

\* told         an error message, or the terminal, showed it to the user
\* undelivered  its reply was lost, or a crash came before it was saved
\* hidden       it arrived, and an error came instead of saving or showing it
\* overwritten  another process wrote back a copy without it
\* renewed      a join that presented no token brought a new identity instead
\* dropped      the user forgot it or supplied another token in its place
Fate == {"none", "told", "undelivered", "hidden", "overwritten", "renewed", "dropped"}

Idle == [group |-> NoGroup, supplied |-> None, fresh |-> {}, after |-> "lobby"]

Replies == [kind : {"welcome", "issued", "member", "pending", "rotated", "invite"},
            join : Token \cup {None}, invite : Token \cup {None}]

TypeOK ==
    /\ mode \in [Group -> Mode \cup {"absent"}]
    /\ minted \in 0..MaxTokens
    /\ DOMAIN about = 1..minted /\ \A t \in 1..minted : about[t] \in About
    /\ current \subseteq 1..minted
    /\ {file.data, durable.data} \subseteq {"disk", "cache", "torn"}
    /\ {file.records, durable.records} \subseteq Records
    /\ mem \in [Process -> Records]
    /\ pc \in [Process -> PC]
    /\ session \in [Process -> [group : Group \cup {NoGroup}, who : Token \cup {None}, own : BOOLEAN]]
    /\ work \in [Process -> [group : Group \cup {NoGroup}, supplied : Token \cup {None, Shared}, fresh : SUBSET Token,
                             after : {"lobby", "chat"}]]
    /\ \A p \in Process : \A i \in DOMAIN reply[p] : reply[p][i] \in Replies
    /\ stale \subseteq Process
    /\ fate \in [Token -> Fate]
    /\ requests \in 0..MaxRequests /\ faults \in 0..MaxFaults

NoSession == [group |-> NoGroup, who |-> None, own |-> TRUE]
Empty == [g \in Group |-> NoRecord]

\* groups of other users exist already; the others are still to be created
Init ==
    /\ mode \in [Group -> Mode \cup {"absent"}]
    /\ minted = 0 /\ about = <<>> /\ current = {}
    /\ file = [records |-> Empty, data |-> "disk"] /\ durable = file
    /\ mem = [p \in Process |-> Empty]
    /\ pc = [p \in Process |-> "off"]
    /\ session = [p \in Process |-> NoSession]
    /\ work = [p \in Process |-> Idle]
    /\ reply = [p \in Process |-> <<>>]
    /\ stale = {}
    /\ fate = [t \in Token |-> "none"]
    /\ requests = 0 /\ faults = 0

TokensOf(record) == {record.join, record.invite} \ {None}
OnFile(f) == UNION {TokensOf(f.records[g]) : g \in Group}
InReply(r) == {r.join, r.invite} \ {None}
InReplies(p) == UNION {InReply(reply[p][i]) : i \in DOMAIN reply[p]}

\* the user asks process p, which is there to listen
Ask(p, where) ==
    /\ pc[p] = where
    /\ requests < MaxRequests /\ requests' = requests + 1

Fault == faults < MaxFaults /\ faults' = faults + 1

\* tokens that stand for an identity or may still become one
Identity(t) == t \in current /\ about[t].kind \in {"admin", "member"}
Precious == {t \in current : about[t].kind # "invite"}
Told == {t \in Precious : fate[t] = "told"}

\* the first reason is kept
Doomed(tokens, reason) ==
    [t \in Token |-> IF t \in tokens \cap Precious /\ fate[t] = "none" THEN reason ELSE fate[t]]

-----------------------------------------------------------------------------
(* the gateway's side: each reply commits before it is sent *)

Answer(p, r) == reply' = [reply EXCEPT ![p] = Append(@, r)]

\* generate_credential; old tokens stop being accepted
Mint(kinds, g, who, old) ==
    /\ minted + Len(kinds) <= MaxTokens
    /\ minted' = minted + Len(kinds)
    /\ about' = about \o [i \in DOMAIN kinds |->
                   [group |-> g, kind |-> kinds[i],
                    who |-> IF who = None THEN minted + i ELSE who]]
    /\ current' = (current \ old) \cup (minted + 1)..(minted + Len(kinds))

\* CreateGroup: administrator token and, in an invite group, invite token
CreateGroup(p, g, m) ==
    /\ Ask(p, "lobby") /\ mode[g] = "absent"
    /\ mode' = [mode EXCEPT ![g] = m]
    /\ Mint(IF m = "invite" THEN <<"admin", "invite">> ELSE <<"admin">>, g, None, {})
    /\ Answer(p, [kind |-> "issued", join |-> minted + 1,
                  invite |-> IF m = "invite" THEN minted + 2 ELSE None])
    /\ pc' = [pc EXCEPT ![p] = "asked"]
    /\ work' = [work EXCEPT ![p] = [Idle EXCEPT !.group = g]]
    /\ UNCHANGED <<diskVars, mem, session, stale, fate, faults>>

\* What a join of g presents: the saved token, a token the user types
\* (--credential, or the invite prompt when nothing is saved), and nothing when
\* the group is not named (client::connect, for a gateway with one group)
Presented(p, g) == {mem[p][g].join, None, Shared} \cup (current \cap (Told \cup OnFile(file)))

\* authorize_join accepts t as it is, or issues a member token for it
Accepts(t, g) == Identity(t) /\ about[t].group = g
Redeems(t, g) ==
    \/ mode[g] = "public" /\ t = None
    \/ mode[g] = "invite" /\ t = Shared
    \/ t \in current /\ about[t].group = g /\ about[t].kind \in {"invite", "approved"}
StillPending(t, g) == t \in current /\ about[t].group = g /\ about[t].kind = "pending"

\* JoinGroup, and what handle_client makes of it; a refusal changes nothing
JoinGroup(p, g, t) ==
    /\ Ask(p, "lobby") /\ mode[g] # "absent"
    /\ t \in Presented(p, g)
    /\ \/ /\ Accepts(t, g)
          /\ Answer(p, [kind |-> "welcome", join |-> t, invite |-> None])
          /\ UNCHANGED <<minted, about, current>>
       \/ /\ Redeems(t, g)
          /\ Mint(<<"member">>, g, None, {u \in {t} \cap current : about[u].kind = "approved"})
          /\ Answer(p, [kind |-> "member", join |-> minted + 1, invite |-> None])
       \/ /\ mode[g] = "approval" /\ t = None
          /\ Mint(<<"pending">>, g, None, {})
          /\ Answer(p, [kind |-> "pending", join |-> minted + 1, invite |-> None])
       \/ /\ StillPending(t, g)
          /\ Answer(p, [kind |-> "pending", join |-> t, invite |-> None])
          /\ UNCHANGED <<minted, about, current>>
    /\ pc' = [pc EXCEPT ![p] = "asked"]
    /\ work' = [work EXCEPT ![p] = [Idle EXCEPT !.group = g, !.supplied = t]]
    /\ UNCHANGED <<mode, diskVars, mem, session, stale, fate, faults>>

\* an administrator approves a join request
Approve(t) ==
    /\ t \in current /\ about[t].kind = "pending"
    /\ about' = [about EXCEPT ![t].kind = "approved"]
    /\ UNCHANGED <<mode, minted, current, diskVars, processVars, fate, requests, faults>>

\* RotateGroupToken of the session's own token: member or administrator
RotateIdentity(p) ==
    LET s == session[p]
        old == {t \in current : about[t].who = s.who}
    IN  /\ Ask(p, "chat")
        /\ Mint(<<about[s.who].kind>>, s.group, s.who, old)
        /\ Answer(p, [kind |-> "rotated", join |-> minted + 1, invite |-> None])
        /\ UNCHANGED <<mode, diskVars, mem, pc, session, work, stale, fate, faults>>

\* RotateGroupToken of the shared invite token, by the administrator
RotateInvite(p) ==
    LET g == session[p].group
        old == {t \in current : about[t].group = g /\ about[t].kind = "invite"}
    IN  /\ Ask(p, "chat") /\ mode[g] = "invite" /\ about[session[p].who].kind = "admin"
        /\ Mint(<<"invite">>, g, None, old)
        /\ Answer(p, [kind |-> "invite", join |-> None, invite |-> minted + 1])
        /\ UNCHANGED <<mode, diskVars, mem, pc, session, work, stale, fate, faults>>

\* a full queue, a failed Welcome, or a broken connection: the reply never comes
LoseReply(p) ==
    /\ reply[p] # <<>>
    /\ Fault
    /\ fate' = Doomed(InReply(Head(reply[p])), "undelivered")
    /\ reply' = [reply EXCEPT ![p] = Tail(@)]
    /\ pc' = [pc EXCEPT ![p] = IF @ = "asked" THEN "lobby" ELSE @]
    /\ UNCHANGED <<gatewayVars, diskVars, mem, session, work, stale, requests>>

-----------------------------------------------------------------------------
(* a lan-chat process *)

\* open_at: the whole file is read, and refused when it does not parse
Start(p) ==
    /\ pc[p] = "off" /\ file.data # "torn"
    /\ pc' = [pc EXCEPT ![p] = "lobby"]
    /\ mem' = [mem EXCEPT ![p] = file.records]
    /\ UNCHANGED <<gatewayVars, diskVars, session, work, reply, stale, fate, requests, faults>>

\* set and remove: the copy is changed before it is saved.  A token that the new
\* record does not hold any more is lost for the reason given, if there is one.
Change(p, g, record, reason) ==
    /\ mem' = [mem EXCEPT ![p][g] = record]
    /\ fate' = Doomed(TokensOf(mem[p][g]) \ TokensOf(record), reason)
    /\ pc' = [pc EXCEPT ![p] = "save"]

\* variant: every token that arrives is taken for the user's own
JoinOnly(record, r) == [record EXCEPT !.join = IF r.join # None THEN r.join ELSE r.invite]

\* persist_connection_credentials and persist_rotated_token: the new record
NewRecord(record, r) ==
    CASE r.kind = "pending" -> [join |-> r.join, invite |-> None]
      [] r.kind = "issued" -> [join |-> r.join, invite |-> r.invite]
      [] r.kind \in {"member", "rotated"} -> [record EXCEPT !.join = r.join]
      [] r.kind = "invite" -> [record EXCEPT !.invite = r.invite]

\* variant: a token that the user supplied is never saved
IssuedOnly(p, r) == r.kind = "welcome"

\* a supplied token is saved when nothing is saved for its group
NothingToSave(p, r) ==
    r.kind = "welcome" /\ (work[p].supplied = None \/ mem[p][work[p].group] # NoRecord)

WelcomeRecord(p, r) ==
    IF r.kind = "welcome" THEN [join |-> work[p].supplied, invite |-> None]
    ELSE NewRecord(mem[p][work[p].group], r)

\* Welcome: save what the gateway issued, or a supplied token that nothing is
\* saved for; then run_chat.  Its error carries the issued tokens.
ReadWelcome(p) ==
    LET r == Head(reply[p])
        w == work[p]
    IN  /\ pc[p] = "asked" /\ reply[p] # <<>> /\ r.kind # "pending"
        /\ session' = [session EXCEPT ![p] =
               [group |-> w.group, who |-> about[r.join].who,
                own |-> r.kind # "welcome" \/ mem[p][w.group].join \in {None, w.supplied}]]
        /\ reply' = [reply EXCEPT ![p] = Tail(@)]
        /\ IF NothingToSave(p, r)
           THEN /\ pc' = [pc EXCEPT ![p] = "chat"]
                /\ work' = [work EXCEPT ![p] = Idle]
                /\ UNCHANGED <<mem, fate>>
           ELSE /\ Change(p, w.group, WelcomeRecord(p, r),
                          CASE w.supplied = mem[p][w.group].join -> "none"
                            [] w.supplied = None -> "renewed"
                            [] OTHER -> "dropped")
                /\ work' = [work EXCEPT ![p] = [Idle EXCEPT !.group = w.group,
                                         !.fresh = InReply(r), !.after = "chat"]]
        /\ UNCHANGED <<gatewayVars, diskVars, stale, requests, faults>>

\* JoinPending in the lobby, which presented what was saved: the request token is saved; the error of a failed
\* save ends the program and does not show it
ReadPending(p) ==
    LET r == Head(reply[p]) IN
    /\ pc[p] = "asked" /\ reply[p] # <<>> /\ r.kind = "pending"
    /\ work[p].supplied = mem[p][work[p].group].join
    /\ Change(p, work[p].group, NewRecord(NoRecord, r), "none")
    /\ work' = [work EXCEPT ![p] = [Idle EXCEPT !.fresh = InReply(r)]]
    /\ reply' = [reply EXCEPT ![p] = Tail(@)]
    /\ UNCHANGED <<gatewayVars, diskVars, session, stale, requests, faults>>

\* JoinPending in `lan-chat join`: printed, not saved
PrintPending(p) ==
    LET r == Head(reply[p]) IN
    /\ pc[p] = "asked" /\ reply[p] # <<>> /\ r.kind = "pending"
    /\ fate' = Doomed(InReply(r), "told")
    /\ pc' = [pc EXCEPT ![p] = "off"]
    /\ mem' = [mem EXCEPT ![p] = Empty]
    /\ stale' = stale \ {p}
    /\ work' = [work EXCEPT ![p] = Idle]
    /\ reply' = [reply EXCEPT ![p] = Tail(@)]
    /\ UNCHANGED <<gatewayVars, diskVars, session, requests, faults>>

\* JoinPending after a join that named no group (client::connect): an error, and
\* the request token is thrown away
DropPending(p) ==
    LET r == Head(reply[p]) IN
    /\ pc[p] = "asked" /\ reply[p] # <<>> /\ r.kind = "pending" /\ work[p].supplied = None
    /\ fate' = Doomed(InReply(r), "hidden")
    /\ pc' = [pc EXCEPT ![p] = "lobby"]
    /\ work' = [work EXCEPT ![p] = Idle]
    /\ reply' = [reply EXCEPT ![p] = Tail(@)]
    /\ UNCHANGED <<gatewayVars, diskVars, mem, session, stale, requests, faults>>

\* GroupTokenRotated in run_chat: saved before it is shown; without a record
\* run_chat fails and nobody sees the token, nor what was still unread
ReadRotated(p) ==
    LET r == Head(reply[p])
        g == session[p].group
    IN  /\ pc[p] = "chat" /\ reply[p] # <<>>
        /\ IF mem[p][g] = NoRecord
           THEN /\ fate' = Doomed(InReplies(p), "hidden")
                /\ reply' = [reply EXCEPT ![p] = <<>>]
                /\ pc' = [pc EXCEPT ![p] = "lobby"]
                /\ session' = [session EXCEPT ![p] = NoSession]
                /\ UNCHANGED <<mem, work>>
           ELSE /\ Change(p, g, NewRecord(mem[p][g], r),
                          IF session[p].own THEN "none" ELSE "dropped")
                /\ work' = [work EXCEPT ![p] = [Idle EXCEPT !.group = g, !.fresh = InReply(r),
                                                           !.after = "chat"]]
                /\ reply' = [reply EXCEPT ![p] = Tail(@)]
                /\ UNCHANGED session
        /\ UNCHANGED <<gatewayVars, diskVars, stale, requests, faults>>

\* the user leaves the chat, or the connection ends; unread replies are gone
LeaveChat(p) ==
    /\ pc[p] = "chat"
    /\ pc' = [pc EXCEPT ![p] = "lobby"]
    /\ session' = [session EXCEPT ![p] = NoSession]
    /\ work' = [work EXCEPT ![p] = Idle]
    /\ fate' = Doomed(InReplies(p), "undelivered")
    /\ reply' = [reply EXCEPT ![p] = <<>>]
    /\ UNCHANGED <<gatewayVars, diskVars, mem, stale, requests, faults>>

\* ForgetCredential in the lobby, `lan-chat credentials remove`
Forget(p, g) ==
    /\ Ask(p, "lobby") /\ mem[p][g] # NoRecord
    /\ Change(p, g, NoRecord, "dropped")
    /\ work' = [work EXCEPT ![p] = Idle]
    /\ UNCHANGED <<gatewayVars, diskVars, session, reply, stale, faults>>

\* `lan-chat credentials set`, with a token that the user was told
Import(p, t) ==
    LET g == about[t].group IN
    /\ Ask(p, "lobby") /\ t \in Told
    /\ Change(p, g, [join |-> t, invite |-> None], "dropped")
    /\ work' = [work EXCEPT ![p] = Idle]
    /\ UNCHANGED <<gatewayVars, diskVars, session, reply, stale, faults>>

Stop(p) ==
    /\ pc[p] = "lobby"
    /\ pc' = [pc EXCEPT ![p] = "off"]
    /\ mem' = [mem EXCEPT ![p] = Empty]
    /\ stale' = stale \ {p}
    /\ UNCHANGED <<gatewayVars, diskVars, session, work, reply, fate, requests, faults>>

-----------------------------------------------------------------------------
(* CredentialStore::save *)

Step(p, from, to) == pc[p] = from /\ pc' = [pc EXCEPT ![p] = to]

\* variant: credentials.json itself is opened for writing
WriteInPlace(p) ==
    /\ Step(p, "save", "synced")
    /\ file' = [records |-> mem[p], data |-> "cache"]
    /\ UNCHANGED <<gatewayVars, durable, mem, session, work, reply, stale, fate, requests, faults>>

\* a temporary file of its own is created, written and synced
WriteTemporary(p) ==
    /\ Step(p, "save", "synced")
    /\ UNCHANGED <<gatewayVars, diskVars, mem, session, work, reply, stale, fate, requests, faults>>

\* readers see the new file from here on; a power failure may still undo it
Rename(p) ==
    /\ Step(p, "synced", "renamed")
    /\ file' = [records |-> mem[p], data |-> "disk"]
    /\ stale' = stale \cup {q \in Process \ {p} : pc[q] # "off"}
    /\ fate' = IF p \in stale THEN Doomed(OnFile(file) \ OnFile(file'), "overwritten") ELSE fate
    /\ UNCHANGED <<gatewayVars, durable, mem, session, work, reply, requests, faults>>

\* what follows a save, done or failed
Return(p, to) ==
    /\ pc' = [pc EXCEPT ![p] = to]
    /\ session' = [session EXCEPT ![p] = IF to = "chat" THEN @ ELSE NoSession]
    /\ work' = [work EXCEPT ![p] = Idle]
    /\ mem' = [mem EXCEPT ![p] = IF to = "off" THEN Empty ELSE @]
    /\ stale' = IF to = "off" THEN stale \ {p} ELSE stale

\* the directory is synced; save returns
SyncDirectory(p) ==
    /\ pc[p] = "renamed"
    /\ durable' = file
    /\ Return(p, work[p].after)
    /\ UNCHANGED <<gatewayVars, file, reply, fate, requests, faults>>

\* any step of save fails: the temporary file is removed, the copy stays as it
\* is; on the way to a chat and in one the error shows the token, elsewhere it
\* does not.  The connection ends with it, and its unread replies are gone.
SaveFails(p, to) ==
    LET w == work[p] IN
    /\ pc[p] \in Saving
    /\ Fault
    /\ to = "lobby" => w.after = "chat"
    /\ fate' = [t \in Token |->
                   IF t \in w.fresh
                   THEN Doomed(w.fresh, IF w.after = "chat" THEN "told" ELSE "hidden")[t]
                   ELSE Doomed(InReplies(p), "undelivered")[t]]
    /\ reply' = [reply EXCEPT ![p] = <<>>]
    /\ Return(p, to)
    /\ UNCHANGED <<gatewayVars, diskVars, requests>>

-----------------------------------------------------------------------------
(* crashes *)

Halt(ps) ==
    /\ Fault
    /\ pc' = [p \in Process |-> IF p \in ps THEN "off" ELSE pc[p]]
    /\ mem' = [p \in Process |-> IF p \in ps THEN Empty ELSE mem[p]]
    /\ session' = [p \in Process |-> IF p \in ps THEN NoSession ELSE session[p]]
    /\ work' = [p \in Process |-> IF p \in ps THEN Idle ELSE work[p]]
    /\ reply' = [p \in Process |-> IF p \in ps THEN <<>> ELSE reply[p]]
    /\ fate' = Doomed({t \in Token : \E p \in ps : t \in InReplies(p) \cup work[p].fresh},
                      "undelivered")
    /\ stale' = stale \ ps
    /\ UNCHANGED <<gatewayVars, requests>>

\* a process is killed; the operating system keeps what it wrote
Crash(p) == pc[p] # "off" /\ Halt({p}) /\ UNCHANGED diskVars

\* the machine loses power: a rename may be undone, unsynced data are lost
PowerFailure ==
    /\ Halt(Process)
    /\ file' \in {durable, [file EXCEPT !.data = IF @ = "cache" THEN "torn" ELSE @]}
    /\ durable' = file'

Next ==
    \/ \E p \in Process :
         \/ Start(p) \/ Stop(p) \/ LeaveChat(p) \/ LoseReply(p)
         \/ ReadWelcome(p) \/ ReadPending(p) \/ PrintPending(p) \/ DropPending(p) \/ ReadRotated(p)
         \/ RotateIdentity(p) \/ RotateInvite(p)
         \/ WriteTemporary(p) \/ Rename(p) \/ SyncDirectory(p)
         \/ SaveFails(p, "off") \/ SaveFails(p, "lobby") \/ Crash(p)
         \/ \E g \in Group : \E m \in Mode : CreateGroup(p, g, m)
         \/ \E g \in Group : \E t \in Token \cup {None, Shared} : JoinGroup(p, g, t)
         \/ \E g \in Group : Forget(p, g)
         \/ \E t \in Token : Import(p, t)
    \/ \E t \in Token : Approve(t)
    \/ PowerFailure

Spec == Init /\ [][Next]_vars

-----------------------------------------------------------------------------
(* Properties *)

\* Whatever step of save a crash or a power failure hits, credentials.json is
\* one of the files that were written, never half of one: open_at refuses a file
\* that does not parse, and every token would be gone at once.
FileIsWhole == TypeOK /\ "torn" \notin {file.data, durable.data}

Safe(t) ==
    \/ t = file.records[about[t].group].join
    \/ \E p \in Process : t \in InReplies(p) \cup work[p].fresh

\* The token of an identity exists once: if it is lost, so is the membership, or
\* the administration of the group.  As long as the gateway accepts it, it is in
\* the file, on the user's screen or on its way there.  Each exception is a loss
\* with a name (Fate), and a process that is alone causes none but by a crash, a
\* lost reply or the user's own doing.
TokenKept == \A t \in Precious : Safe(t) \/ fate[t] # "none"

\* A rotation finds the record it is to change: in a chat, the process's copy
\* holds a token for this very group, or run_chat would end and drop the new one.
\* It is a token of the session's own identity, which the rotated one may replace,
\* unless the user came with another token than the saved one.
RecordInChat ==
    \A p \in Process : pc[p] = "chat" =>
        LET join == mem[p][session[p].group].join
        IN  /\ join # None /\ about[join].group = session[p].group
            /\ session[p].own => about[join].who = session[p].who

\* SECURITY.md:30-33: a member that reconnects keeps its member identity.
ReconnectKeepsIdentity == \A t \in 1..minted : Identity(t) => fate[t] # "renewed"

=============================================================================
