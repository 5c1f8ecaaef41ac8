----------------------------- MODULE Membership -----------------------------
(***************************************************************************)
(* Admission to one group of a gateway, and its revocation: the rows that  *)
(* the SQLite store keeps about members, tokens and join requests          *)
(* (storage.rs), the connection tasks that read them once and then cache   *)
(* what they read (server.rs: handle_client, enter_group), and the         *)
(* administrator's handlers that change them.                              *)
(*                                                                         *)
(* Every store call holds the one Mutex<Connection> (GatewayStore::run), so*)
(* a store call is one action.  Between two store calls, and between a     *)
(* store call and group.clients.lock(), every other task may run: those are*)
(* the points where an action ends.  require_admin only reads a role that a*)
(* session never changes, so it is part of the store call that follows it. *)
(*                                                                         *)
(* Tokens are numbers in the order they are minted (generate_credential    *)
(* draws 256 random bits: a new token equals no earlier one); a hash column*)
(* holds the token itself, since equal hashes mean equal tokens.           *)
(***************************************************************************)
EXTENDS Naturals, FiniteSets

CONSTANTS
    Session,      \* connection tasks; a slot is reused after it closes
    Member,       \* member_id values
    NoMember,
    AccessModes,  \* the access modes the group may be created with
    MaxMembers,   \* MAX_GROUP_MEMBERS
    MaxPending,   \* MAX_PENDING_JOIN_REQUESTS
    MaxTokens,    \* bound: tokens minted in a behaviour
    MaxCrashes    \* bound: gateway crashes in a behaviour

ASSUME ConstantsAssumption ==
    /\ IsFiniteSet(Member)
    /\ NoMember \notin Member
    /\ Member \cap {"unused", "admin", "invite", "request", "spent"} = {}
    /\ AccessModes \subseteq {"public", "invite", "approval"}
    /\ MaxMembers \in Nat \ {0}
    /\ MaxPending \in Nat \ {0}
    /\ MaxTokens \in Nat \ {0, 1}
    /\ MaxCrashes \in Nat

VARIABLES
    row,         \* table group_members
    adminToken,  \* groups.admin_token_hash
    inviteToken, \* groups.invite_token_hash
    request,     \* table join_requests, keyed by the request token
    group,       \* "none", "stored" (in SQLite only) or "listed" (in the map too)
    task,        \* the connection tasks and their entries in group.clients
    held,        \* tokens that have reached a client
    minted,      \* number of tokens generated so far
    crashes,
    mode         \* groups.access_mode, fixed when the group is created

storeVars == <<row, adminToken, inviteToken, request>>
vars == <<row, adminToken, inviteToken, request, group, task, held, minted, crashes, mode>>

Token == 1..MaxTokens
NoToken == 0
MaybeToken == 0..MaxTokens

Role == {"member", "admin"}
KickReason == {"banned", "rotated"}

(***************************************************************************)
(* A row of group_members.  origin is history: the credential that the     *)
(* client presented when the row was inserted.                             *)
(***************************************************************************)
Row == [status : {"absent", "active", "banned"}, role : Role,
        cred : MaybeToken, origin : MaybeToken]
NoRow == [status |-> "absent", role |-> "member", cred |-> NoToken, origin |-> NoToken]
ActiveRow(role, cred, origin) ==
    [status |-> "active", role |-> role, cred |-> cred, origin |-> origin]

(***************************************************************************)
(* A connection task.  pc says where it is:                                *)
(*   creating    create_group committed, group not yet in the map          *)
(*   requesting  authorize_join said ApprovalRequired                      *)
(*   authorized  authorize_join said Allowed, not yet in group.clients     *)
(*   registered  in group.clients, Welcome not yet written                 *)
(*   online      in the select! loop of enter_group                        *)
(*   sweeping    a ban is committed, its kicks are not yet sent            *)
(*   revoking    a rotation is committed, its kicks are not yet sent       *)
(* member and role are the task's cached copies.  parcel holds the tokens  *)
(* waiting to be written to the client (in Welcome or in the queue), fresh *)
(* the rotated token not yet queued, target the member being banned, kick  *)
(* the watch channel.  auth and missed are history: the token the task     *)
(* authenticated with, and the sweeps that looked for its member while it  *)
(* was authorized but not yet in group.clients.                            *)
(***************************************************************************)
PC == {"idle", "creating", "requesting", "authorized", "registered",
       "online", "sweeping", "revoking"}
Task == [pc : PC, member : Member \cup {NoMember}, role : Role,
         auth : MaybeToken, parcel : SUBSET MaybeToken, fresh : MaybeToken,
         target : Member \cup {NoMember}, kick : KickReason \cup {"none"},
         missed : SUBSET KickReason]
NewTask(pc, m, role, auth, parcel) ==
    [pc |-> pc, member |-> m, role |-> role, auth |-> auth, parcel |-> parcel,
     fresh |-> NoToken, target |-> NoMember, kick |-> "none", missed |-> {}]
NoTask == NewTask("idle", NoMember, "member", NoToken, {})

TypeOK ==
    /\ row \in [Member -> Row]
    /\ adminToken \in MaybeToken
    /\ inviteToken \in MaybeToken
    /\ request \in [Token -> {"none", "pending", "approved", "rejected"}]
    /\ group \in {"none", "stored", "listed"}
    /\ task \in [Session -> Task]
    /\ held \subseteq MaybeToken
    /\ minted \in MaybeToken
    /\ crashes \in 0..MaxCrashes
    /\ mode \in AccessModes

-----------------------------------------------------------------------------

Rows == {m \in Member : row[m].status # "absent"}
Pending == {t \in Token : request[t] = "pending"}

\* the session has an entry in group.clients
InClients(s) == task[s].pc \in {"registered", "online", "sweeping", "revoking"}

\* the session acts for a member, in group.clients or about to enter it
Admitted(s) == InClients(s) \/ task[s].pc = "authorized"

CanMint(n) == minted + n <= MaxTokens
NextToken == minted + 1

\* a member row that no entry uses yet; inserting needs one (Uuid::new_v4)
FreshMember(m) == row[m].status = "absent"

(***************************************************************************)
(* A database with no group, or one that an earlier schema left behind:    *)
(* version 2 groups keep their administrator and invite tokens and their   *)
(* requests but have no member rows, version 1 groups are public and have  *)
(* no token at all.                                                        *)
(***************************************************************************)
Init ==
    /\ row = [m \in Member |-> NoRow]
    /\ task = [s \in Session |-> NoTask]
    /\ crashes = 0
    /\ mode \in AccessModes
    /\ \/ /\ group = "none"
          /\ minted = 0 /\ adminToken = NoToken /\ inviteToken = NoToken
       \/ /\ group = "listed"
          /\ adminToken = 1
          /\ minted \in (IF mode = "public" THEN {1}
                        ELSE IF mode = "invite" THEN {2} ELSE {1, 2})
          /\ inviteToken = IF mode = "invite" THEN 2 ELSE NoToken
       \/ /\ group = "listed" /\ mode = "public"
          /\ minted = 0 /\ adminToken = NoToken /\ inviteToken = NoToken
    /\ held = 1..minted
    /\ \E status \in {"pending", "approved", "rejected"} :
          request = [t \in Token |->
                        IF mode = "approval" /\ t = 2 /\ minted = 2 THEN status ELSE "none"]

-----------------------------------------------------------------------------
(* Creating the group *)

\* CreateGroup: one transaction inserts the group and its administrator
CreateGroup(s) ==
    LET count == IF mode = "invite" THEN 2 ELSE 1
        issued == (minted + 1)..(minted + count)
    IN  /\ task[s].pc = "idle"
        /\ group = "none"
        /\ CanMint(count)
        /\ \E m \in Member :
              /\ FreshMember(m)
              /\ row' = [row EXCEPT ![m] = ActiveRow("admin", minted + 1, NoToken)]
              /\ task' = [task EXCEPT ![s] = NewTask("creating", m, "admin", minted + 1, issued)]
        /\ adminToken' = minted + 1
        /\ inviteToken' = IF mode = "invite" THEN minted + 2 ELSE NoToken
        /\ minted' = minted + count
        /\ group' = "stored"
        /\ UNCHANGED <<request, held, crashes, mode>>

\* groups.insert, then update_member_nickname, whose error drops the connection
PublishGroup(s) ==
    /\ task[s].pc = "creating"
    /\ group' = "listed"
    /\ \/ task' = [task EXCEPT ![s].pc = "authorized"]
       \/ task' = [task EXCEPT ![s] = NoTask]
    /\ UNCHANGED <<storeVars, held, minted, crashes, mode>>

-----------------------------------------------------------------------------
(* authorize_join *)

\* the client presents c, which it has, or no credential at all
Selects(s, c) ==
    /\ task[s].pc = "idle"
    /\ group = "listed"
    /\ c \in held \cup {NoToken}

\* a refusal, a pending request or an error of the store: the connection closes
RefuseJoin(s, c) ==
    /\ Selects(s, c)
    /\ UNCHANGED vars

NoRowHas(c) == \A m \in Rows : row[m].cred # c

\* variant: the status column is not looked at
AdmitKnownIgnoringBan(s, c) ==
    /\ Selects(s, c)
    /\ c # NoToken
    /\ \E m \in Rows :
          /\ row[m].cred = c
          /\ task' = [task EXCEPT ![s] = NewTask("authorized", m, row[m].role, c, {})]
    /\ UNCHANGED <<storeVars, group, held, minted, crashes, mode>>

\* a member's own token: an active row is let in, a banned one is refused
AdmitKnown(s, c) ==
    /\ Selects(s, c)
    /\ c # NoToken
    /\ \E m \in Rows :
          /\ row[m].cred = c
          /\ row[m].status # "banned"
          /\ task' = [task EXCEPT ![s] = NewTask("authorized", m, row[m].role, c, {})]
    /\ UNCHANGED <<storeVars, group, held, minted, crashes, mode>>

\* the administrator token of a migrated group, which has no row for it yet
AdmitMigratedAdmin(s, c) ==
    /\ Selects(s, c)
    /\ c # NoToken /\ NoRowHas(c) /\ c = adminToken
    /\ \E m \in Member :
          /\ FreshMember(m)
          /\ row' = [row EXCEPT ![m] = ActiveRow("admin", c, c)]
          /\ task' = [task EXCEPT ![s] = NewTask("authorized", m, "admin", c, {})]
    /\ UNCHANGED <<adminToken, inviteToken, request, group, held, minted, crashes, mode>>

\* variant: one row too many
HasRoomAtLimit == Cardinality(Rows) <= MaxMembers

\* issue_member below the limit, counting the rows of banned members too
HasRoom == Cardinality(Rows) < MaxMembers
InsertMember(m, c) ==
    /\ CanMint(1)
    /\ FreshMember(m)
    /\ row' = [row EXCEPT ![m] = ActiveRow("member", NextToken, c)]
    /\ minted' = NextToken

IssueMember(s, c) ==
    /\ HasRoom
    /\ \E m \in Member :
          /\ InsertMember(m, c)
          /\ task' = [task EXCEPT
                ![s] = NewTask("authorized", m, "member", NextToken, {NextToken})]

\* public: only without a credential; invite: only with the invite token
AdmitOpen(s, c) ==
    /\ Selects(s, c)
    /\ \/ mode = "public" /\ c = NoToken
       \/ mode = "invite" /\ c # NoToken /\ NoRowHas(c)
            /\ c # adminToken /\ c = inviteToken
    /\ IssueMember(s, c)
    /\ UNCHANGED <<adminToken, inviteToken, request, group, held, crashes, mode>>

ApprovedRequest(s, c) ==
    /\ Selects(s, c)
    /\ mode = "approval"
    /\ c # NoToken /\ NoRowHas(c) /\ c # adminToken
    /\ request[c] = "approved"

\* variant: the request is not deleted
RedeemKeepingRequest(s, c) ==
    /\ ApprovedRequest(s, c)
    /\ IssueMember(s, c)
    /\ UNCHANGED <<adminToken, inviteToken, request, group, held, crashes, mode>>

\* an approved request is exchanged for a membership and deleted
RedeemApproval(s, c) ==
    /\ ApprovedRequest(s, c)
    /\ IssueMember(s, c)
    /\ request' = [request EXCEPT ![c] = "none"]
    /\ UNCHANGED <<adminToken, inviteToken, group, held, crashes, mode>>

\* MemberLimit: no membership, and the approved request is deleted all the same
RedeemRefused(s, c) ==
    /\ ApprovedRequest(s, c)
    /\ ~HasRoom
    /\ request' = [request EXCEPT ![c] = "none"]
    /\ UNCHANGED <<row, adminToken, inviteToken, group, task, held, minted, crashes, mode>>

-----------------------------------------------------------------------------
(* Approval requests *)

\* ApprovalRequired: the task goes on to a second store call
AskApproval(s) ==
    /\ Selects(s, NoToken)
    /\ mode = "approval"
    /\ task' = [task EXCEPT ![s] = [NoTask EXCEPT !.pc = "requesting"]]
    /\ UNCHANGED <<storeVars, group, held, minted, crashes, mode>>

\* create_join_request, then JoinPending, which may fail to reach the client
CreateJoinRequest(s) ==
    /\ task[s].pc = "requesting"
    /\ task' = [task EXCEPT ![s] = NoTask]
    /\ \/ /\ Cardinality(Pending) < MaxPending
          /\ CanMint(1)
          /\ request' = [request EXCEPT ![NextToken] = "pending"]
          /\ minted' = NextToken
          /\ held' \in {held, held \cup {NextToken}}
       \/ UNCHANGED <<request, minted, held>>  \* the queue is full, or the store fails
    /\ UNCHANGED <<row, adminToken, inviteToken, group, crashes, mode>>

-----------------------------------------------------------------------------
(* enter_group *)

\* group.clients.insert
Register(s) ==
    /\ task[s].pc = "authorized"
    /\ task' = [task EXCEPT ![s].pc = "registered"]
    /\ UNCHANGED <<storeVars, group, held, minted, crashes, mode>>

\* the rooms and the history are read and Welcome reaches the client
Welcome(s) ==
    /\ task[s].pc = "registered"
    /\ task' = [task EXCEPT ![s] = [@ EXCEPT !.pc = "online", !.parcel = {}]]
    /\ held' = held \cup task[s].parcel
    /\ UNCHANGED <<storeVars, group, minted, crashes, mode>>

\* one of the reads or the write failed: the entry is removed
AbortWelcome(s) ==
    /\ task[s].pc = "registered"
    /\ task' = [task EXCEPT ![s] = NoTask]
    /\ UNCHANGED <<storeVars, group, held, minted, crashes, mode>>

\* select!, outbound branch: a queued GroupTokenRotated is written
DeliverToken(s) ==
    /\ task[s].pc = "online"
    /\ \E t \in task[s].parcel :
          /\ held' = held \cup {t}
          /\ task' = [task EXCEPT ![s].parcel = @ \ {t}]
    /\ UNCHANGED <<storeVars, group, minted, crashes, mode>>

\* select!, kick branch: the loop ends, and what is still queued is dropped
ObserveKick(s) ==
    /\ task[s].pc = "online"
    /\ task[s].kick # "none"
    /\ task' = [task EXCEPT ![s] = NoTask]
    /\ UNCHANGED <<storeVars, group, held, minted, crashes, mode>>

\* the connection ends for any other reason: read or write error, rate limit
Disconnect(s) ==
    /\ task[s].pc = "online"
    /\ task' = [task EXCEPT ![s] = NoTask]
    /\ UNCHANGED <<storeVars, group, held, minted, crashes, mode>>

-----------------------------------------------------------------------------
(* The administrator's handlers, and a member's own rotation *)

OnlineAdmin(s) == task[s].pc = "online" /\ task[s].role = "admin"

\* variant: UPDATE without its status = 'pending' test
DecideAgain(s, t, decision) ==
    /\ OnlineAdmin(s)
    /\ request[t] # "none"
    /\ request' = [request EXCEPT ![t] = decision]
    /\ UNCHANGED <<row, adminToken, inviteToken, group, task, held, minted, crashes, mode>>

\* variant: a status that the table's CHECK does not know
DecideUnknownStatus(s, t, decision) ==
    /\ OnlineAdmin(s)
    /\ request[t] = "pending"
    /\ request' = [request EXCEPT ![t] = "decided"]
    /\ UNCHANGED <<row, adminToken, inviteToken, group, task, held, minted, crashes, mode>>

\* UPDATE join_requests ... WHERE status = 'pending'
DecideJoinRequest(s, t, decision) ==
    /\ OnlineAdmin(s)
    /\ request[t] = "pending"
    /\ request' = [request EXCEPT ![t] = decision]
    /\ UNCHANGED <<row, adminToken, inviteToken, group, task, held, minted, crashes, mode>>

\* set_member_banned(true): the UPDATE skips administrators only
Bannable(m) == m \in Rows /\ row[m].role # "admin"

\* variant: a ban deletes the row
BanDeletingMember(s, m) ==
    /\ OnlineAdmin(s)
    /\ Bannable(m)
    /\ row' = [row EXCEPT ![m] = NoRow]
    /\ task' = [task EXCEPT ![s] = [@ EXCEPT !.pc = "sweeping", !.target = m]]
    /\ UNCHANGED <<adminToken, inviteToken, request, group, held, minted, crashes, mode>>

BanMember(s, m) ==
    /\ OnlineAdmin(s)
    /\ Bannable(m)
    /\ row' = [row EXCEPT ![m].status = "banned"]
    /\ task' = [task EXCEPT ![s] = [@ EXCEPT !.pc = "sweeping", !.target = m]]
    /\ UNCHANGED <<adminToken, inviteToken, request, group, held, minted, crashes, mode>>

UnbanMember(s, m) ==
    /\ OnlineAdmin(s)
    /\ Bannable(m)
    /\ row' = [row EXCEPT ![m].status = "active"]
    /\ UNCHANGED <<adminToken, inviteToken, request, group, task, held, minted, crashes, mode>>

\* variant: a session enters group.clients only once its Welcome is written
KickedOnline(m, except, reason) ==
    [s \in Session |->
        IF task[s].member # m \/ s \in except \/ ~InClients(s) \/ task[s].pc = "registered"
        THEN task[s] ELSE [task[s] EXCEPT !.kick = reason]]

(***************************************************************************)
(* Under group.clients.lock(): every entry of the member, but for the      *)
(* excepted session, gets the kick.  A task of the member that is          *)
(* authorized has no entry yet and is missed.                              *)
(***************************************************************************)
Kicked(m, except, reason) ==
    [s \in Session |->
        IF task[s].member # m \/ s \in except THEN task[s]
        ELSE IF InClients(s) THEN [task[s] EXCEPT !.kick = reason]
        ELSE IF task[s].pc = "authorized" THEN [task[s] EXCEPT !.missed = @ \cup {reason}]
        ELSE task[s]]

SweepBanned(s) ==
    /\ task[s].pc = "sweeping"
    /\ task' = [Kicked(task[s].target, {}, "banned") EXCEPT
                   ![s] = [@ EXCEPT !.pc = "online", !.target = NoMember]]
    /\ UNCHANGED <<storeVars, group, held, minted, crashes, mode>>

\* variant: without the status = 'active' test
CanRotateBanned(s, role) ==
    LET m == task[s].member
    IN  /\ task[s].pc = "online"
        /\ m \in Rows /\ row[m].role = role
        /\ CanMint(1)

\* rotate_group_token: the store demands an active row of the right role
CanRotate(s, role) ==
    LET m == task[s].member
    IN  /\ task[s].pc = "online"
        /\ m \in Rows /\ row[m].status = "active" /\ row[m].role = role
        /\ CanMint(1)

Revoking(s) ==
    [task EXCEPT ![s] = [@ EXCEPT !.pc = "revoking", !.auth = NextToken, !.fresh = NextToken]]

RotateMemberToken(s) ==
    /\ CanRotate(s, "member")
    /\ row' = [row EXCEPT ![task[s].member].cred = NextToken]
    /\ task' = Revoking(s)
    /\ minted' = NextToken
    /\ UNCHANGED <<adminToken, inviteToken, request, group, held, crashes, mode>>

\* variant: only the groups table is updated
RotateAdminGroupOnly(s) ==
    /\ task[s].role = "admin"
    /\ CanRotate(s, "admin")
    /\ adminToken' = NextToken
    /\ task' = Revoking(s)
    /\ minted' = NextToken
    /\ UNCHANGED <<row, inviteToken, request, group, held, crashes, mode>>

\* both tables, in one transaction
RotateAdminToken(s) ==
    /\ task[s].role = "admin"
    /\ CanRotate(s, "admin")
    /\ adminToken' = NextToken
    /\ row' = [row EXCEPT ![task[s].member].cred = NextToken]
    /\ task' = Revoking(s)
    /\ minted' = NextToken
    /\ UNCHANGED <<inviteToken, request, group, held, crashes, mode>>

\* send_to_client is try_send: a full queue drops the token
Queue(parcel, t) == {parcel, parcel \cup {t}}

\* the other sessions of the member are kicked, the new token is queued
RevokeOthers(s) ==
    /\ task[s].pc = "revoking"
    /\ \E parcel \in Queue(task[s].parcel, task[s].fresh) :
          task' = [Kicked(task[s].member, {s}, "rotated") EXCEPT
                      ![s] = [@ EXCEPT !.pc = "online", !.fresh = NoToken, !.parcel = parcel]]
    /\ UNCHANGED <<storeVars, group, held, minted, crashes, mode>>

\* the invite token has no sessions to revoke
RotateInviteToken(s) ==
    /\ mode = "invite"
    /\ task[s].role = "admin"
    /\ CanRotate(s, "admin")
    /\ inviteToken' = NextToken
    /\ minted' = NextToken
    /\ \E parcel \in Queue(task[s].parcel, NextToken) :
          task' = [task EXCEPT ![s].parcel = parcel]
    /\ UNCHANGED <<row, adminToken, request, group, held, crashes, mode>>

-----------------------------------------------------------------------------
(* A crash loses every task; a restart loads the groups from the store *)

LoseMemory ==
    /\ crashes < MaxCrashes
    /\ crashes' = crashes + 1
    /\ task' = [s \in Session |-> NoTask]

Crash ==
    /\ LoseMemory
    /\ group' = IF group = "none" THEN "none" ELSE "listed"
    /\ UNCHANGED <<storeVars, held, minted, mode>>

\* issue_member and the DELETE are two autocommit statements
CrashInRedeem(s, c) ==
    /\ ApprovedRequest(s, c)
    /\ HasRoom
    /\ \E m \in Member : InsertMember(m, c)
    /\ LoseMemory
    /\ UNCHANGED <<adminToken, inviteToken, request, group, held, mode>>

-----------------------------------------------------------------------------

Handshake(s) ==
    \/ CreateGroup(s) \/ PublishGroup(s)
    \/ AskApproval(s) \/ CreateJoinRequest(s)
    \/ \E c \in MaybeToken :
          \/ RefuseJoin(s, c)
          \/ AdmitKnown(s, c) \/ AdmitMigratedAdmin(s, c) \/ AdmitOpen(s, c)
          \/ RedeemApproval(s, c) \/ RedeemRefused(s, c)

EnterGroup(s) ==
    \/ Register(s) \/ Welcome(s) \/ AbortWelcome(s)
    \/ DeliverToken(s) \/ ObserveKick(s) \/ Disconnect(s)

Administer(s) ==
    \/ \E t \in Token, decision \in {"approved", "rejected"} : DecideJoinRequest(s, t, decision)
    \/ \E m \in Member : BanMember(s, m) \/ UnbanMember(s, m)
    \/ SweepBanned(s) \/ RevokeOthers(s)
    \/ RotateMemberToken(s) \/ RotateAdminToken(s) \/ RotateInviteToken(s)

Next ==
    \/ \E s \in Session : Handshake(s) \/ EnterGroup(s) \/ Administer(s)
    \/ Crash
    \/ \E s \in Session, c \in MaybeToken : CrashInRedeem(s, c)

Spec == Init /\ [][Next]_vars

(***************************************************************************)
(* tokio runs every ready task, and select! picks at random among its ready*)
(* branches: a step that stays ready is taken, and a kick that is ready    *)
(* each time the loop comes round is not passed over for ever.  The client *)
(* is assumed to read, since write_json has no timeout.                    *)
(***************************************************************************)
Fairness ==
    \A s \in Session :
        /\ WF_vars(PublishGroup(s))
        /\ WF_vars(Register(s))
        /\ WF_vars(Welcome(s) \/ AbortWelcome(s))
        /\ WF_vars(SweepBanned(s))
        /\ WF_vars(RevokeOthers(s))
        /\ SF_vars(ObserveKick(s))

FairSpec == Spec /\ Fairness

-----------------------------------------------------------------------------
(* Properties *)

(***************************************************************************)
(* There is never a second administrator row, and the one there is stays   *)
(* active and keeps the token that groups.admin_token_hash names: creation,*)
(* migration, rotation and ban each write only part of the three columns.  *)
(***************************************************************************)
OneAdministrator ==
    \A m \in Rows : row[m].role = "admin" =>
        /\ row[m].status = "active"
        /\ row[m].cred = adminToken
        /\ \A n \in Rows \ {m} : row[n].role # "admin"

(***************************************************************************)
(* What a live task cached from authorize_join is still what the store     *)
(* says: require_admin relies on it, as it never reads the store again.    *)
(***************************************************************************)
TaskAgreesWithRow ==
    \A s \in Session : task[s].pc \notin {"idle", "requesting"} =>
        /\ task[s].member \in Rows
        /\ task[s].role = row[task[s].member].role

(***************************************************************************)
(* The caps that issue_member and create_join_request test before they     *)
(* insert: no more members than MAX_GROUP_MEMBERS (the administrator of a  *)
(* migrated group comes on top), no more pending requests than the cap.    *)
(***************************************************************************)
WithinLimits ==
    /\ Cardinality({m \in Rows : row[m].role = "member"}) <= MaxMembers
    /\ Cardinality(Rows) <= MaxMembers + 1
    /\ Cardinality(Pending) <= MaxPending

(***************************************************************************)
(* An approved request admits one member; only a gateway crash between the *)
(* insertion of the member and the deletion of the request gives one more. *)
(***************************************************************************)
ApprovalAdmitsOnce ==
    mode = "approval" =>
        \A t \in Token : t # adminToken =>
            Cardinality({m \in Rows : row[m].origin = t /\ row[m].role = "member"}) <= 1 + crashes

\* s acts for a banned member
Banned(s) == Admitted(s) /\ row[task[s].member].status = "banned"

\* the token s authenticated with (or rotated to) is no longer its member's
Stale(s) == Admitted(s) /\ row[task[s].member].cred # task[s].auth

BanUnderWay(m) == \E a \in Session : task[a].pc = "sweeping" /\ task[a].target = m
RotationUnderWay(s) ==
    \E a \in Session \ {s} : task[a].pc = "revoking" /\ task[a].member = task[s].member

(***************************************************************************)
(* A session of a banned member is kicked or about to be, whatever the     *)
(* member, its other sessions and the administrators do meanwhile, unless  *)
(* it was between authorize_join and group.clients.insert when the kicks of*)
(* handle_set_member_banned were collected.                                *)
(***************************************************************************)
BanReachesSessions ==
    \A s \in Session : Banned(s) =>
        \/ task[s].kick # "none"
        \/ BanUnderWay(task[s].member)
        \/ "banned" \in task[s].missed

(***************************************************************************)
(* The same of a rotation: a session opened with a token that has been     *)
(* rotated away is kicked or about to be, with the same exception.         *)
(***************************************************************************)
RotationReachesSessions ==
    \A s \in Session : Stale(s) =>
        \/ task[s].kick # "none"
        \/ RotationUnderWay(s)
        \/ "rotated" \in task[s].missed

(***************************************************************************)
(* A banned member whose session has not seen its kick yet cannot renew the*)
(* token it will be let in with once the ban is lifted.                    *)
(***************************************************************************)
BannedKeepsCredential ==
    [][\A m \in Rows : row[m].status = "banned" => row'[m].cred = row[m].cred]_vars

(***************************************************************************)
(* A banned member's session ends, for any interleaving of its own and the *)
(* administrators' steps, unless the sweep missed it.                      *)
(***************************************************************************)
BannedSessionsEnd ==
    \A s \in Session : Banned(s) ~> (task[s].pc = "idle" \/ "banned" \in task[s].missed)

(***************************************************************************)
(* What each token stands for, as the abstract ledger of TokenLedger.tla.  *)
(***************************************************************************)
Bearer(t) ==
    IF t > minted THEN "unused"
    ELSE IF t = adminToken THEN "admin"
    ELSE IF t = inviteToken THEN "invite"
    ELSE IF request[t] \in {"pending", "approved"} THEN "request"
    ELSE IF NoRowHas(t) THEN "spent"
    ELSE CHOOSE m \in Rows : row[m].cred = t

Ledger == INSTANCE TokenLedger WITH bearer <- [t \in Token |-> Bearer(t)]

(***************************************************************************)
(* Every step mints, replaces, exchanges or spends tokens as the ledger    *)
(* allows: a token stands for one identity, an identity has one token, and *)
(* a token that was rotated, redeemed or rejected is never honoured again. *)
(***************************************************************************)
TokensFollowLedger == Ledger!Spec
=============================================================================
