-------------------------- MODULE MembershipProofs --------------------------
(***************************************************************************)
(* That Membership is correct, for all constants: first its tasks, then    *)
(* its tables, how many rows they have and whose tokens they hold, and     *)
(* last that the tables implement TokenLedger.                             *)
(***************************************************************************)
EXTENDS Membership, FiniteSetTheorems, TLAPS

-----------------------------------------------------------------------------
(* The tasks *)

\* A task record built by NewTask from values of the right domains is one of Task.
LEMMA NewTaskType ==
    ASSUME NEW p \in PC, NEW m \in Member \cup {NoMember}, NEW r \in Role,
           NEW a \in MaybeToken, NEW q \in SUBSET MaybeToken
    PROVE  NewTask(p, m, r, a, q) \in Task
  BY ConstantsAssumption
  DEF NewTask, Task, MaybeToken, NoToken

\* An idle task is one of Task, and so is one that is about to ask for approval.
LEMMA NoTaskType == NoTask \in Task /\ [NoTask EXCEPT !.pc = "requesting"] \in Task
<1>1. NoTask \in Task
  BY NewTaskType, ConstantsAssumption DEF NoTask, PC, Role, MaybeToken, NoToken
<1>2. QED
  BY <1>1 DEF Task, PC

\* Kicking the sessions of a member leaves every task a task.
LEMMA KickedType ==
    ASSUME task \in [Session -> Task], NEW m, NEW e, NEW k \in KickReason
    PROVE  Kicked(m, e, k) \in [Session -> Task]
<1>1. ASSUME NEW s \in Session
      PROVE  /\ task[s] \in Task
             /\ [task[s] EXCEPT !.kick = k] \in Task
             /\ [task[s] EXCEPT !.missed = @ \cup {k}] \in Task
  BY DEF Task
<1>2. QED
  BY <1>1 DEF Kicked

\* A row of an admitted member, and a row with a new credential, are rows.
LEMMA RowType ==
    ASSUME NEW r \in Row, NEW o \in Role, NEW c \in MaybeToken, NEW d \in MaybeToken,
           NEW u \in {"active", "banned"}
    PROVE  /\ ActiveRow(o, c, d) \in Row
           /\ [r EXCEPT !.cred = c] \in Row
           /\ [r EXCEPT !.status = u] \in Row
  BY DEF Row, ActiveRow

\* What the handlers write into a task leaves it a task.
LEMMA TaskUpdates ==
    ASSUME NEW t \in Task, NEW p \in PC, NEW q \in SUBSET MaybeToken,
           NEW m \in Member \cup {NoMember}, NEW a \in MaybeToken
    PROVE  /\ [t EXCEPT !.pc = p] \in Task
           /\ [t EXCEPT !.pc = p, !.parcel = q] \in Task
           /\ [t EXCEPT !.pc = p, !.target = m] \in Task
           /\ [t EXCEPT !.pc = p, !.fresh = a, !.parcel = q] \in Task
           /\ [t EXCEPT !.pc = p, !.auth = a, !.fresh = a] \in Task
<1>1. [t EXCEPT !.pc = p] \in Task
  BY DEF Task
<1>2. [t EXCEPT !.pc = p, !.parcel = q] \in Task
  BY DEF Task
<1>3. [t EXCEPT !.pc = p, !.target = m] \in Task
  BY DEF Task
<1>4. [t EXCEPT !.pc = p, !.fresh = a, !.parcel = q] \in Task
  BY DEF Task
<1>5. [t EXCEPT !.pc = p, !.auth = a, !.fresh = a] \in Task
  BY DEF Task
<1>6. QED
  BY <1>1, <1>2, <1>3, <1>4, <1>5

\* The fields of a task and of a row.
LEMMA FieldTypes ==
    /\ \A t \in Task :
          /\ t.pc \in PC /\ t.role \in Role
          /\ t.member \in Member \cup {NoMember} /\ t.target \in Member \cup {NoMember}
          /\ t.auth \in MaybeToken /\ t.fresh \in MaybeToken /\ t.parcel \in SUBSET MaybeToken
    /\ \A r \in Row : r.role \in Role /\ r.cred \in MaybeToken
  BY DEF Task, Row

\* A token that may be minted is a token, and tokens may be absent.
LEMMA MintType ==
    ASSUME minted \in MaybeToken, CanMint(1)
    PROVE  NextToken \in Token /\ NextToken \in MaybeToken /\ NextToken = minted + 1
  BY ConstantsAssumption DEF MaybeToken, Token, CanMint, NextToken

-----------------------------------------------------------------------------

(***************************************************************************)
(* Every transition of the store, the gateway's memory and the connection  *)
(* tasks keeps every column and field within its domain: in particular no  *)
(* rotation, redemption or crash leaves a dangling member or status.       *)
(***************************************************************************)
THEOREM TypeCorrect == Spec => []TypeOK
<1> USE ConstantsAssumption
<1>1. Init => TypeOK
  <2> SUFFICES ASSUME Init PROVE TypeOK
    OBVIOUS
  <2>1. NoRow \in Row
    BY DEF NoRow, Row, Role, MaybeToken, NoToken
  <2>2. minted \in {0, 1, 2} /\ {0, 1, 2} \subseteq MaybeToken /\ 1..minted \subseteq MaybeToken
    BY DEF Init, MaybeToken, Token
  <2>3. QED
    BY <2>1, <2>2, NoTaskType DEF Init, TypeOK, MaybeToken, NoToken, Token
<1>2. TypeOK /\ [Next]_vars => TypeOK'
  <2> SUFFICES ASSUME TypeOK, [Next]_vars PROVE TypeOK'
    OBVIOUS
  <2> USE DEF TypeOK, storeVars
  <2>a. \A s \in Session : task[s] \in Task
    OBVIOUS
  <2>b. \A m \in Member : row[m] \in Row
    OBVIOUS
  <2>c. NoToken \in MaybeToken /\ 0 \in MaybeToken /\ 1 \in Token /\ 1 \in MaybeToken
    BY DEF MaybeToken, NoToken, Token
  <2>d. /\ \A p \in {"idle", "creating", "requesting", "authorized", "registered",
                     "online", "sweeping", "revoking"} : p \in PC
        /\ \A r \in {"member", "admin"} : r \in Role
        /\ \A k \in {"banned", "rotated"} : k \in KickReason
    BY DEF PC, Role, KickReason
  <2>e. \A t \in Token : t \in MaybeToken
    BY DEF MaybeToken, Token
  <2>1. ASSUME NEW s \in Session, Handshake(s) PROVE TypeOK'
    <3>1. CASE CreateGroup(s)
      <4> DEFINE count == IF mode = "invite" THEN 2 ELSE 1
      <4>1. /\ minted + 1 \in Token
            /\ minted + count \in Token
            /\ mode = "invite" => minted + 2 \in Token
            /\ (minted + 1)..(minted + count) \in SUBSET MaybeToken
        BY <3>1 DEF CreateGroup, CanMint, Token, MaybeToken
      <4>2. PICK m \in Member :
               /\ row' = [row EXCEPT ![m] = ActiveRow("admin", minted + 1, NoToken)]
               /\ task' = [task EXCEPT ![s] = NewTask("creating", m, "admin", minted + 1,
                                                     (minted + 1)..(minted + count))]
        BY <3>1 DEF CreateGroup
      <4>3. row' \in [Member -> Row]
        BY <4>1, <4>2, <2>b, <2>c, <2>d, <2>e, RowType
      <4>4. task' \in [Session -> Task]
        BY <4>1, <4>2, <2>c, <2>d, <2>e, NewTaskType
      <4>5. QED
        BY <3>1, <4>1, <4>3, <4>4, <2>c, <2>e DEF CreateGroup
    <3>2. CASE PublishGroup(s)
      <4>1. [task[s] EXCEPT !.pc = "authorized"] \in Task
        BY <2>a, <2>d, TaskUpdates
      <4>2. QED
        BY <3>2, <4>1, NoTaskType DEF PublishGroup
    <3>3. CASE AskApproval(s)
      BY <3>3, NoTaskType DEF AskApproval
    <3>4. CASE CreateJoinRequest(s)
      <4>1. \/ /\ NextToken \in Token /\ NextToken \in MaybeToken
               /\ request' = [request EXCEPT ![NextToken] = "pending"]
               /\ minted' = NextToken
               /\ held' \in {held, held \cup {NextToken}}
            \/ UNCHANGED <<request, minted, held>>
        BY <3>4, MintType DEF CreateJoinRequest
      <4>2. QED
        BY <3>4, <4>1, NoTaskType, <2>e DEF CreateJoinRequest
    <3>5. ASSUME NEW c \in MaybeToken, RefuseJoin(s, c) PROVE TypeOK'
      BY <3>5 DEF RefuseJoin, vars
    <3>6. ASSUME NEW c \in MaybeToken, AdmitKnown(s, c) PROVE TypeOK'
      <4>1. PICK m \in Member :
               task' = [task EXCEPT ![s] = NewTask("authorized", m, row[m].role, c, {})]
        BY <3>6 DEF AdmitKnown, Rows
      <4>2. NewTask("authorized", m, row[m].role, c, {}) \in Task
        BY <2>b, <2>d, FieldTypes, NewTaskType
      <4>3. QED
        BY <3>6, <4>1, <4>2 DEF AdmitKnown
    <3>7. ASSUME NEW c \in MaybeToken, AdmitMigratedAdmin(s, c) PROVE TypeOK'
      <4>1. PICK m \in Member :
               /\ row' = [row EXCEPT ![m] = ActiveRow("admin", c, c)]
               /\ task' = [task EXCEPT ![s] = NewTask("authorized", m, "admin", c, {})]
        BY <3>7 DEF AdmitMigratedAdmin
      <4>2. ActiveRow("admin", c, c) \in Row
        BY <2>b, <2>d, RowType
      <4>3. NewTask("authorized", m, "admin", c, {}) \in Task
        BY <2>d, NewTaskType
      <4>4. QED
        BY <3>7, <4>1, <4>2, <4>3 DEF AdmitMigratedAdmin
    <3>i. ASSUME NEW c \in MaybeToken, IssueMember(s, c)
          PROVE  /\ row' \in [Member -> Row]
                 /\ task' \in [Session -> Task]
                 /\ minted' \in MaybeToken
      <4>1. PICK m \in Member :
               /\ CanMint(1)
               /\ row' = [row EXCEPT ![m] = ActiveRow("member", NextToken, c)]
               /\ task' = [task EXCEPT ![s] =
                              NewTask("authorized", m, "member", NextToken, {NextToken})]
               /\ minted' = NextToken
        BY <3>i DEF IssueMember, InsertMember
      <4>2. NextToken \in Token /\ NextToken \in MaybeToken
        BY <4>1, MintType
      <4>3. ActiveRow("member", NextToken, c) \in Row
        BY <4>1, <4>2, <2>b, <2>d, RowType
      <4>4. NewTask("authorized", m, "member", NextToken, {NextToken}) \in Task
        BY <4>2, <2>d, NewTaskType
      <4>5. QED
        BY <4>1, <4>2, <4>3, <4>4
    <3>8. ASSUME NEW c \in MaybeToken, AdmitOpen(s, c) PROVE TypeOK'
      BY <3>8, <3>i DEF AdmitOpen
    <3>9. ASSUME NEW c \in MaybeToken, RedeemApproval(s, c) PROVE TypeOK'
      BY <3>9, <3>i DEF RedeemApproval
    <3>10. ASSUME NEW c \in MaybeToken, RedeemRefused(s, c) PROVE TypeOK'
      BY <3>10 DEF RedeemRefused
    <3>11. QED
      BY <2>1, <3>1, <3>2, <3>3, <3>4, <3>5, <3>6, <3>7, <3>8, <3>9, <3>10 DEF Handshake
  <2>2. ASSUME NEW s \in Session, EnterGroup(s) PROVE TypeOK'
    <3>1. CASE Register(s)
      <4>1. [task[s] EXCEPT !.pc = "registered"] \in Task
        BY <2>a, <2>d, TaskUpdates
      <4>2. QED
        BY <3>1, <4>1 DEF Register
    <3>2. CASE Welcome(s)
      <4>1. [task[s] EXCEPT !.pc = "online", !.parcel = {}] \in Task
        BY <2>a, <2>d, TaskUpdates
      <4>2. held' \subseteq MaybeToken
        BY <3>2, <2>a, FieldTypes DEF Welcome
      <4>3. QED
        BY <3>2, <4>1, <4>2 DEF Welcome
    <3>3. CASE AbortWelcome(s)
      BY <3>3, NoTaskType DEF AbortWelcome
    <3>4. CASE DeliverToken(s)
      <4>1. PICK t \in task[s].parcel :
               /\ held' = held \cup {t}
               /\ task' = [task EXCEPT ![s].parcel = @ \ {t}]
        BY <3>4 DEF DeliverToken
      <4>2. t \in MaybeToken /\ task[s].parcel \ {t} \in SUBSET MaybeToken
        <5>1. task[s].parcel \in SUBSET MaybeToken
          BY <2>a, FieldTypes
        <5>2. QED
          BY <5>1
      <4>3. [task[s] EXCEPT !.parcel = task[s].parcel \ {t}] \in Task
        BY <4>2, <2>a DEF Task
      <4>4. QED
        BY <3>4, <4>1, <4>2, <4>3 DEF DeliverToken
    <3>5. CASE ObserveKick(s)
      BY <3>5, NoTaskType DEF ObserveKick
    <3>6. CASE Disconnect(s)
      BY <3>6, NoTaskType DEF Disconnect
    <3>7. QED
      BY <2>2, <3>1, <3>2, <3>3, <3>4, <3>5, <3>6 DEF EnterGroup
  <2>3. ASSUME NEW s \in Session, Administer(s) PROVE TypeOK'
    <3>1. ASSUME NEW t \in Token, NEW d \in {"approved", "rejected"}, DecideJoinRequest(s, t, d)
          PROVE TypeOK'
      BY <3>1 DEF DecideJoinRequest
    <3>2. ASSUME NEW m \in Member, BanMember(s, m) PROVE TypeOK'
      <4>1. [row[m] EXCEPT !.status = "banned"] \in Row
        BY <2>b DEF Row
      <4>2. [task[s] EXCEPT !.pc = "sweeping", !.target = m] \in Task
        BY <2>a, <2>d, TaskUpdates
      <4>3. QED
        BY <3>2, <4>1, <4>2 DEF BanMember
    <3>3. ASSUME NEW m \in Member, UnbanMember(s, m) PROVE TypeOK'
      <4>1. [row[m] EXCEPT !.status = "active"] \in Row
        BY <2>b DEF Row
      <4>2. QED
        BY <3>3, <4>1 DEF UnbanMember
    <3>4. CASE SweepBanned(s)
      <4> DEFINE K == Kicked(task[s].target, {}, "banned")
      <4>1. K \in [Session -> Task]
        BY <2>d, KickedType
      <4>2. [K[s] EXCEPT !.pc = "online", !.target = NoMember] \in Task
        BY <4>1, <2>d, TaskUpdates
      <4> HIDE DEF K
      <4>3. task' = [K EXCEPT ![s] = [K[s] EXCEPT !.pc = "online", !.target = NoMember]]
        BY <3>4, <4>1 DEF SweepBanned, K
      <4>4. task' \in [Session -> Task]
        BY <4>1, <4>2, <4>3
      <4>5. QED
        BY <3>4, <4>4 DEF SweepBanned
    <3>5. CASE RevokeOthers(s)
      <4> DEFINE K == Kicked(task[s].member, {s}, "rotated")
      <4>1. K \in [Session -> Task]
        BY <2>d, KickedType
      <4> HIDE DEF K
      <4>2. PICK q \in Queue(task[s].parcel, task[s].fresh) :
               task' = [K EXCEPT ![s] = [K[s] EXCEPT !.pc = "online", !.fresh = NoToken,
                                                     !.parcel = q]]
        BY <3>5, <4>1 DEF RevokeOthers, K
      <4>3. q \in SUBSET MaybeToken
        BY <2>a, FieldTypes DEF Queue
      <4>4. [K[s] EXCEPT !.pc = "online", !.fresh = NoToken, !.parcel = q] \in Task
        BY <4>1, <4>3, <2>c, <2>d, TaskUpdates
      <4>5. task' \in [Session -> Task]
        BY <4>1, <4>2, <4>4
      <4>6. QED
        BY <3>5, <4>5 DEF RevokeOthers
    <3>r. ASSUME NEW o \in Role, CanRotate(s, o)
          PROVE  /\ NextToken \in MaybeToken
                 /\ task[s].member \in Member
                 /\ [row[task[s].member] EXCEPT !.cred = NextToken] \in Row
                 /\ Revoking(s) \in [Session -> Task]
      <4>1. NextToken \in MaybeToken /\ task[s].member \in Member
        BY <3>r, MintType DEF CanRotate, Rows
      <4>2. [row[task[s].member] EXCEPT !.cred = NextToken] \in Row
        BY <4>1, <2>b DEF Row
      <4>3. [task[s] EXCEPT !.pc = "revoking", !.auth = NextToken, !.fresh = NextToken] \in Task
        BY <4>1, <2>a, <2>d, TaskUpdates
      <4>4. QED
        BY <4>1, <4>2, <4>3 DEF Revoking
    <3>6. CASE RotateMemberToken(s)
      BY <3>6, <3>r, <2>d DEF RotateMemberToken
    <3>7. CASE RotateAdminToken(s)
      BY <3>7, <3>r, <2>d DEF RotateAdminToken
    <3>8. CASE RotateInviteToken(s)
      <4>1. PICK q \in Queue(task[s].parcel, NextToken) : task' = [task EXCEPT ![s].parcel = q]
        BY <3>8 DEF RotateInviteToken
      <4>2. NextToken \in MaybeToken
        BY <3>8, <3>r, <2>d DEF RotateInviteToken
      <4>3. q \in SUBSET MaybeToken
        <5>1. task[s].parcel \in SUBSET MaybeToken
          BY <2>a, FieldTypes
        <5>2. QED
          BY <5>1, <4>2 DEF Queue
      <4>4. [task[s] EXCEPT !.parcel = q] \in Task
        BY <4>3, <2>a DEF Task
      <4>5. QED
        BY <3>8, <4>1, <4>2, <4>4 DEF RotateInviteToken
    <3>9. QED
      BY <2>3, <3>1, <3>2, <3>3, <3>4, <3>5, <3>6, <3>7, <3>8 DEF Administer
  <2>4. CASE Crash
    BY <2>4, NoTaskType DEF Crash, LoseMemory
  <2>5. ASSUME NEW s \in Session, NEW c \in MaybeToken, CrashInRedeem(s, c) PROVE TypeOK'
    <3>1. PICK m \in Member : InsertMember(m, c)
      BY <2>5 DEF CrashInRedeem
    <3>2. NextToken \in MaybeToken
      BY <3>1, MintType DEF InsertMember
    <3>3. ActiveRow("member", NextToken, c) \in Row
      BY <3>2, <2>b, <2>d, RowType
    <3>4. row' \in [Member -> Row] /\ minted' \in MaybeToken
      BY <3>1, <3>2, <3>3 DEF InsertMember
    <3>5. QED
      BY <2>5, <3>4, NoTaskType DEF CrashInRedeem, LoseMemory
  <2>6. CASE UNCHANGED vars
    BY <2>6 DEF vars
  <2>7. QED
    BY <2>1, <2>2, <2>3, <2>4, <2>5, <2>6 DEF Next
<1>3. QED
  BY <1>1, <1>2, PTL DEF Spec

-----------------------------------------------------------------------------
(* The steps, as far as members, sessions and revocations are concerned *)

\* t goes on as the same session, at most one step further into the group
Continues(t) ==
    /\ task'[t].member = task[t].member /\ task'[t].role = task[t].role
    /\ task'[t].auth = task[t].auth /\ task'[t].target = task[t].target
    /\ task'[t].kick = task[t].kick /\ task'[t].missed = task[t].missed
    /\ \/ task'[t].pc = task[t].pc
       \/ task[t].pc = "authorized" /\ task'[t].pc = "registered"
       \/ task[t].pc = "registered" /\ task'[t].pc = "online"

\* t, which owes no kicks, closes or goes to ask for approval
Ends(t) ==
    /\ task[t].pc \notin {"sweeping", "revoking"}
    /\ task'[t].pc \in {"idle", "requesting"}
    /\ task'[t].pc = "requesting" => group = "listed"

\* no row, no administrator token and no group changes
QuietStep ==
    /\ row' = row /\ adminToken' = adminToken /\ group' = group
    /\ \A t \in Session : Continues(t) \/ Ends(t)

IssueStep(s) ==
    /\ task[s].pc = "idle" /\ group = "listed"
    /\ \E c \in MaybeToken : IssueMember(s, c)
    /\ adminToken' = adminToken /\ group' = group

LosesMemory ==
    /\ \A t \in Session : task'[t].pc = "idle"
    /\ adminToken' = adminToken
    /\ \/ row' = row /\ (group = "none" <=> group' = "none")
       \/ /\ group = "listed" /\ group' = group
          /\ \E m \in Member, c \in MaybeToken : InsertMember(m, c)

LoudStep(s) ==
    \/ CreateGroup(s) \/ PublishGroup(s) \/ IssueStep(s)
    \/ \E c \in MaybeToken : AdmitKnown(s, c) \/ AdmitMigratedAdmin(s, c)
    \/ \E m \in Member : BanMember(s, m) \/ UnbanMember(s, m)
    \/ SweepBanned(s) \/ RevokeOthers(s) \/ RotateMemberToken(s) \/ RotateAdminToken(s)

\* Most handlers touch nothing that admission and revocation depend on.
LEMMA Steps ==
    ASSUME TypeOK, [Next]_vars
    PROVE  QuietStep \/ LosesMemory \/ \E s \in Session : LoudStep(s)
<1> USE DEF TypeOK, storeVars
<1>a. \A t \in Session : task[t] \in Task
  OBVIOUS
<1>s. ASSUME row' = row, adminToken' = adminToken, group' = group, task' = task PROVE QuietStep
  BY <1>s DEF QuietStep, Continues
<1>e. ASSUME row' = row, adminToken' = adminToken, group' = group,
             NEW s \in Session, task[s].pc \notin {"sweeping", "revoking"},
             \/ task' = [task EXCEPT ![s] = NoTask]
             \/ group = "listed" /\ task' = [task EXCEPT ![s] = [NoTask EXCEPT !.pc = "requesting"]]
      PROVE  QuietStep
  BY <1>e DEF QuietStep, Continues, Ends, NoTask, NewTask
<1>1. ASSUME NEW s \in Session, Handshake(s) PROVE QuietStep \/ LoudStep(s)
  <2>1. CASE AskApproval(s) \/ CreateJoinRequest(s)
    BY <2>1, <1>e DEF AskApproval, CreateJoinRequest, Selects
  <2>2. ASSUME NEW c \in MaybeToken, RefuseJoin(s, c) \/ RedeemRefused(s, c) PROVE QuietStep
    BY <2>2, <1>s DEF RefuseJoin, RedeemRefused, vars
  <2>3. ASSUME NEW c \in MaybeToken, AdmitOpen(s, c) \/ RedeemApproval(s, c) PROVE IssueStep(s)
    BY <2>3 DEF AdmitOpen, RedeemApproval, ApprovedRequest, Selects, IssueStep
  <2>4. QED
    BY <1>1, <2>1, <2>2, <2>3 DEF Handshake, LoudStep
<1>2. ASSUME NEW s \in Session, EnterGroup(s) PROVE QuietStep
  <2>1. CASE AbortWelcome(s) \/ ObserveKick(s) \/ Disconnect(s)
    BY <2>1, <1>e DEF AbortWelcome, ObserveKick, Disconnect
  <2>2. CASE Register(s)
    BY <2>2, <1>a DEF Register, QuietStep, Continues, Task
  <2>3. CASE Welcome(s)
    BY <2>3, <1>a DEF Welcome, QuietStep, Continues, Task
  <2>4. CASE DeliverToken(s)
    BY <2>4, <1>a DEF DeliverToken, QuietStep, Continues, Task
  <2>5. QED
    BY <1>2, <2>1, <2>2, <2>3, <2>4 DEF EnterGroup
<1>3. ASSUME NEW s \in Session, Administer(s) PROVE QuietStep \/ LoudStep(s)
  <2>1. ASSUME NEW t \in Token, NEW d \in {"approved", "rejected"}, DecideJoinRequest(s, t, d)
        PROVE  QuietStep
    BY <2>1, <1>s DEF DecideJoinRequest
  <2>2. CASE RotateInviteToken(s)
    BY <2>2, <1>a DEF RotateInviteToken, QuietStep, Continues, Task
  <2>3. QED
    BY <1>3, <2>1, <2>2 DEF Administer, LoudStep
<1>4. ASSUME Crash PROVE LosesMemory
  BY <1>4 DEF Crash, LoseMemory, LosesMemory, NoTask, NewTask
<1>5. ASSUME NEW s \in Session, NEW c \in MaybeToken, CrashInRedeem(s, c) PROVE LosesMemory
  BY <1>5 DEF CrashInRedeem, ApprovedRequest, Selects, LoseMemory, LosesMemory, NoTask, NewTask
<1>6. CASE UNCHANGED vars
  BY <1>6, <1>s DEF vars
<1>7. QED
  BY <1>1, <1>2, <1>3, <1>4, <1>5, <1>6 DEF Next

-----------------------------------------------------------------------------
(* What a task knows of its member, and how a group comes into being *)

\* Until the group is in the map its creator is alone, with its first token.
Founding ==
    /\ \A s \in Session : task[s].pc = "creating" =>
          /\ group = "stored"
          /\ row[task[s].member].status = "active"
          /\ row[task[s].member].cred = task[s].auth
    /\ \A s \in Session : task[s].pc \notin {"idle", "creating"} => group = "listed"
    /\ \A s, t \in Session : task[s].pc = "creating" /\ task[t].pc = "creating" => s = t
    /\ group = "none" => Rows = {}

Structure == TaskAgreesWithRow /\ Founding

\* The first step of every theorem below: rows are inserted where none was.
LEMMA FreshNotInRows == ASSUME NEW m \in Member, FreshMember(m) PROVE m \notin Rows
  BY DEF FreshMember, Rows

\* SweepBanned and RevokeOthers: s is online again, every other task stands where it stood,
\* and what the kicks changed is what Kicked says.
LEMMA SweepEffect ==
    ASSUME TypeOK, NEW s \in Session, SweepBanned(s)
    PROVE  /\ row' = row /\ group' = group
           /\ task[s].pc = "sweeping" /\ task'[s].pc = "online"
           /\ \A t \in Session :
                 /\ t # s => task'[t].pc = task[t].pc /\ task'[t].target = task[t].target
                 /\ task'[t].member = task[t].member /\ task'[t].auth = task[t].auth
                 /\ task'[t].role = task[t].role
                 /\ task[t].kick # "none" => task'[t].kick # "none"
                 /\ task[t].missed \subseteq task'[t].missed
                 /\ task[t].member = task[s].target /\ Admitted(t) =>
                       task'[t].kick = "banned" \/ "banned" \in task'[t].missed
<1> DEFINE K == Kicked(task[s].target, {}, "banned")
<1>1. task \in [Session -> Task] /\ K \in [Session -> Task] /\ \A t \in Session : K[t] \in Task
  BY KickedType DEF TypeOK, KickReason
<1>2. \A t \in Session :
         /\ K[t].pc = task[t].pc /\ K[t].target = task[t].target
         /\ K[t].member = task[t].member /\ K[t].auth = task[t].auth /\ K[t].role = task[t].role
         /\ task[t].kick # "none" => K[t].kick # "none"
         /\ task[t].missed \subseteq K[t].missed
         /\ task[t].member = task[s].target /\ Admitted(t) =>
               K[t].kick = "banned" \/ "banned" \in K[t].missed
  <2> TAKE t \in Session
  <2>1. task[t] \in Task
    BY <1>1
  <2>2. QED
    BY <2>1 DEF Kicked, Task, Admitted, InClients
<1> HIDE DEF K
<1>3. task' = [K EXCEPT ![s] = [K[s] EXCEPT !.pc = "online", !.target = NoMember]]
  BY <1>1 DEF SweepBanned, K
<1>4. \A t \in Session :
         /\ t # s => task'[t].pc = K[t].pc /\ task'[t].target = K[t].target
         /\ task'[t].member = K[t].member /\ task'[t].auth = K[t].auth /\ task'[t].role = K[t].role
         /\ task'[t].kick = K[t].kick /\ task'[t].missed = K[t].missed
  BY <1>1, <1>3 DEF Task
<1>5. task'[s].pc = "online"
  BY <1>1, <1>3 DEF Task
<1>6. QED
  BY <1>2, <1>4, <1>5 DEF SweepBanned, storeVars

\* The same of the kicks after a rotation, which spare the session that rotated.
LEMMA RevokeEffect ==
    ASSUME TypeOK, NEW s \in Session, RevokeOthers(s)
    PROVE  /\ row' = row /\ group' = group
           /\ task[s].pc = "revoking" /\ task'[s].pc = "online"
           /\ \A t \in Session :
                 /\ t # s => task'[t].pc = task[t].pc
                 /\ task'[t].target = task[t].target
                 /\ task'[t].member = task[t].member /\ task'[t].auth = task[t].auth
                 /\ task'[t].role = task[t].role
                 /\ task[t].kick # "none" => task'[t].kick # "none"
                 /\ task[t].missed \subseteq task'[t].missed
                 /\ t # s /\ task[t].member = task[s].member /\ Admitted(t) =>
                       task'[t].kick = "rotated" \/ "rotated" \in task'[t].missed
<1> DEFINE K == Kicked(task[s].member, {s}, "rotated")
<1>1. task \in [Session -> Task] /\ K \in [Session -> Task] /\ \A t \in Session : K[t] \in Task
  BY KickedType DEF TypeOK, KickReason
<1>2. \A t \in Session :
         /\ K[t].pc = task[t].pc /\ K[t].target = task[t].target
         /\ K[t].member = task[t].member /\ K[t].auth = task[t].auth /\ K[t].role = task[t].role
         /\ task[t].kick # "none" => K[t].kick # "none"
         /\ task[t].missed \subseteq K[t].missed
         /\ t # s /\ task[t].member = task[s].member /\ Admitted(t) =>
               K[t].kick = "rotated" \/ "rotated" \in K[t].missed
  <2> TAKE t \in Session
  <2>1. task[t] \in Task
    BY <1>1
  <2>2. QED
    BY <2>1 DEF Kicked, Task, Admitted, InClients
<1> HIDE DEF K
<1>3. PICK q : task' = [K EXCEPT ![s] = [K[s] EXCEPT !.pc = "online", !.fresh = NoToken,
                                                     !.parcel = q]]
  BY <1>1 DEF RevokeOthers, K
<1>4. \A t \in Session :
         /\ t # s => task'[t].pc = K[t].pc
         /\ task'[t].target = K[t].target
         /\ task'[t].member = K[t].member /\ task'[t].auth = K[t].auth /\ task'[t].role = K[t].role
         /\ task'[t].kick = K[t].kick /\ task'[t].missed = K[t].missed
  BY <1>1, <1>3 DEF Task
<1>5. task'[s].pc = "online"
  BY <1>1, <1>3 DEF Task
<1>6. row' = row /\ group' = group /\ task[s].pc = "revoking"
  BY DEF RevokeOthers, storeVars
<1>7. QED
  BY <1>2, <1>4, <1>5, <1>6

(***************************************************************************)
(* The role and the member that a task cached when it was authorized are   *)
(* those of a row that the store still has: no interleaving of bans,       *)
(* rotations, new members and restarts leaves require_admin with a stale   *)
(* answer, or a session with no member.                                    *)
(***************************************************************************)
LEMMA StructureStep == TypeOK /\ TypeOK' /\ Structure /\ [Next]_vars => Structure'
<1> SUFFICES ASSUME TypeOK, TypeOK', Structure, [Next]_vars PROVE Structure'
  OBVIOUS
<1> USE DEF Structure, TaskAgreesWithRow, Founding, Rows
<1>a. /\ row \in [Member -> Row] /\ task \in [Session -> Task] /\ task' \in [Session -> Task]
      /\ NoMember \notin Member
  BY ConstantsAssumption DEF TypeOK
<1>b. \A t \in Session : task[t] \in Task
  BY <1>a
<1>1. CASE QuietStep
  BY <1>1, <1>a DEF QuietStep, Continues, Ends
<1>2. CASE LosesMemory
  BY <1>2, <1>a DEF LosesMemory
<1>3. ASSUME NEW s \in Session, LoudStep(s) PROVE Structure'
  <2>1. CASE CreateGroup(s)
    BY <2>1, <1>a DEF CreateGroup, NewTask, ActiveRow, FreshMember
  <2>2. CASE PublishGroup(s)
    BY <2>2, <1>a, <1>b DEF PublishGroup, storeVars, NoTask, NewTask, Task
  <2>3. CASE IssueStep(s)
    BY <2>3, <1>a DEF IssueStep, IssueMember, InsertMember, FreshMember, ActiveRow, NewTask
  <2>4. ASSUME NEW c \in MaybeToken, AdmitKnown(s, c) PROVE Structure'
    BY <2>4, <1>a DEF AdmitKnown, Selects, storeVars, NewTask
  <2>5. ASSUME NEW c \in MaybeToken, AdmitMigratedAdmin(s, c) PROVE Structure'
    BY <2>5, <1>a DEF AdmitMigratedAdmin, Selects, FreshMember, ActiveRow, NewTask
  <2>6. ASSUME NEW m \in Member, BanMember(s, m) PROVE Structure'
    BY <2>6, <1>a, <1>b DEF BanMember, OnlineAdmin, Bannable, Row, Task
  <2>7. ASSUME NEW m \in Member, UnbanMember(s, m) PROVE Structure'
    BY <2>7, <1>a DEF UnbanMember, OnlineAdmin, Bannable, Row
  <2>8. CASE SweepBanned(s)
    BY <2>8, <1>a, SweepEffect
  <2>9. CASE RevokeOthers(s)
    BY <2>9, <1>a, RevokeEffect
  <2>10. CASE RotateMemberToken(s)
    BY <2>10, <1>a, <1>b DEF RotateMemberToken, CanRotate, Revoking, Row, Task
  <2>11. CASE RotateAdminToken(s)
    BY <2>11, <1>a, <1>b DEF RotateAdminToken, CanRotate, Revoking, Row, Task
  <2>12. QED
    BY <1>3, <2>1, <2>2, <2>3, <2>4, <2>5, <2>6, <2>7, <2>8, <2>9, <2>10, <2>11 DEF LoudStep
<1>4. QED
  BY <1>1, <1>2, <1>3, Steps

\* So a task's cached role and member are sound in every reachable state.
THEOREM StructureCorrect == Spec => []Structure
<1>1. Init => Structure
  BY DEF Init, Structure, TaskAgreesWithRow, Founding, Rows, NoTask, NewTask, NoRow
<1>2. QED
  BY <1>1, StructureStep, TypeCorrect, PTL DEF Spec

(***************************************************************************)
(* Creation, migration, rotation and ban each write a part of what makes an*)
(* administrator; in every interleaving and after every crash the group has*)
(* at most one administrator row, active, under groups.admin_token_hash.   *)
(***************************************************************************)
LEMMA OneAdministratorStep ==
    TypeOK /\ TypeOK' /\ Structure /\ OneAdministrator /\ [Next]_vars => OneAdministrator'
<1> SUFFICES ASSUME TypeOK, TypeOK', Structure, OneAdministrator, [Next]_vars
             PROVE  OneAdministrator'
  OBVIOUS
<1> USE DEF OneAdministrator, Rows
<1>a. row \in [Member -> Row] /\ \A m \in Member : row[m] \in Row
  BY DEF TypeOK
<1>1. CASE QuietStep
  BY <1>1 DEF QuietStep
<1>2. CASE LosesMemory
  BY <1>2, <1>a DEF LosesMemory, InsertMember, FreshMember, ActiveRow
<1>3. ASSUME NEW s \in Session, LoudStep(s) PROVE OneAdministrator'
  <2>1. CASE CreateGroup(s)
    BY <2>1, <1>a DEF CreateGroup, ActiveRow, Structure, Founding
  <2>2. CASE PublishGroup(s) \/ SweepBanned(s) \/ RevokeOthers(s)
    BY <2>2 DEF PublishGroup, SweepBanned, RevokeOthers, storeVars
  <2>3. CASE IssueStep(s)
    BY <2>3, <1>a DEF IssueStep, IssueMember, InsertMember, FreshMember, ActiveRow
  <2>4. ASSUME NEW c \in MaybeToken, AdmitKnown(s, c) PROVE OneAdministrator'
    BY <2>4 DEF AdmitKnown, storeVars
  <2>5. ASSUME NEW c \in MaybeToken, AdmitMigratedAdmin(s, c) PROVE OneAdministrator'
    BY <2>5, <1>a DEF AdmitMigratedAdmin, FreshMember, ActiveRow, NoRowHas
  <2>6. ASSUME NEW m \in Member, BanMember(s, m) \/ UnbanMember(s, m) PROVE OneAdministrator'
    BY <2>6, <1>a DEF BanMember, UnbanMember, Bannable, Row
  <2>7. CASE RotateMemberToken(s)
    BY <2>7, <1>a DEF RotateMemberToken, CanRotate, Row
  <2>8. CASE RotateAdminToken(s)
    BY <2>8, <1>a DEF RotateAdminToken, CanRotate, Row
  <2>9. QED
    BY <1>3, <2>1, <2>2, <2>3, <2>4, <2>5, <2>6, <2>7, <2>8 DEF LoudStep
<1>4. QED
  BY <1>1, <1>2, <1>3, Steps

\* No reachable state has a second administrator, or a banned one.
THEOREM OneAdministratorCorrect == Spec => []OneAdministrator
<1>1. Init => OneAdministrator
  BY DEF Init, OneAdministrator, Rows, NoRow
<1>2. QED
  BY <1>1, OneAdministratorStep, StructureCorrect, TypeCorrect, PTL DEF Spec

-----------------------------------------------------------------------------
(* Revocation reaches every session that was there to be reached *)

(***************************************************************************)
(* handle_set_member_banned commits the ban and then, in a second step,    *)
(* kicks the member's sessions.  Whatever else happens in between and      *)
(* afterwards, a session of a banned member has its kick, or a sweep for   *)
(* its member is still to come, or the session was between authorize_join  *)
(* and group.clients.insert when a sweep passed.                           *)
(***************************************************************************)
LEMMA BanReachesStep ==
    TypeOK /\ TypeOK' /\ Structure /\ BanReachesSessions /\ [Next]_vars => BanReachesSessions'
<1> SUFFICES ASSUME TypeOK, TypeOK', Structure, BanReachesSessions, [Next]_vars
             PROVE  BanReachesSessions'
  OBVIOUS
<1> USE DEF BanReachesSessions, Banned, BanUnderWay, Admitted, InClients, Rows
<1>a. /\ row \in [Member -> Row] /\ \A m \in Member : row[m] \in Row
      /\ task \in [Session -> Task] /\ \A t \in Session : task[t] \in Task
  BY DEF TypeOK
<1>b. \A t \in Session : task[t].pc \notin {"idle", "requesting"} => task[t].member \in Rows
  BY DEF Structure, TaskAgreesWithRow
<1>1. CASE QuietStep
  BY <1>1 DEF QuietStep, Continues, Ends
<1>2. CASE LosesMemory
  BY <1>2 DEF LosesMemory
<1>3. ASSUME NEW s \in Session, LoudStep(s) PROVE BanReachesSessions'
  <2>1. CASE CreateGroup(s)
    BY <2>1, <1>a, <1>b DEF CreateGroup, ActiveRow, FreshMember, NewTask
  <2>2. CASE PublishGroup(s)
    BY <2>2, <1>a DEF PublishGroup, storeVars, Structure, Founding, Task, NoTask, NewTask
  <2>3. CASE IssueStep(s)
    BY <2>3, <1>a, <1>b DEF IssueStep, IssueMember, InsertMember, FreshMember, ActiveRow, NewTask
  <2>4. ASSUME NEW c \in MaybeToken, AdmitKnown(s, c) PROVE BanReachesSessions'
    BY <2>4, <1>a DEF AdmitKnown, Selects, storeVars, NewTask
  <2>5. ASSUME NEW c \in MaybeToken, AdmitMigratedAdmin(s, c) PROVE BanReachesSessions'
    BY <2>5, <1>a, <1>b DEF AdmitMigratedAdmin, Selects, FreshMember, ActiveRow, NewTask
  <2>6. ASSUME NEW m \in Member, BanMember(s, m) PROVE BanReachesSessions'
    BY <2>6, <1>a, <1>b DEF BanMember, OnlineAdmin, Task, Row
  <2>7. ASSUME NEW m \in Member, UnbanMember(s, m) PROVE BanReachesSessions'
    BY <2>7, <1>a, <1>b DEF UnbanMember, Row
  <2>8. CASE SweepBanned(s)
    BY <2>8, <1>a, <1>b, SweepEffect
  <2>9. CASE RevokeOthers(s)
    BY <2>9, <1>a, <1>b, RevokeEffect
  <2>10. CASE RotateMemberToken(s)
    BY <2>10, <1>a, <1>b DEF RotateMemberToken, CanRotate, Revoking, Row, Task
  <2>11. CASE RotateAdminToken(s)
    BY <2>11, <1>a, <1>b DEF RotateAdminToken, CanRotate, Revoking, Row, Task
  <2>12. QED
    BY <1>3, <2>1, <2>2, <2>3, <2>4, <2>5, <2>6, <2>7, <2>8, <2>9, <2>10, <2>11 DEF LoudStep
<1>4. QED
  BY <1>1, <1>2, <1>3, Steps

\* handle_set_member_banned reaches every session of the member that was there to be reached.
THEOREM BanReachesCorrect == Spec => []BanReachesSessions
<1>1. Init => BanReachesSessions
  BY DEF Init, BanReachesSessions, Banned, Admitted, InClients, NoTask, NewTask
<1>2. QED
  BY <1>1, BanReachesStep, StructureCorrect, TypeCorrect, PTL DEF Spec

(***************************************************************************)
(* The same for handle_rotate_group_token, where several sessions of one   *)
(* member may rotate at the same time: a session whose token has been      *)
(* replaced by another session has its kick, or the kicks of some rotation *)
(* are still to be sent, or a sweep missed it before it was registered.    *)
(***************************************************************************)
LEMMA RotationReachesStep ==
    TypeOK /\ TypeOK' /\ Structure /\ RotationReachesSessions /\ [Next]_vars
        => RotationReachesSessions'
<1> SUFFICES ASSUME TypeOK, TypeOK', Structure, RotationReachesSessions, [Next]_vars
             PROVE  RotationReachesSessions'
  OBVIOUS
<1> USE DEF RotationReachesSessions, Stale, RotationUnderWay, Admitted, InClients, Rows
<1>a. /\ row \in [Member -> Row] /\ \A m \in Member : row[m] \in Row
      /\ task \in [Session -> Task] /\ \A t \in Session : task[t] \in Task
  BY DEF TypeOK
<1>b. \A t \in Session : task[t].pc \notin {"idle", "requesting"} => task[t].member \in Rows
  BY DEF Structure, TaskAgreesWithRow
<1>c. \A t \in Session : task[t].pc \notin {"idle", "creating"} =>
         \A u \in Session : task[u].pc # "creating"
  BY DEF Structure, Founding
<1>1. CASE QuietStep
  BY <1>1 DEF QuietStep, Continues, Ends
<1>2. CASE LosesMemory
  BY <1>2 DEF LosesMemory
<1>3. ASSUME NEW s \in Session, LoudStep(s) PROVE RotationReachesSessions'
  <2>1. CASE CreateGroup(s)
    BY <2>1, <1>a, <1>b DEF CreateGroup, ActiveRow, FreshMember, NewTask
  <2>2. CASE PublishGroup(s)
    BY <2>2, <1>a DEF PublishGroup, storeVars, Structure, Founding, Task, NoTask, NewTask
  <2>3. CASE IssueStep(s)
    BY <2>3, <1>a, <1>b DEF IssueStep, IssueMember, InsertMember, FreshMember, ActiveRow, NewTask
  <2>4. ASSUME NEW c \in MaybeToken, AdmitKnown(s, c) PROVE RotationReachesSessions'
    BY <2>4, <1>a DEF AdmitKnown, Selects, storeVars, NewTask
  <2>5. ASSUME NEW c \in MaybeToken, AdmitMigratedAdmin(s, c) PROVE RotationReachesSessions'
    BY <2>5, <1>a, <1>b DEF AdmitMigratedAdmin, Selects, FreshMember, ActiveRow, NewTask
  <2>6. ASSUME NEW m \in Member, BanMember(s, m) PROVE RotationReachesSessions'
    BY <2>6, <1>a, <1>b DEF BanMember, OnlineAdmin, Task, Row
  <2>7. ASSUME NEW m \in Member, UnbanMember(s, m) PROVE RotationReachesSessions'
    BY <2>7, <1>a, <1>b DEF UnbanMember, Row
  <2>8. CASE SweepBanned(s)
    BY <2>8, <1>a, <1>b, SweepEffect
  <2>9. CASE RevokeOthers(s)
    BY <2>9, <1>a, <1>b, RevokeEffect
  <2>10. CASE RotateMemberToken(s)
    BY <2>10, <1>a, <1>b, <1>c DEF RotateMemberToken, CanRotate, Revoking, Row, Task
  <2>11. CASE RotateAdminToken(s)
    BY <2>11, <1>a, <1>b, <1>c DEF RotateAdminToken, CanRotate, Revoking, Row, Task
  <2>12. QED
    BY <1>3, <2>1, <2>2, <2>3, <2>4, <2>5, <2>6, <2>7, <2>8, <2>9, <2>10, <2>11 DEF LoudStep
<1>4. QED
  BY <1>1, <1>2, <1>3, Steps

\* handle_rotate_group_token reaches every other session of the member, likewise.
THEOREM RotationReachesCorrect == Spec => []RotationReachesSessions
<1>1. Init => RotationReachesSessions
  BY DEF Init, RotationReachesSessions, Stale, Admitted, InClients, NoTask, NewTask
<1>2. QED
  BY <1>1, RotationReachesStep, StructureCorrect, TypeCorrect, PTL DEF Spec

-----------------------------------------------------------------------------

\* The cached role and member are sound in every reachable state.
THEOREM TasksAgreeCorrect == Spec => []TaskAgreesWithRow
<1>1. Structure => TaskAgreesWithRow
  BY DEF Structure
<1>2. QED
  BY <1>1, StructureCorrect, PTL

(***************************************************************************)
(* rotate_group_token demands an active row: a kicked session that has not *)
(* yet noticed cannot give its banned member a new credential.             *)
(***************************************************************************)
THEOREM BannedKeepsCredentialCorrect == Spec => BannedKeepsCredential
<1>1. ASSUME TypeOK, [Next]_vars
      PROVE  [\A m \in Rows : row[m].status = "banned" => row'[m].cred = row[m].cred]_vars
  <2> SUFFICES ASSUME NEW m \in Rows, row[m].status = "banned"
               PROVE  row'[m].cred = row[m].cred
    BY <1>1
  <2>a. m \in Member /\ row \in [Member -> Row] /\ \A n \in Member : row[n] \in Row
    BY <1>1 DEF TypeOK, Rows
  <2>1. CASE QuietStep
    BY <2>1 DEF QuietStep
  <2>2. CASE LosesMemory
    BY <2>2, <2>a DEF LosesMemory, InsertMember, FreshMember
  <2>3. ASSUME NEW s \in Session, LoudStep(s) PROVE row'[m].cred = row[m].cred
    <3>1. ASSUME UNCHANGED row PROVE row'[m].cred = row[m].cred
      BY <3>1
    <3>2. ASSUME NEW n \in Member, FreshMember(n), NEW x, row' = [row EXCEPT ![n] = x]
          PROVE  row'[m].cred = row[m].cred
      BY <3>2, <2>a DEF FreshMember
    <3>3. CASE CreateGroup(s) \/ IssueStep(s)
      BY <3>3, <3>2 DEF CreateGroup, IssueStep, IssueMember, InsertMember
    <3>4. CASE PublishGroup(s) \/ SweepBanned(s) \/ RevokeOthers(s)
      BY <3>4 DEF PublishGroup, SweepBanned, RevokeOthers, storeVars
    <3>5. ASSUME NEW c \in MaybeToken, AdmitKnown(s, c) \/ AdmitMigratedAdmin(s, c)
          PROVE  row'[m].cred = row[m].cred
      BY <3>5, <3>2 DEF AdmitKnown, AdmitMigratedAdmin, storeVars
    <3>6. ASSUME NEW n \in Member, BanMember(s, n) \/ UnbanMember(s, n)
          PROVE  row'[m].cred = row[m].cred
      BY <3>6, <2>a DEF BanMember, UnbanMember, Row
    <3>7. CASE RotateMemberToken(s) \/ RotateAdminToken(s)
      BY <3>7, <2>a DEF RotateMemberToken, RotateAdminToken, CanRotate, Row, Rows
    <3>8. QED
      BY <2>3, <3>3, <3>4, <3>5, <3>6, <3>7 DEF LoudStep
  <2>4. QED
    BY <1>1, <2>1, <2>2, <2>3, Steps
<1>2. QED
  BY <1>1, TypeCorrect, PTL DEF Spec, BannedKeepsCredential

-----------------------------------------------------------------------------
(* The steps, as far as the tables are concerned *)

tokenVars == <<adminToken, inviteToken, request, minted>>

\* no table changes, and no group comes or goes
KeepsTables ==
    /\ UNCHANGED <<row, tokenVars>>
    /\ crashes' \in Nat /\ crashes <= crashes'
    /\ group' = "none" <=> group = "none"

\* the group is inserted, with the row of its administrator
FoundsGroup(m) ==
    /\ group = "none" /\ group' = "stored" /\ FreshMember(m)
    /\ row' = [row EXCEPT ![m] = ActiveRow("admin", minted + 1, NoToken)]
    /\ adminToken' = minted + 1
    /\ \/ mode # "invite" /\ inviteToken' = NoToken /\ CanMint(1) /\ minted' = minted + 1
       \/ mode = "invite" /\ inviteToken' = minted + 2 /\ CanMint(2) /\ minted' = minted + 2
    /\ UNCHANGED <<request, crashes>>

\* the administrator of a migrated group gets a row
AddsAdministrator(m) ==
    /\ adminToken # NoToken /\ NoRowHas(adminToken) /\ FreshMember(m)
    /\ row' = [row EXCEPT ![m] = ActiveRow("admin", adminToken, adminToken)]
    /\ UNCHANGED <<tokenVars, crashes, group>>

\* request c is approved and has admitted nobody that the tables still know by it
Redeemable(c) == c \in Token /\ NoRowHas(c) /\ c # adminToken /\ request[c] = "approved"

\* a row is inserted for who presented c, in a group that has one to admit to
AddsMember(m, c) ==
    /\ HasRoom /\ InsertMember(m, c)
    /\ group = "listed" /\ group' = group
    /\ UNCHANGED <<adminToken, inviteToken>>
    /\ \/ mode # "approval" /\ UNCHANGED <<request, crashes>>
       \/ Redeemable(c) /\ request' = [request EXCEPT ![c] = "none"] /\ crashes' = crashes
       \/ Redeemable(c) /\ request' = request /\ crashes' = crashes + 1

\* a request is inserted, decided, or redeemed although the group is full
Requests(t) ==
    /\ UNCHANGED <<row, adminToken, inviteToken, crashes, group>>
    /\ \/ /\ t = NextToken /\ CanMint(1) /\ minted' = NextToken
          /\ Cardinality(Pending) < MaxPending
          /\ request' = [request EXCEPT ![t] = "pending"]
       \/ /\ request[t] = "pending" /\ minted' = minted
          /\ \E d \in {"approved", "rejected"} : request' = [request EXCEPT ![t] = d]
       \/ /\ Redeemable(t) /\ minted' = minted
          /\ request' = [request EXCEPT ![t] = "none"]

\* a ban is set or lifted
MarksRow(m) ==
    /\ m \in Rows
    /\ \E u \in {"active", "banned"} : row' = [row EXCEPT ![m].status = u]
    /\ UNCHANGED <<tokenVars, crashes, group>>

\* m, which is online, gets a new token
RotatesOwn(m) ==
    /\ m \in Rows /\ CanMint(1) /\ minted' = NextToken
    /\ row' = [row EXCEPT ![m].cred = NextToken]
    /\ \/ row[m].role = "member" /\ adminToken' = adminToken
       \/ row[m].role = "admin" /\ adminToken' = NextToken
    /\ UNCHANGED <<inviteToken, request, crashes, group>>

RotatesInvitation ==
    /\ mode = "invite" /\ group # "none" /\ CanMint(1) /\ minted' = NextToken
    /\ inviteToken' = NextToken
    /\ UNCHANGED <<row, adminToken, request, crashes, group>>

ChangesTables ==
    \/ RotatesInvitation
    \/ \E m \in Member : FoundsGroup(m) \/ AddsAdministrator(m) \/ MarksRow(m) \/ RotatesOwn(m)
    \/ \E m \in Member, c \in MaybeToken : AddsMember(m, c)
    \/ \E t \in Token : Requests(t)

\* Every step is one of these, in a group of the same mode.
LEMMA TableSteps ==
    ASSUME TypeOK, Structure, [Next]_vars
    PROVE  (KeepsTables \/ ChangesTables) /\ mode' = mode
<1>a. /\ crashes \in Nat /\ row \in [Member -> Row] /\ task \in [Session -> Task]
      /\ \A s \in Session : task[s] \in Task
      /\ \A c \in MaybeToken : c # NoToken => c \in Token
  BY ConstantsAssumption DEF TypeOK, MaybeToken, Token, NoToken
<1>k. ASSUME UNCHANGED <<row, tokenVars, crashes>>, group' = "none" <=> group = "none"
      PROVE  KeepsTables
  BY <1>a, <1>k DEF KeepsTables
<1>1. ASSUME NEW s \in Session, Handshake(s)
      PROVE  (KeepsTables \/ ChangesTables) /\ mode' = mode
  <2>1. CASE CreateGroup(s)
    BY <2>1 DEF CreateGroup, FoundsGroup, ChangesTables
  <2>2. CASE PublishGroup(s)
    <3>1. group # "none"
      BY <2>2 DEF PublishGroup, Structure, Founding
    <3>2. QED
      BY <2>2, <3>1, <1>k DEF PublishGroup, storeVars, tokenVars
  <2>3. CASE AskApproval(s)
    BY <2>3, <1>k DEF AskApproval, storeVars, tokenVars
  <2>4. CASE CreateJoinRequest(s)
    <3>1. CASE UNCHANGED <<request, minted, held>>
      BY <2>4, <3>1, <1>k DEF CreateJoinRequest, storeVars, tokenVars
    <3>2. CASE ~UNCHANGED <<request, minted, held>>
      <4>1. /\ CanMint(1) /\ minted' = NextToken /\ Cardinality(Pending) < MaxPending
            /\ request' = [request EXCEPT ![NextToken] = "pending"]
            /\ UNCHANGED <<row, adminToken, inviteToken, crashes, group, mode>>
        BY <2>4, <3>2 DEF CreateJoinRequest
      <4>2. NextToken \in Token
        BY <4>1, MintType DEF TypeOK
      <4>3. QED
        BY <4>1, <4>2 DEF Requests, ChangesTables
    <3>3. QED
      BY <3>1, <3>2
  <2>5. ASSUME NEW c \in MaybeToken, RefuseJoin(s, c) \/ AdmitKnown(s, c)
        PROVE  KeepsTables /\ mode' = mode
    BY <2>5, <1>k DEF RefuseJoin, AdmitKnown, vars, storeVars, tokenVars
  <2>6. ASSUME NEW c \in MaybeToken, AdmitMigratedAdmin(s, c)
        PROVE  ChangesTables /\ mode' = mode
    BY <2>6 DEF AdmitMigratedAdmin, AddsAdministrator, ChangesTables, tokenVars
  <2>7. ASSUME NEW c \in MaybeToken, AdmitOpen(s, c) PROVE ChangesTables /\ mode' = mode
    BY <2>7 DEF AdmitOpen, Selects, IssueMember, AddsMember, ChangesTables
  <2>8. ASSUME NEW c \in MaybeToken, RedeemApproval(s, c) PROVE ChangesTables /\ mode' = mode
    BY <2>8, <1>a
    DEF RedeemApproval, ApprovedRequest, Redeemable, Selects, IssueMember, AddsMember, ChangesTables
  <2>9. ASSUME NEW c \in MaybeToken, RedeemRefused(s, c) PROVE ChangesTables /\ mode' = mode
    BY <2>9, <1>a DEF RedeemRefused, ApprovedRequest, Redeemable, Requests, ChangesTables
  <2>10. QED
    BY <1>1, <2>1, <2>2, <2>3, <2>4, <2>5, <2>6, <2>7, <2>8, <2>9 DEF Handshake
<1>2. ASSUME NEW s \in Session, EnterGroup(s) PROVE KeepsTables /\ mode' = mode
  BY <1>2, <1>k DEF EnterGroup, Register, Welcome, AbortWelcome, DeliverToken, ObserveKick,
     Disconnect, storeVars, tokenVars
<1>3. ASSUME NEW s \in Session, Administer(s)
      PROVE  (KeepsTables \/ ChangesTables) /\ mode' = mode
  <2>1. ASSUME NEW t \in Token, NEW d \in {"approved", "rejected"}, DecideJoinRequest(s, t, d)
        PROVE  ChangesTables /\ mode' = mode
    BY <2>1 DEF DecideJoinRequest, Requests, ChangesTables
  <2>2. ASSUME NEW m \in Member, BanMember(s, m) \/ UnbanMember(s, m)
        PROVE  ChangesTables /\ mode' = mode
    BY <2>2 DEF BanMember, UnbanMember, Bannable, MarksRow, ChangesTables, tokenVars
  <2>3. CASE SweepBanned(s) \/ RevokeOthers(s)
    BY <2>3, <1>k DEF SweepBanned, RevokeOthers, storeVars, tokenVars
  <2>4. CASE RotateMemberToken(s)
    BY <2>4 DEF RotateMemberToken, CanRotate, RotatesOwn, ChangesTables, Rows
  <2>5. CASE RotateAdminToken(s)
    BY <2>5 DEF RotateAdminToken, CanRotate, RotatesOwn, ChangesTables, Rows
  <2>6. CASE RotateInviteToken(s)
    <3>1. group # "none"
      BY <2>6 DEF RotateInviteToken, CanRotate, Structure, Founding
    <3>2. QED
      BY <2>6, <3>1 DEF RotateInviteToken, CanRotate, RotatesInvitation, ChangesTables
  <2>7. QED
    BY <1>3, <2>1, <2>2, <2>3, <2>4, <2>5, <2>6 DEF Administer
<1>4. ASSUME Crash PROVE KeepsTables /\ mode' = mode
  BY <1>4, <1>a DEF Crash, LoseMemory, KeepsTables, storeVars, tokenVars
<1>5. ASSUME NEW s \in Session, NEW c \in MaybeToken, CrashInRedeem(s, c)
      PROVE  ChangesTables /\ mode' = mode
  BY <1>5, <1>a DEF CrashInRedeem, ApprovedRequest, Selects, Redeemable, LoseMemory, AddsMember,
     ChangesTables
<1>6. CASE UNCHANGED vars
  BY <1>6, <1>k DEF vars, tokenVars
<1>7. QED
  BY <1>1, <1>2, <1>3, <1>4, <1>5, <1>6 DEF Next

-----------------------------------------------------------------------------
(* How many rows there are *)

MemberRows == {m \in Rows : row[m].role = "member"}

\* Inserting a row adds it to the rows and leaves the others as they are.
LEMMA InsertEffect ==
    ASSUME TypeOK, NEW m \in Member, FreshMember(m), NEW o, NEW c, NEW d,
           row' = [row EXCEPT ![m] = ActiveRow(o, c, d)]
    PROVE  /\ m \notin Rows /\ Rows' = Rows \cup {m}
           /\ \A n \in Rows : row'[n] = row[n]
           /\ row'[m].status = "active" /\ row'[m].role = o
           /\ row'[m].cred = c /\ row'[m].origin = d
  BY DEF TypeOK, FreshMember, Rows, ActiveRow

\* A ban and a rotation change one column of one row.
LEMMA UpdateEffect ==
    ASSUME TypeOK, NEW m \in Member, MarksRow(m) \/ RotatesOwn(m)
    PROVE  /\ Rows' = Rows /\ m \in Rows
           /\ \A n \in Rows : row'[n].role = row[n].role /\ row'[n].origin = row[n].origin
           /\ \A n \in Rows : n # m => row'[n] = row[n]
           /\ MarksRow(m) => row'[m].cred = row[m].cred
           /\ RotatesOwn(m) => row'[m].cred = NextToken
<1>1. /\ row \in [Member -> Row] /\ row[m] \in Row
  BY DEF TypeOK
<1>2. ASSUME NEW u \in {"active", "banned"}, row' = [row EXCEPT ![m].status = u]
      PROVE  /\ row'[m].status = u /\ row'[m].cred = row[m].cred
             /\ row'[m].role = row[m].role /\ row'[m].origin = row[m].origin
  BY <1>1, <1>2 DEF Row
<1>3. ASSUME row' = [row EXCEPT ![m].cred = NextToken]
      PROVE  /\ row'[m].status = row[m].status /\ row'[m].cred = NextToken
             /\ row'[m].role = row[m].role /\ row'[m].origin = row[m].origin
  BY <1>1, <1>3 DEF Row
<1>4. CASE MarksRow(m)
  <2>1. PICK u \in {"active", "banned"} : row' = [row EXCEPT ![m].status = u]
    BY <1>4 DEF MarksRow
  <2>2. m \in Rows /\ \A n \in Member : n # m => row'[n] = row[n]
    BY <1>1, <1>4, <2>1 DEF MarksRow
  <2>3. /\ row'[m].status = u /\ row'[m].cred = row[m].cred
        /\ row'[m].role = row[m].role /\ row'[m].origin = row[m].origin
    BY <1>2, <2>1
  <2>4. Rows' = Rows
    BY <2>2, <2>3 DEF Rows
  <2>5. RotatesOwn(m) => row'[m].cred = NextToken
    BY <1>3 DEF RotatesOwn
  <2>6. QED
    BY <2>2, <2>3, <2>4, <2>5 DEF Rows
<1>5. CASE RotatesOwn(m)
  <2>1. /\ row'[m].status = row[m].status /\ row'[m].cred = NextToken
        /\ row'[m].role = row[m].role /\ row'[m].origin = row[m].origin
    BY <1>3, <1>5 DEF RotatesOwn
  <2>2. m \in Rows /\ \A n \in Member : n # m => row'[n] = row[n]
    BY <1>1, <1>5 DEF RotatesOwn
  <2>3. Rows' = Rows
    BY <2>1, <2>2 DEF Rows
  <2>4. MarksRow(m) => row'[m].cred = row[m].cred
    BY <1>2 DEF MarksRow
  <2>5. QED
    BY <2>1, <2>2, <2>3, <2>4 DEF Rows
<1>6. QED
  BY <1>4, <1>5

\* There are finitely many rows and requests.
LEMMA FiniteTables ==
    /\ IsFiniteSet(Rows) /\ Cardinality(Rows) \in Nat
    /\ IsFiniteSet(MemberRows) /\ Cardinality(MemberRows) \in Nat
    /\ Cardinality(MemberRows) <= Cardinality(Rows)
    /\ IsFiniteSet(Pending) /\ Cardinality(Pending) \in Nat
<1>1. IsFiniteSet(Rows)
  BY ConstantsAssumption, FS_Subset DEF Rows
<1>2. MemberRows \subseteq Rows
  BY DEF MemberRows
<1>3. IsFiniteSet(Token)
  BY ConstantsAssumption, FS_Interval DEF Token
<1>4. IsFiniteSet(Pending)
  BY <1>3, FS_Subset DEF Pending
<1>5. IsFiniteSet(MemberRows) /\ Cardinality(MemberRows) <= Cardinality(Rows)
  BY <1>1, <1>2, FS_Subset
<1>6. QED
  BY <1>1, <1>4, <1>5, FS_CardinalityType

\* The caps hold through every insertion, whichever handlers raced to it.
LEMMA LimitsStep ==
    ASSUME TypeOK, Structure, OneAdministrator, WithinLimits, [Next]_vars
    PROVE  WithinLimits'
<1>a. /\ row \in [Member -> Row]
      /\ request \in [Token -> {"none", "pending", "approved", "rejected"}]
      /\ MaxMembers \in Nat \ {0} /\ MaxPending \in Nat
      /\ \A m \in Member : row[m].role \in Role
  BY ConstantsAssumption, FieldTypes DEF TypeOK
<1>b. /\ Cardinality(MemberRows) <= MaxMembers /\ Cardinality(Rows) <= MaxMembers + 1
      /\ Cardinality(Pending) <= MaxPending
  BY DEF WithinLimits, MemberRows
<1>c. ASSUME Cardinality(MemberRows') <= MaxMembers, Cardinality(Rows') <= MaxMembers + 1,
             Cardinality(Pending') <= MaxPending
      PROVE  WithinLimits'
  BY <1>c DEF WithinLimits, MemberRows
<1>d. ASSUME request' = request PROVE Cardinality(Pending') <= MaxPending
  <2>1. Pending' = Pending
    BY <1>d DEF Pending
  <2>2. QED
    BY <1>b, <2>1
<1>e. ASSUME Rows' = Rows, \A m \in Rows : row'[m].role = row[m].role
      PROVE  Cardinality(MemberRows') <= MaxMembers /\ Cardinality(Rows') <= MaxMembers + 1
  <2>1. MemberRows' = MemberRows
    BY <1>e DEF MemberRows
  <2>2. QED
    BY <1>b, <1>e, <2>1
<1>f. ASSUME NEW S \in SUBSET Pending, Pending' = S PROVE Cardinality(Pending') <= MaxPending
  <2>1. Cardinality(S) <= Cardinality(Pending) /\ Cardinality(S) \in Nat
    BY FiniteTables, FS_Subset, FS_CardinalityType
  <2>2. QED
    BY <1>a, <1>b, <1>f, <2>1, FiniteTables
<1>g. ASSUME NEW m, m \notin Rows, Rows' = Rows \cup {m}
      PROVE  Cardinality(Rows') = Cardinality(Rows) + 1
  BY <1>g, FiniteTables, FS_AddElement
<1>1. CASE KeepsTables
  <2>1. row' = row /\ request' = request
    BY <1>1 DEF KeepsTables, tokenVars
  <2>2. Rows' = Rows
    BY <2>1 DEF Rows
  <2>3. QED
    BY <1>c, <1>d, <1>e, <2>1, <2>2
<1>2. ASSUME NEW m \in Member, FoundsGroup(m) PROVE WithinLimits'
  <2>1. m \notin Rows /\ Rows' = Rows \cup {m} /\ row'[m].role = "admin" /\ request' = request
    BY <1>2, InsertEffect DEF FoundsGroup
  <2>2. Rows = {}
    BY <1>2 DEF FoundsGroup, Structure, Founding
  <2>3. Cardinality(Rows') = 1
    BY <1>g, <2>1, <2>2, FS_EmptySet
  <2>4. MemberRows' = {}
    BY <2>1, <2>2 DEF MemberRows
  <2>5. QED
    BY <1>a, <1>c, <1>d, <2>1, <2>3, <2>4, FS_EmptySet
<1>3. ASSUME NEW m \in Member, AddsAdministrator(m) PROVE WithinLimits'
  <2>1. /\ m \notin Rows /\ Rows' = Rows \cup {m} /\ row'[m].role = "admin"
        /\ request' = request /\ \A n \in Rows : row'[n] = row[n]
    BY <1>3, InsertEffect DEF AddsAdministrator, tokenVars
  <2>2. MemberRows = Rows
    BY <1>3, <1>a DEF AddsAdministrator, NoRowHas, OneAdministrator, MemberRows, Rows, Role
  <2>3. MemberRows' = MemberRows
    BY <2>1 DEF MemberRows
  <2>4. Cardinality(Rows') = Cardinality(Rows) + 1
    BY <1>g, <2>1
  <2>5. QED
    BY <1>a, <1>b, <1>c, <1>d, <2>1, <2>2, <2>3, <2>4, FiniteTables
<1>4. ASSUME NEW m \in Member, NEW c \in MaybeToken, AddsMember(m, c) PROVE WithinLimits'
  <2>1. m \notin Rows /\ Rows' = Rows \cup {m}
    BY <1>4, InsertEffect DEF AddsMember, InsertMember
  <2>2. Cardinality(Rows) < MaxMembers
    BY <1>4 DEF AddsMember, HasRoom
  <2>3. Cardinality(Rows') = Cardinality(Rows) + 1
    BY <1>g, <2>1
  <2>4. IsFiniteSet(Rows') /\ MemberRows' \subseteq Rows'
    BY <2>1, FiniteTables, FS_AddElement DEF MemberRows
  <2>5. Cardinality(MemberRows') <= Cardinality(Rows') /\ Cardinality(MemberRows') \in Nat
    BY <2>4, FS_Subset, FS_CardinalityType
  <2>6. Pending' \in SUBSET Pending
    BY <1>4, <1>a DEF AddsMember, Redeemable, Pending
  <2>7. QED
    BY <1>a, <1>c, <1>f, <2>2, <2>3, <2>5, <2>6, FiniteTables
<1>5. ASSUME NEW t \in Token, Requests(t) PROVE WithinLimits'
  <2>1. row' = row
    BY <1>5 DEF Requests
  <2>2. Rows' = Rows
    BY <2>1 DEF Rows
  <2>3. CASE request' = [request EXCEPT ![t] = "pending"] /\ Cardinality(Pending) < MaxPending
    <3>1. Pending' = Pending \cup {t}
      BY <1>a, <2>3 DEF Pending
    <3>2. IsFiniteSet(Pending) /\ Cardinality(Pending) \in Nat
      BY FiniteTables
    <3>3. Cardinality(Pending \cup {t}) \in {Cardinality(Pending), Cardinality(Pending) + 1}
      BY <3>2, FS_AddElement
    <3>4. Cardinality(Pending') <= MaxPending
      BY <1>a, <2>3, <3>1, <3>2, <3>3
    <3>5. QED
      BY <1>c, <1>e, <2>1, <2>2, <3>4
  <2>4. ASSUME NEW d \in {"none", "approved", "rejected"}, request' = [request EXCEPT ![t] = d]
        PROVE  WithinLimits'
    <3>1. Pending' \in SUBSET Pending
      BY <1>a, <2>4 DEF Pending
    <3>2. QED
      BY <1>c, <1>e, <1>f, <2>1, <2>2, <3>1
  <2>5. QED
    BY <1>5, <2>3, <2>4 DEF Requests
<1>6. ASSUME NEW m \in Member, MarksRow(m) \/ RotatesOwn(m) PROVE WithinLimits'
  <2>1. request' = request
    BY <1>6 DEF MarksRow, RotatesOwn, tokenVars
  <2>2. Rows' = Rows /\ \A n \in Rows : row'[n].role = row[n].role
    BY <1>6, UpdateEffect
  <2>3. QED
    BY <1>c, <1>d, <1>e, <2>1, <2>2
<1>7. CASE RotatesInvitation
  <2>1. row' = row /\ request' = request
    BY <1>7 DEF RotatesInvitation
  <2>2. Rows' = Rows
    BY <2>1 DEF Rows
  <2>3. QED
    BY <1>c, <1>d, <1>e, <2>1, <2>2
<1>8. QED
  BY <1>1, <1>2, <1>3, <1>4, <1>5, <1>6, <1>7, TableSteps DEF ChangesTables

(***************************************************************************)
(* issue_member and create_join_request count the rows in the transaction  *)
(* that inserts one: no interleaving of admissions, bans, founding and     *)
(* crashes brings a group past its caps.                                   *)
(***************************************************************************)
THEOREM WithinLimitsCorrect == Spec => []WithinLimits
<1>1. Init => WithinLimits
  <2> SUFFICES ASSUME Init PROVE WithinLimits
    OBVIOUS
  <2>1. Rows = {} /\ {m \in Rows : row[m].role = "member"} = {}
    BY DEF Init, Rows, NoRow
  <2>2. Pending \in SUBSET {2}
    <3>1. PICK u \in {"pending", "approved", "rejected"} :
             request = [t \in Token |->
                IF mode = "approval" /\ t = 2 /\ minted = 2 THEN u ELSE "none"]
      BY DEF Init
    <3>2. QED
      BY <3>1 DEF Pending
  <2>3. Cardinality(Pending) <= 1 /\ Cardinality(Pending) \in Nat
    <3>1. IsFiniteSet({2}) /\ Cardinality({2}) = 1
      BY FS_Singleton
    <3>2. Cardinality(Pending) <= Cardinality({2})
      BY <2>2, <3>1, FS_Subset
    <3>3. QED
      BY <3>1, <3>2, FiniteTables
  <2>4. QED
    BY <2>1, <2>3, FS_EmptySet, ConstantsAssumption DEF WithinLimits
<1>2. QED
  BY <1>1, LimitsStep, TypeCorrect, StructureCorrect, OneAdministratorCorrect, PTL DEF Spec

-----------------------------------------------------------------------------
(* Whose token each token is *)

(***************************************************************************)
(* No token is in two places: of the administrator, the invitation, the    *)
(* requests and the rows, at most one has it, and all have been minted.    *)
(***************************************************************************)
Distinct ==
    /\ adminToken <= minted /\ inviteToken <= minted
    /\ adminToken = inviteToken => adminToken = NoToken
    /\ group = "none" => adminToken = NoToken /\ inviteToken = NoToken
    /\ group # "none" /\ mode = "invite" => inviteToken # NoToken
    /\ \A t \in Token : request[t] # "none" => t <= minted /\ t # adminToken /\ t # inviteToken
    /\ \A m \in Rows :
          /\ row[m].cred \in 1..minted /\ row[m].cred # inviteToken
          /\ request[row[m].cred] = "none"
          /\ row[m].role = "member" => row[m].cred # adminToken
    /\ \A m, n \in Rows : row[m].cred = row[n].cred => m = n

\* Every insertion, redemption and rotation keeps the tokens apart.
LEMMA DistinctStep ==
    ASSUME TypeOK, TypeOK', Structure, OneAdministrator, Distinct, [Next]_vars
    PROVE  Distinct'
<1>a. /\ row \in [Member -> Row]
      /\ request \in [Token -> {"none", "pending", "approved", "rejected"}]
      /\ minted \in Nat /\ minted <= MaxTokens /\ adminToken \in Nat /\ inviteToken \in Nat
      /\ MaxTokens \in Nat
      /\ \A m \in Member : row[m].role \in Role /\ row[m].cred \in MaybeToken
  BY ConstantsAssumption, FieldTypes DEF TypeOK, MaybeToken, Token
<1>b. mode' = mode
  BY TableSteps
<1>c. /\ \A t \in Token : t \in Nat \ {0} /\ t <= MaxTokens
      /\ \A t \in Nat \ {0} : t <= MaxTokens => t \in Token
      /\ NextToken = minted + 1 /\ NoToken = 0
      /\ \A n \in {1, 2} : CanMint(n) => minted + n \in Token
  BY <1>a DEF Token, NextToken, NoToken, CanMint
<1>d. \A t \in Token : request[t] # "none" => t <= minted /\ t # adminToken /\ t # inviteToken
  BY DEF Distinct
<1>e. \A m \in Rows : /\ row[m].cred \in 1..minted /\ row[m].cred # inviteToken
                      /\ row[m].cred \in Token /\ request[row[m].cred] = "none"
                      /\ row[m].role = "member" => row[m].cred # adminToken
  BY <1>a, <1>c DEF Distinct
<1>1. CASE KeepsTables
  <2>1. UNCHANGED <<row, adminToken, inviteToken, request, minted, mode>> /\ Rows' = Rows
        /\ (group' = "none" <=> group = "none")
    BY <1>1, <1>b DEF KeepsTables, tokenVars, Rows
  <2>2. QED
    BY <2>1 DEF Distinct
<1>2. ASSUME NEW m \in Member, FoundsGroup(m) PROVE Distinct'
  <2>1. /\ m \notin Rows /\ Rows' = Rows \cup {m} /\ row'[m].role = "admin"
        /\ row'[m].cred = minted + 1 /\ request' = request /\ adminToken' = minted + 1
        /\ group' = "stored"
    <3>1. FreshMember(m) /\ row' = [row EXCEPT ![m] = ActiveRow("admin", minted + 1, NoToken)]
      BY <1>2 DEF FoundsGroup
    <3>2. /\ m \notin Rows /\ Rows' = Rows \cup {m}
          /\ row'[m].role = "admin" /\ row'[m].cred = minted + 1
      BY <3>1, InsertEffect
    <3>3. QED
      BY <1>2, <3>2 DEF FoundsGroup
  <2>2. Rows' = {m}
    BY <1>2, <2>1 DEF FoundsGroup, Structure, Founding
  <2>3. /\ minted' \in {minted + 1, minted + 2} /\ inviteToken' <= minted'
        /\ inviteToken' \in {NoToken, minted + 2} /\ (mode = "invite" => inviteToken' # NoToken)
    BY <1>2, <1>a, <1>c DEF FoundsGroup
  <2>4. minted + 1 \in Token /\ request[minted + 1] = "none"
    BY <1>2, <1>a, <1>c, <1>d DEF FoundsGroup, CanMint
  <2>5. QED
    BY <1>a, <1>b, <1>c, <1>d, <2>1, <2>2, <2>3, <2>4 DEF Distinct
<1>3. ASSUME NEW m \in Member, AddsAdministrator(m) PROVE Distinct'
  <2>1. /\ m \notin Rows /\ Rows' = Rows \cup {m} /\ row'[m].role = "admin"
        /\ row'[m].cred = adminToken /\ \A n \in Rows : row'[n] = row[n]
    BY <1>3, InsertEffect DEF AddsAdministrator
  <2>2. /\ UNCHANGED <<adminToken, inviteToken, request, minted, group, mode>>
        /\ adminToken # NoToken /\ \A n \in Rows : row[n].cred # adminToken
    BY <1>3, <1>b DEF AddsAdministrator, tokenVars, NoRowHas
  <2>3. adminToken \in Token /\ adminToken # inviteToken /\ adminToken \in 1..minted
    BY <1>a, <1>c, <2>2 DEF Distinct
  <2>4. QED
    BY <1>a, <1>c, <1>d, <1>e, <2>1, <2>2, <2>3 DEF Distinct
<1>4. ASSUME NEW m \in Member, NEW c \in MaybeToken, AddsMember(m, c) PROVE Distinct'
  <2>1. /\ m \notin Rows /\ Rows' = Rows \cup {m} /\ row'[m].role = "member"
        /\ row'[m].cred = NextToken /\ \A n \in Rows : row'[n] = row[n]
    BY <1>4, InsertEffect DEF AddsMember, InsertMember
  <2>2. /\ UNCHANGED <<adminToken, inviteToken, group, mode>> /\ minted' = minted + 1
        /\ NextToken \in Token /\ NextToken = minted + 1
    BY <1>4, <1>a, <1>b, <1>c DEF AddsMember, InsertMember
  <2>3. \A t \in Token : request'[t] # "none" => request[t] # "none"
    BY <1>4, <1>a DEF AddsMember
  <2>4. \A t \in Token : request[t] = "none" => request'[t] = "none"
    BY <2>3
  <2>5. request[NextToken] = "none"
    BY <1>a, <1>d, <2>2
  <2>6. adminToken # NextToken /\ inviteToken # NextToken
    BY <1>a, <2>2 DEF Distinct
  <2>7. QED
    BY <1>a, <1>c, <1>d, <1>e, <2>1, <2>2, <2>3, <2>4, <2>5, <2>6 DEF Distinct
<1>5. ASSUME NEW t \in Token, Requests(t) PROVE Distinct'
  <2>1. UNCHANGED <<row, adminToken, inviteToken, group, mode>> /\ Rows' = Rows
    BY <1>5, <1>b DEF Requests, Rows
  <2>2. CASE t = NextToken /\ minted' = NextToken
    <3>1. /\ \A u \in Token : u # t => request'[u] = request[u]
          /\ t = minted + 1 /\ minted' = minted + 1
      BY <1>5, <1>a, <1>c, <2>2 DEF Requests
    <3>2. t # adminToken /\ t # inviteToken /\ \A m \in Rows : row[m].cred # t
      BY <1>a, <1>e, <3>1 DEF Distinct
    <3>3. QED
      BY <1>a, <1>c, <1>d, <1>e, <2>1, <3>1, <3>2 DEF Distinct
  <2>3. CASE minted' = minted /\ request[t] # "none"
    <3>1. \A u \in Token : u # t => request'[u] = request[u]
      BY <1>5, <1>a DEF Requests
    <3>2. QED
      BY <1>a, <1>c, <1>d, <1>e, <2>1, <2>3, <3>1 DEF Distinct
  <2>4. QED
    BY <1>5, <2>2, <2>3 DEF Requests, Redeemable
<1>6. ASSUME NEW m \in Member, MarksRow(m) PROVE Distinct'
  <2>1. /\ UNCHANGED <<adminToken, inviteToken, request, minted, group, mode>> /\ Rows' = Rows
        /\ \A n \in Rows : row'[n].role = row[n].role /\ row'[n].cred = row[n].cred
    BY <1>6, <1>b, UpdateEffect DEF MarksRow, tokenVars
  <2>2. QED
    BY <2>1 DEF Distinct
<1>7. ASSUME NEW m \in Member, RotatesOwn(m) PROVE Distinct'
  <2>1. /\ Rows' = Rows /\ m \in Rows /\ \A n \in Rows : row'[n].role = row[n].role
        /\ \A n \in Rows \ {m} : row'[n].cred = row[n].cred
        /\ row'[m].cred = minted + 1
    BY <1>7, <1>c, UpdateEffect
  <2>2. /\ UNCHANGED <<inviteToken, request, group, mode>> /\ minted' = minted + 1
        /\ NextToken \in Token /\ NextToken = minted + 1
        /\ \/ row[m].role = "member" /\ adminToken' = adminToken
           \/ row[m].role = "admin" /\ adminToken' = minted + 1
    BY <1>7, <1>b, <1>c DEF RotatesOwn
  <2>3. request[minted + 1] = "none"
    BY <1>a, <1>d, <2>2
  <2>4. adminToken # minted + 1 /\ inviteToken # minted + 1 /\ adminToken <= minted
    BY <1>a DEF Distinct
  <2>5. \A n \in Rows \ {m} : row[m].role = "admin" => row[n].role = "member"
    BY <1>a, <2>1 DEF OneAdministrator, Role, Rows
  <2>6. row[m].role = "admin" => group # "none"
    BY <2>1 DEF Structure, Founding
  <2>7. /\ adminToken' <= minted' /\ inviteToken' <= minted'
        /\ adminToken' = inviteToken' => adminToken' = NoToken
        /\ group' = "none" => adminToken' = NoToken /\ inviteToken' = NoToken
        /\ group' # "none" /\ mode' = "invite" => inviteToken' # NoToken
    BY <1>a, <2>1, <2>2, <2>4, <2>6 DEF Distinct, NoToken
  <2>8. \A t \in Token : request'[t] # "none" => t <= minted' /\ t # adminToken' /\ t # inviteToken'
    BY <1>a, <1>c, <1>d, <2>2
  <2>9. \A n \in Rows' :
          /\ row'[n].cred \in 1..minted' /\ row'[n].cred # inviteToken'
          /\ request'[row'[n].cred] = "none"
          /\ row'[n].role = "member" => row'[n].cred # adminToken'
    <3>1. CASE row[m].role = "member"
      BY <1>a, <1>e, <2>1, <2>2, <2>3, <2>4, <3>1
    <3>2. CASE row[m].role = "admin"
      BY <1>a, <1>e, <2>1, <2>2, <2>3, <2>4, <3>2
    <3>3. QED
      BY <2>2, <3>1, <3>2
  <2>10. \A n, l \in Rows' : row'[n].cred = row'[l].cred => n = l
    BY <1>a, <1>e, <2>1 DEF Distinct
  <2>11. QED
    BY <2>7, <2>8, <2>9, <2>10 DEF Distinct
<1>8. CASE RotatesInvitation
  <2>1. /\ UNCHANGED <<row, adminToken, request, group, mode>> /\ Rows' = Rows
        /\ minted' = minted + 1 /\ inviteToken' = minted + 1
    BY <1>8, <1>b, <1>c DEF RotatesInvitation, Rows
  <2>2. group # "none"
    BY <1>8 DEF RotatesInvitation
  <2>3. QED
    BY <1>a, <1>c, <1>d, <1>e, <2>1, <2>2 DEF Distinct
<1>9. QED
  BY <1>1, <1>2, <1>3, <1>4, <1>5, <1>6, <1>7, <1>8, TableSteps DEF ChangesTables

\* The tokens of a new database, and of one that an earlier schema left, are distinct.
LEMMA DistinctInit == Init => Distinct
<1> SUFFICES ASSUME Init PROVE Distinct
  OBVIOUS
<1>1. Rows = {}
  BY DEF Init, Rows, NoRow
<1>2. minted \in {0, 1, 2}
  BY DEF Init
<1>3. \A t \in Token : request[t] # "none" => mode = "approval" /\ t = 2 /\ minted = 2
  BY DEF Init
<1>4. QED
  BY <1>1, <1>2, <1>3 DEF Init, Distinct, NoToken

-----------------------------------------------------------------------------
(* How many members an approval admits *)

AdmittedBy(t) == {m \in Rows : row[m].origin = t /\ row[m].role = "member"}

(***************************************************************************)
(* A request that is still there has admitted nobody but for crashes: the  *)
(* one that admits its member is deleted with it.                          *)
(***************************************************************************)
Redeemed ==
    mode = "approval" => \A t \in Token :
        /\ Cardinality(AdmittedBy(t)) <= 1 + crashes
        /\ request[t] # "none" => Cardinality(AdmittedBy(t)) <= crashes
        /\ t > minted => AdmittedBy(t) = {}

\* A redemption counts once, and a request that goes unredeemed not at all.
LEMMA RedeemedStep ==
    ASSUME TypeOK, TypeOK', Structure, Distinct, Redeemed, [Next]_vars
    PROVE  Redeemed'
<1>a. /\ row \in [Member -> Row]
      /\ request \in [Token -> {"none", "pending", "approved", "rejected"}]
      /\ minted \in Nat /\ crashes \in Nat /\ Token \subseteq Nat
  BY ConstantsAssumption DEF TypeOK, MaybeToken, Token
<1>b. mode' = mode
  BY TableSteps
<1>c. \A t \in Token : IsFiniteSet(AdmittedBy(t)) /\ Cardinality(AdmittedBy(t)) \in Nat
  <2>1. \A t \in Token : AdmittedBy(t) \subseteq Rows
    BY DEF AdmittedBy
  <2>2. QED
    BY <2>1, FiniteTables, FS_Subset, FS_CardinalityType
<1>d. /\ \A t \in Token : request[t] # "none" => t <= minted
      /\ NextToken = minted + 1
  BY DEF Distinct, NextToken
<1>e. mode = "approval" => \A t \in Token :
         /\ Cardinality(AdmittedBy(t)) <= 1 + crashes
         /\ request[t] # "none" => Cardinality(AdmittedBy(t)) <= crashes
         /\ t > minted => AdmittedBy(t) = {}
  BY DEF Redeemed
<1>f. ASSUME crashes' \in Nat, crashes <= crashes', minted' \in {minted, minted + 1, minted + 2},
             \A t \in Token : AdmittedBy(t)' = AdmittedBy(t),
             \A t \in Token : request'[t] = "none" \/ request[t] # "none" \/ t > minted
      PROVE  Redeemed'
  <2> SUFFICES ASSUME mode = "approval", NEW t \in Token
               PROVE  /\ Cardinality(AdmittedBy(t)') <= 1 + crashes'
                      /\ request'[t] # "none" => Cardinality(AdmittedBy(t)') <= crashes'
                      /\ t > minted' => AdmittedBy(t)' = {}
    BY <1>b DEF Redeemed
  <2>1. AdmittedBy(t)' = AdmittedBy(t)
    BY <1>f
  <2>2. Cardinality(AdmittedBy(t)) \in Nat
    BY <1>c
  <2>3. t > minted => Cardinality(AdmittedBy(t)) = 0
    BY <1>e, FS_EmptySet
  <2>4. QED
    BY <1>a, <1>e, <1>f, <2>1, <2>2, <2>3
<1>g. ASSUME Rows' = Rows,
             \A n \in Rows : row'[n].role = row[n].role /\ row'[n].origin = row[n].origin,
             NEW t
      PROVE  AdmittedBy(t)' = AdmittedBy(t)
  BY <1>g DEF AdmittedBy
<1>1. CASE KeepsTables
  <2>1. UNCHANGED <<row, request, minted>> /\ Rows' = Rows /\ crashes' \in Nat
        /\ crashes <= crashes'
    BY <1>1 DEF KeepsTables, tokenVars, Rows
  <2>2. QED
    BY <1>f, <1>g, <2>1
<1>2. ASSUME NEW m \in Member, FoundsGroup(m) \/ AddsAdministrator(m) PROVE Redeemed'
  <2>1. PICK c, d : FreshMember(m) /\ row' = [row EXCEPT ![m] = ActiveRow("admin", c, d)]
    BY <1>2 DEF FoundsGroup, AddsAdministrator
  <2>2. /\ Rows' = Rows \cup {m} /\ m \notin Rows /\ row'[m].role = "admin"
        /\ \A n \in Rows : row'[n] = row[n]
    BY <2>1, InsertEffect
  <2>3. \A t \in Token : AdmittedBy(t)' = AdmittedBy(t)
    BY <2>2 DEF AdmittedBy
  <2>4. /\ minted' \in {minted, minted + 1, minted + 2} /\ request' = request
        /\ crashes' = crashes
    BY <1>2 DEF FoundsGroup, AddsAdministrator, tokenVars
  <2>5. QED
    BY <1>a, <1>f, <2>3, <2>4
<1>3. ASSUME NEW m \in Member, NEW c \in MaybeToken, AddsMember(m, c) PROVE Redeemed'
  <2> SUFFICES ASSUME mode = "approval" PROVE Redeemed'
    BY <1>b DEF Redeemed
  <2>1. /\ m \notin Rows /\ Rows' = Rows \cup {m} /\ row'[m].role = "member"
        /\ row'[m].origin = c /\ \A n \in Rows : row'[n] = row[n]
    BY <1>3, InsertEffect DEF AddsMember, InsertMember
  <2>2. /\ c \in Token /\ request[c] = "approved" /\ minted' = minted + 1
        /\ \/ request' = [request EXCEPT ![c] = "none"] /\ crashes' = crashes
           \/ request' = request /\ crashes' = crashes + 1
    BY <1>3, <1>d DEF AddsMember, InsertMember, Redeemable
  <2>3. \A t \in Token \ {c} : AdmittedBy(t)' = AdmittedBy(t)
    BY <2>1 DEF AdmittedBy
  <2>4. AdmittedBy(c)' = AdmittedBy(c) \cup {m} /\ m \notin AdmittedBy(c)
    BY <2>1 DEF AdmittedBy
  <2>5. Cardinality(AdmittedBy(c)') = Cardinality(AdmittedBy(c)) + 1
    BY <1>c, <2>2, <2>4, FS_AddElement
  <2>6. Cardinality(AdmittedBy(c)) <= crashes /\ Cardinality(AdmittedBy(c)) \in Nat /\ c <= minted
    BY <1>c, <1>d, <1>e, <2>2
  <2>7. ASSUME NEW t \in Token
        PROVE  /\ Cardinality(AdmittedBy(t)') <= 1 + crashes'
               /\ request'[t] # "none" => Cardinality(AdmittedBy(t)') <= crashes'
               /\ t > minted' => AdmittedBy(t)' = {}
    <3>1. CASE t = c
      BY <1>a, <2>2, <2>5, <2>6, <3>1
    <3>2. CASE t # c
      <4>1. /\ AdmittedBy(t)' = AdmittedBy(t) /\ request'[t] = request[t]
            /\ Cardinality(AdmittedBy(t)) \in Nat
        BY <1>a, <1>c, <2>2, <2>3, <3>2
      <4>2. QED
        BY <1>a, <1>e, <2>2, <4>1
    <3>3. QED
      BY <3>1, <3>2
  <2>8. QED
    BY <2>7 DEF Redeemed
<1>4. ASSUME NEW t \in Token, Requests(t) PROVE Redeemed'
  <2>1. row' = row /\ Rows' = Rows /\ crashes' = crashes
    BY <1>4 DEF Requests, Rows
  <2>2. minted' \in {minted, minted + 1}
    BY <1>4, <1>d DEF Requests
  <2>3. \A u \in Token : u # t => request'[u] = request[u]
    BY <1>4, <1>a DEF Requests
  <2>4. request'[t] = "none" \/ request[t] # "none" \/ t > minted
    BY <1>4, <1>a, <1>d DEF Requests
  <2>5. QED
    BY <1>a, <1>f, <1>g, <2>1, <2>2, <2>3, <2>4
<1>5. ASSUME NEW m \in Member, MarksRow(m) \/ RotatesOwn(m) PROVE Redeemed'
  <2>1. /\ minted' \in {minted, minted + 1} /\ request' = request /\ crashes' = crashes
    BY <1>5, <1>d DEF MarksRow, RotatesOwn, tokenVars
  <2>2. /\ Rows' = Rows
        /\ \A n \in Rows : row'[n].role = row[n].role /\ row'[n].origin = row[n].origin
    BY <1>5, UpdateEffect
  <2>3. QED
    BY <1>a, <1>f, <1>g, <2>1, <2>2
<1>6. CASE RotatesInvitation
  <2>1. UNCHANGED <<row, request, crashes>> /\ Rows' = Rows /\ minted' = minted + 1
    BY <1>6, <1>d DEF RotatesInvitation, Rows
  <2>2. QED
    BY <1>a, <1>f, <1>g, <2>1
<1>7. QED
  BY <1>1, <1>2, <1>3, <1>4, <1>5, <1>6, TableSteps DEF ChangesTables

\* A token is in one place only, in every reachable state.
THEOREM DistinctCorrect == Spec => []Distinct
  BY DistinctInit, DistinctStep, TypeCorrect, StructureCorrect, OneAdministratorCorrect, PTL
  DEF Spec

(***************************************************************************)
(* redeem_approval inserts the member and deletes the request in two       *)
(* statements: an approved request admits one member, and one more for     *)
(* every crash of the gateway that came between the two.                   *)
(***************************************************************************)
THEOREM ApprovalAdmitsOnceCorrect == Spec => []ApprovalAdmitsOnce
<1>1. Init => Redeemed
  <2> SUFFICES ASSUME Init PROVE Redeemed
    OBVIOUS
  <2>1. crashes = 0 /\ \A t \in Token : AdmittedBy(t) = {}
    BY DEF Init, AdmittedBy, Rows, NoRow
  <2>2. \A t \in Token : Cardinality(AdmittedBy(t)) = 0
    BY <2>1, FS_EmptySet
  <2>3. QED
    BY <2>1, <2>2 DEF Redeemed
<1>2. Redeemed => ApprovalAdmitsOnce
  BY DEF Redeemed, ApprovalAdmitsOnce, AdmittedBy
<1>3. QED
  BY <1>1, <1>2, RedeemedStep, DistinctCorrect, TypeCorrect, StructureCorrect, PTL DEF Spec

-----------------------------------------------------------------------------
(* The tables keep the token ledger *)

\* the ledger's variable
Bearers == [t \in Token |-> Bearer(t)]

\* a request that is still open
Open(t) == request[t] \in {"pending", "approved"}

\* b is what the tables say that t stands for
Stands(t, b) ==
    \/ t > minted /\ b = "unused"
    \/ t <= minted /\ t = adminToken /\ b = "admin"
    \/ t <= minted /\ t # adminToken /\ t = inviteToken /\ b = "invite"
    \/ t <= minted /\ t # adminToken /\ t # inviteToken /\ Open(t) /\ b = "request"
    \/ /\ t <= minted /\ t # adminToken /\ t # inviteToken /\ ~Open(t)
       /\ (\A m \in Rows : row[m].cred # t) /\ b = "spent"
    \/ /\ t <= minted /\ t # adminToken /\ t # inviteToken /\ ~Open(t)
       /\ b \in Rows /\ row[b].cred = t

Standing == \A t \in Token : Stands(t, Bearers[t])

\* Each token stands for one thing, which Bearer names.
LEMMA BearerStands == TypeOK => Standing
<1> SUFFICES ASSUME TypeOK, NEW t \in Token PROVE Stands(t, Bearer(t))
  BY DEF Standing, Bearers
<1>1. minted \in Nat /\ t \in Nat
  BY DEF TypeOK, MaybeToken, Token
<1>2. CASE t > minted \/ t = adminToken \/ t = inviteToken \/ Open(t) \/ NoRowHas(t)
  BY <1>1, <1>2 DEF Stands, Bearer, Open, NoRowHas
<1>3. CASE ~(t > minted \/ t = adminToken \/ t = inviteToken \/ Open(t) \/ NoRowHas(t))
  <2>1. Bearer(t) = CHOOSE m \in Rows : row[m].cred = t
    BY <1>3 DEF Bearer, Open
  <2>2. \E m \in Rows : row[m].cred = t
    BY <1>3 DEF NoRowHas
  <2>3. Bearer(t) \in Rows /\ row[Bearer(t)].cred = t
    BY <2>1, <2>2
  <2>4. QED
    BY <1>1, <1>3, <2>3 DEF Stands
<1>4. QED
  BY <1>2, <1>3

\* The same of the next state.
LEMMA BearerStandsNext == TypeOK' => Standing'
  BY BearerStands, PTL

\* Each step on the tables is a step of the ledger, or changes no token.
LEMMA LedgerStep ==
    ASSUME TypeOK, TypeOK', Structure, OneAdministrator, Distinct, Distinct', [Next]_vars
    PROVE  [Ledger!Next]_Bearers
<1>1. PICK B : B = Bearers
  OBVIOUS
<1>2. PICK C : C = Bearers'
  OBVIOUS
<1>a. /\ row \in [Member -> Row]
      /\ request \in [Token -> {"none", "pending", "approved", "rejected"}]
      /\ minted \in Nat /\ minted <= MaxTokens /\ adminToken \in Nat /\ inviteToken \in Nat
      /\ MaxTokens \in Nat /\ minted' \in Nat
      /\ \A m \in Member : row[m].role \in Role
  BY ConstantsAssumption, FieldTypes DEF TypeOK, MaybeToken, Token
<1>b. /\ \A m \in Rows : m \in Member
      /\ \A m \in Member : m \notin {"unused", "admin", "invite", "request", "spent"}
  BY ConstantsAssumption DEF Rows
<1>c. /\ \A t \in Token : t \in Nat \ {0}
      /\ NextToken = minted + 1 /\ NoToken = 0
      /\ \A n \in {1, 2} : CanMint(n) => minted + n \in Token
  BY <1>a DEF Token, NextToken, NoToken, CanMint
<1>d. \A t \in Token : request[t] # "none" => t <= minted /\ t # adminToken /\ t # inviteToken
  BY DEF Distinct
<1>e. \A m \in Rows : /\ row[m].cred \in Token /\ row[m].cred <= minted /\ row[m].cred # inviteToken
                      /\ request[row[m].cred] = "none"
                      /\ row[m].role = "member" => row[m].cred # adminToken
  BY <1>a, <1>c DEF Distinct, Token
<1>f. \A m, n \in Rows : row[m].cred = row[n].cred => m = n
  BY DEF Distinct
<1>g. \A t \in Token : Stands(t, B[t])
  BY <1>1, BearerStands DEF Standing
<1>h. \A t \in Token : \* Stands(t, C[t]) of the next state
         \/ t > minted' /\ C[t] = "unused"
         \/ t <= minted' /\ t = adminToken' /\ C[t] = "admin"
         \/ t <= minted' /\ t # adminToken' /\ t = inviteToken' /\ C[t] = "invite"
         \/ t <= minted' /\ t # adminToken' /\ t # inviteToken' /\ Open(t)' /\ C[t] = "request"
         \/ /\ t <= minted' /\ t # adminToken' /\ t # inviteToken' /\ ~Open(t)'
            /\ (\A m \in Rows' : row'[m].cred # t) /\ C[t] = "spent"
         \/ /\ t <= minted' /\ t # adminToken' /\ t # inviteToken' /\ ~Open(t)'
            /\ C[t] \in Rows' /\ row'[C[t]].cred = t
  BY <1>2, BearerStandsNext DEF Standing, Stands
<1>i. B = [t \in Token |-> B[t]] /\ C = [t \in Token |-> C[t]]
  BY <1>1, <1>2 DEF Bearers
<1>q. ASSUME C = B PROVE [Ledger!Next]_Bearers
  BY <1>1, <1>2, <1>q
<1>m. ASSUME NEW t \in Token, NEW b \in Member \cup {"admin", "request"}, B[t] = "unused",
             b # "request" => \A u \in Token : B[u] # b,
             C[t] = b, \A u \in Token : u # t => C[u] = B[u]
      PROVE  [Ledger!Next]_Bearers
  <2>1. C = [B EXCEPT ![t] = b]
    BY <1>i, <1>m
  <2>2. Ledger!Mint(t, b)
    BY <1>1, <1>2, <1>b, <1>m, <2>1 DEF Ledger!Mint, Ledger!Free, Ledger!Single, Bearers
  <2>3. QED
    BY <1>q, <1>1, <1>2, <2>2 DEF Ledger!Next, Ledger!Single, Bearers
<1>s. ASSUME NEW t \in Token, B[t] = "request", C[t] = "spent",
             \A u \in Token : u # t => C[u] = B[u]
      PROVE  [Ledger!Next]_Bearers
  <2>1. C = [B EXCEPT ![t] = "spent"]
    BY <1>i, <1>s
  <2>2. Ledger!Spend(t)
    BY <1>1, <1>2, <1>s, <2>1 DEF Ledger!Spend, Bearers
  <2>3. QED
    BY <1>q, <1>1, <1>2, <2>2 DEF Ledger!Next, Bearers
<1>r. ASSUME NEW t \in Token, NEW v \in Token, t # v,
             B[t] \in Member \cup {"admin", "invite"}, B[v] = "unused",
             C[t] = "spent", C[v] = B[t], \A u \in Token : u # t /\ u # v => C[u] = B[u]
      PROVE  [Ledger!Next]_Bearers
  <2>1. C = [B EXCEPT ![t] = "spent", ![v] = B[t]]
    BY <1>i, <1>r
  <2>2. Ledger!Replace(t, v)
    BY <1>1, <1>2, <1>r, <2>1 DEF Ledger!Replace, Ledger!Single, Bearers
  <2>3. QED
    BY <1>q, <1>1, <1>2, <2>2 DEF Ledger!Next, Bearers
<1>x. ASSUME NEW t \in Token, NEW v \in Token, NEW m \in Member, t # v,
             B[t] = "request", B[v] = "unused", \A u \in Token : B[u] # m,
             C[t] = "spent", C[v] = m, \A u \in Token : u # t /\ u # v => C[u] = B[u]
      PROVE  [Ledger!Next]_Bearers
  <2>1. C = [B EXCEPT ![t] = "spent", ![v] = m]
    BY <1>i, <1>x
  <2>2. Ledger!Exchange(t, v, m)
    BY <1>1, <1>2, <1>x, <2>1 DEF Ledger!Exchange, Ledger!Free, Bearers
  <2>3. QED
    BY <1>q, <1>1, <1>2, <2>2 DEF Ledger!Next, Bearers
<1>y. ASSUME NEW t \in Token, NEW v \in Token, t # v, B[t] = "unused", B[v] = "unused",
             \A u \in Token : B[u] # "admin" /\ B[u] # "invite",
             C[t] = "admin", C[v] = "invite", \A u \in Token : u # t /\ u # v => C[u] = B[u]
      PROVE  [Ledger!Next]_Bearers
  <2>1. C = [B EXCEPT ![t] = "admin", ![v] = "invite"]
    BY <1>i, <1>y
  <2>2. Ledger!Found(t, v)
    BY <1>1, <1>2, <1>y, <2>1 DEF Ledger!Found, Ledger!Free, Bearers
  <2>3. QED
    BY <1>q, <1>1, <1>2, <2>2 DEF Ledger!Next, Bearers
<1>z. ASSUME \A t \in Token : C[t] = B[t] PROVE [Ledger!Next]_Bearers
  BY <1>i, <1>q, <1>z
<1>w. ASSUME UNCHANGED <<adminToken, inviteToken, request, minted>>, Rows' = Rows,
             \A m \in Rows : row'[m].cred = row[m].cred
      PROVE  [Ledger!Next]_Bearers
  BY <1>a, <1>c, <1>f, <1>g, <1>h, <1>w, <1>z DEF Stands, Open
<1>3. CASE KeepsTables
  BY <1>3, <1>w DEF KeepsTables, tokenVars, Rows
<1>4. ASSUME NEW m \in Member, FoundsGroup(m) PROVE [Ledger!Next]_Bearers
  <2>1. FreshMember(m) /\ row' = [row EXCEPT ![m] = ActiveRow("admin", minted + 1, NoToken)]
    BY <1>4 DEF FoundsGroup
  <2>2. Rows' = Rows \cup {m} /\ row'[m].cred = minted + 1
    BY <2>1, InsertEffect
  <2>3. Rows = {} /\ adminToken = 0 /\ inviteToken = 0 /\ request' = request
        /\ adminToken' = minted + 1
    BY <1>4, <1>c DEF FoundsGroup, Structure, Founding, Distinct
  <2>4. minted + 1 \in Token /\ B[minted + 1] = "unused" /\ C[minted + 1] = "admin"
    <3>1. minted + 1 \in Token /\ minted + 1 <= minted'
      BY <1>4, <1>a, <1>c DEF FoundsGroup, CanMint
    <3>2. QED
      BY <1>a, <1>c, <1>g, <1>h, <2>3, <3>1 DEF Stands
  <2>5. \A u \in Token : B[u] # "admin" /\ B[u] # "invite"
    BY <1>a, <1>c, <1>g, <2>3 DEF Stands
  <2>6. CASE inviteToken' = NoToken /\ minted' = minted + 1
    <3>1. \A u \in Token : u # minted + 1 => C[u] = B[u]
      BY <1>a, <1>c, <1>g, <1>h, <2>2, <2>3, <2>6 DEF Stands, Open
    <3>2. QED
      BY <1>m, <2>4, <2>5, <3>1
  <2>7. CASE inviteToken' = minted + 2 /\ minted' = minted + 2 /\ CanMint(2)
    <3>1. minted + 2 \in Token /\ B[minted + 2] = "unused" /\ C[minted + 2] = "invite"
      BY <1>a, <1>c, <1>g, <1>h, <2>3, <2>7 DEF Stands
    <3>2. \A u \in Token : u # minted + 1 /\ u # minted + 2 => C[u] = B[u]
      BY <1>a, <1>c, <1>g, <1>h, <2>2, <2>3, <2>7 DEF Stands, Open
    <3>3. minted + 1 # minted + 2
      BY <1>a
    <3>4. QED
      BY <1>y, <2>4, <2>5, <3>1, <3>2, <3>3
  <2>8. QED
    BY <1>4, <2>6, <2>7 DEF FoundsGroup
<1>5. ASSUME NEW m \in Member, AddsAdministrator(m) PROVE [Ledger!Next]_Bearers
  <2>1. Rows' = Rows \cup {m} /\ row'[m].cred = adminToken /\ \A n \in Rows : row'[n] = row[n]
    BY <1>5, InsertEffect DEF AddsAdministrator
  <2>2. UNCHANGED <<adminToken, inviteToken, request, minted>>
    BY <1>5 DEF AddsAdministrator, tokenVars
  <2>3. QED
    BY <1>a, <1>c, <1>f, <1>g, <1>h, <1>z, <2>1, <2>2 DEF Stands, Open
<1>6. ASSUME NEW m \in Member, NEW c \in MaybeToken, AddsMember(m, c) PROVE [Ledger!Next]_Bearers
  <2>1. /\ m \notin Rows /\ Rows' = Rows \cup {m} /\ row'[m].cred = NextToken
        /\ \A n \in Rows : row'[n] = row[n]
    BY <1>6, InsertEffect DEF AddsMember, InsertMember
  <2>2. /\ UNCHANGED <<adminToken, inviteToken>> /\ minted' = minted + 1
        /\ NextToken \in Token /\ NextToken = minted + 1
    BY <1>6, <1>c DEF AddsMember, InsertMember
  <2>3. adminToken # NextToken /\ inviteToken # NextToken /\ request[NextToken] = "none"
    BY <1>a, <1>d, <2>2 DEF Distinct
  <2>4. B[NextToken] = "unused" /\ \A u \in Token : B[u] # m
    BY <1>a, <1>c, <1>b, <1>g, <2>1, <2>2 DEF Stands
  <2>5. CASE request' = request
    <3>1. C[NextToken] = m
      BY <1>a, <1>c, <1>e, <1>h, <2>1, <2>2, <2>3, <2>5 DEF Open
    <3>2. \A u \in Token : u # NextToken => C[u] = B[u]
      BY <1>a, <1>c, <1>e, <1>f, <1>g, <1>h, <2>1, <2>2, <2>5 DEF Stands, Open
    <3>3. QED
      BY <1>b, <1>m, <2>2, <2>4, <3>1, <3>2
  <2>6. CASE Redeemable(c) /\ request' = [request EXCEPT ![c] = "none"]
    <3>1. /\ c \in Token /\ request[c] = "approved" /\ c <= minted /\ c # adminToken
          /\ c # inviteToken /\ \A n \in Rows : row[n].cred # c
      BY <1>d, <2>6 DEF Redeemable, NoRowHas
    <3>2. c # NextToken /\ request'[c] = "none"
          /\ \A u \in Token : u # c => request'[u] = request[u]
      BY <1>a, <2>2, <2>6, <3>1
    <3>3. B[c] = "request"
      BY <1>a, <1>c, <1>g, <3>1 DEF Stands, Open
    <3>4. C[c] = "spent"
      <4>1. c <= minted' /\ c # adminToken' /\ c # inviteToken' /\ ~Open(c)'
        BY <1>a, <1>c, <2>2, <3>1, <3>2 DEF Open
      <4>2. \A n \in Rows' : row'[n].cred # c
        BY <2>1, <3>1, <3>2
      <4>3. QED
        BY <1>a, <1>c, <1>h, <3>1, <4>1, <4>2
    <3>5. C[NextToken] = m
      BY <1>a, <1>c, <1>e, <1>h, <2>1, <2>2, <2>3, <3>2 DEF Open
    <3>6. \A u \in Token : u # NextToken /\ u # c => C[u] = B[u]
      BY <1>a, <1>c, <1>e, <1>f, <1>g, <1>h, <2>1, <2>2, <3>2 DEF Stands, Open
    <3>7. QED
      BY <1>x, <2>2, <2>4, <3>1, <3>2, <3>3, <3>4, <3>5, <3>6
  <2>7. QED
    BY <1>6, <2>5, <2>6 DEF AddsMember
<1>7. ASSUME NEW t \in Token, Requests(t) PROVE [Ledger!Next]_Bearers
  <2>1. UNCHANGED <<row, adminToken, inviteToken>> /\ Rows' = Rows
    BY <1>7 DEF Requests, Rows
  <2>2. \A u \in Token : u # t => request'[u] = request[u]
    BY <1>7, <1>a DEF Requests
  <2>3. CASE t = NextToken /\ minted' = NextToken /\ request'[t] = "pending"
    <3>1. t = minted + 1 /\ minted' = minted + 1
      BY <1>c, <2>3
    <3>2. B[t] = "unused" /\ t # adminToken /\ t # inviteToken
      BY <1>a, <1>c, <1>g, <3>1 DEF Stands, Distinct
    <3>3. C[t] = "request"
      BY <1>a, <1>c, <1>h, <2>1, <2>3, <3>1, <3>2 DEF Open
    <3>4. \A u \in Token : u # t => C[u] = B[u]
      BY <1>a, <1>c, <1>f, <1>g, <1>h, <2>1, <2>2, <3>1 DEF Stands, Open
    <3>5. QED
      BY <1>m, <3>2, <3>3, <3>4
  <2>4. CASE minted' = minted /\ Open(t) /\ (Open(t)' \/ NoRowHas(t))
    <3>1. \A u \in Token : u # t => C[u] = B[u]
      BY <1>a, <1>c, <1>f, <1>g, <1>h, <2>1, <2>2, <2>4 DEF Stands, Open
    <3>2. t <= minted /\ t # adminToken /\ t # inviteToken
      BY <1>d, <2>4 DEF Open
    <3>3. B[t] = "request"
      BY <1>a, <1>c, <1>g, <2>4, <3>2 DEF Stands
    <3>4. CASE Open(t)'
      BY <1>a, <1>c, <1>h, <1>z, <2>1, <2>4, <3>1, <3>2, <3>3, <3>4
    <3>5. CASE ~Open(t)'
      <4>1. C[t] = "spent"
        BY <1>a, <1>c, <1>h, <2>1, <2>4, <3>2, <3>5 DEF NoRowHas
      <4>2. QED
        BY <1>s, <3>1, <3>3, <4>1
    <3>6. QED
      BY <3>4, <3>5
  <2>5. NoRowHas(t) \/ request[t] = "none"
    BY <1>e DEF NoRowHas
  <2>6. QED
    BY <1>7, <1>a, <2>3, <2>4, <2>5 DEF Requests, Redeemable, Open
<1>8. ASSUME NEW m \in Member, MarksRow(m) PROVE [Ledger!Next]_Bearers
  <2>1. /\ UNCHANGED <<adminToken, inviteToken, request, minted>> /\ Rows' = Rows
        /\ \A n \in Rows : row'[n].cred = row[n].cred
    BY <1>8, UpdateEffect DEF MarksRow, tokenVars
  <2>2. QED
    BY <1>w, <2>1
<1>9. ASSUME NEW m \in Member, RotatesOwn(m) PROVE [Ledger!Next]_Bearers
  <2>1. /\ Rows' = Rows /\ m \in Rows
        /\ \A n \in Rows \ {m} : row'[n].cred = row[n].cred
        /\ row'[m].cred = minted + 1
    BY <1>9, <1>c, UpdateEffect
  <2>2. /\ UNCHANGED <<inviteToken, request>> /\ minted' = minted + 1
        /\ minted + 1 \in Token
        /\ \/ row[m].role = "member" /\ adminToken' = adminToken
           \/ row[m].role = "admin" /\ adminToken' = minted + 1
    BY <1>9, <1>c DEF RotatesOwn
  <2>3. PICK old : old = row[m].cred
    OBVIOUS
  <2>4. /\ old \in Token /\ old <= minted /\ old # minted + 1 /\ old # inviteToken
        /\ request[old] = "none" /\ request[minted + 1] = "none"
        /\ adminToken <= minted /\ inviteToken <= minted
        /\ \A n \in Rows \ {m} : row[n].cred # old
    BY <1>a, <1>d, <1>e, <1>f, <2>1, <2>2, <2>3 DEF Distinct
  <2>5. B[minted + 1] = "unused"
    BY <1>a, <1>c, <1>g, <2>2 DEF Stands
  <2>6. CASE row[m].role = "member"
    <3>1. adminToken' = adminToken /\ old # adminToken
      BY <1>e, <2>1, <2>2, <2>3, <2>6
    <3>2. B[old] = m
      BY <1>a, <1>c, <1>f, <1>g, <2>1, <2>3, <2>4, <3>1 DEF Stands, Open
    <3>3. C[old] = "spent"
      BY <1>a, <1>c, <1>h, <2>1, <2>2, <2>4, <3>1 DEF Open
    <3>4. C[minted + 1] = m
      BY <1>a, <1>c, <1>e, <1>h, <2>1, <2>2, <2>4, <3>1 DEF Open
    <3>5. \A u \in Token : u # old /\ u # minted + 1 => C[u] = B[u]
      BY <1>a, <1>c, <1>f, <1>g, <1>h, <2>1, <2>2, <2>3, <2>4, <3>1 DEF Stands, Open
    <3>6. QED
      BY <1>r, <2>2, <2>4, <2>5, <3>2, <3>3, <3>4, <3>5
  <2>7. CASE row[m].role = "admin"
    <3>1. adminToken' = minted + 1 /\ old = adminToken
      BY <2>1, <2>2, <2>3, <2>7 DEF OneAdministrator
    <3>2. B[old] = "admin"
      BY <1>a, <1>c, <1>g, <2>4, <3>1 DEF Stands
    <3>3. C[old] = "spent"
      BY <1>a, <1>c, <1>h, <2>1, <2>2, <2>4, <3>1 DEF Open
    <3>4. C[minted + 1] = "admin"
      BY <1>a, <1>c, <1>h, <2>2, <3>1
    <3>5. \A u \in Token : u # old /\ u # minted + 1 => C[u] = B[u]
      <4>1. \A u \in Token, n \in Rows :
               u # old /\ u # minted + 1 => (row'[n].cred = u <=> row[n].cred = u)
        BY <2>1, <2>3
      <4>2. \A u \in Token : u # minted + 1 => (u > minted <=> u > minted')
        BY <1>a, <1>c, <2>2
      <4>3. \A u \in Token : Open(u)' <=> Open(u)
        BY <2>2 DEF Open
      <4>4. ASSUME NEW u \in Token, u # old, u # minted + 1 PROVE C[u] = B[u]
        <5>1. u # adminToken /\ u # adminToken' /\ inviteToken' = inviteToken
          BY <2>2, <3>1, <4>4
        <5>2. Stands(u, B[u])
          BY <1>g
        <5>3. QED
          BY <1>a, <1>c, <1>f, <1>h, <2>1, <4>1, <4>2, <4>3, <4>4, <5>1, <5>2 DEF Stands
      <4>5. QED
        BY <4>4
    <3>6. QED
      BY <1>r, <2>2, <2>4, <2>5, <3>2, <3>3, <3>4, <3>5
  <2>8. QED
    BY <2>2, <2>6, <2>7
<1>10. CASE RotatesInvitation
  <2>1. /\ UNCHANGED <<row, adminToken, request>> /\ Rows' = Rows
        /\ minted' = minted + 1 /\ inviteToken' = minted + 1 /\ minted + 1 \in Token
    BY <1>10, <1>c DEF RotatesInvitation, Rows
  <2>2. PICK old : old = inviteToken
    OBVIOUS
  <2>3. /\ old \in Token /\ old <= minted /\ old # minted + 1 /\ old # adminToken
        /\ ~Open(old) /\ adminToken <= minted /\ \A n \in Rows : row[n].cred # old
    <3>1. old # NoToken /\ old <= minted /\ adminToken <= minted /\ old # adminToken
      BY <1>10, <2>2 DEF RotatesInvitation, Distinct
    <3>2. old \in Token
      BY <1>a, <2>2, <3>1 DEF Token, NoToken
    <3>3. QED
      BY <1>a, <1>d, <1>e, <2>2, <3>1, <3>2 DEF Open
  <2>4. B[old] = "invite" /\ B[minted + 1] = "unused"
    BY <1>a, <1>c, <1>g, <2>1, <2>2, <2>3 DEF Stands
  <2>5. C[old] = "spent" /\ C[minted + 1] = "invite"
    BY <1>a, <1>c, <1>h, <2>1, <2>3 DEF Open
  <2>6. \A u \in Token : u # old /\ u # minted + 1 => C[u] = B[u]
    BY <1>a, <1>c, <1>f, <1>g, <1>h, <2>1, <2>2 DEF Stands, Open
  <2>7. QED
    BY <1>r, <2>1, <2>3, <2>4, <2>5, <2>6
<1>11. QED
  BY <1>3, <1>4, <1>5, <1>6, <1>7, <1>8, <1>9, <1>10, TableSteps DEF ChangesTables

(***************************************************************************)
(* Admission, redemption, rotation, bans and crashes write the tables      *)
(* piecemeal; seen through them every token stands for one identity at a   *)
(* time, an identity has one token, and a spent token stays spent.         *)
(***************************************************************************)
THEOREM TokensFollowLedgerCorrect == Spec => TokensFollowLedger
<1>1. Init => Ledger!Init
  <2> SUFFICES ASSUME Init PROVE Ledger!Init
    OBVIOUS
  <2>1. /\ Rows = {} /\ minted \in {0, 1, 2} /\ adminToken \in {0, 1} /\ inviteToken \in {0, 2}
    BY DEF Init, Rows, NoRow, NoToken
  <2>2. \A t \in Token : Bearer(t) \in {"unused", "admin", "invite", "request", "spent"}
    BY <2>1 DEF Bearer, NoRowHas
  <2>3. \A t \in Token : /\ Bearer(t) = "admin" => t = adminToken
                         /\ Bearer(t) = "invite" => t = inviteToken
    BY <2>1 DEF Bearer, NoRowHas
  <2>4. QED
    BY <2>2, <2>3, ConstantsAssumption DEF Ledger!Init, Ledger!Single
<1>2. TypeOK /\ TypeOK' /\ Structure /\ OneAdministrator /\ Distinct /\ Distinct' /\ [Next]_vars
         => [Ledger!Next]_Bearers
  BY LedgerStep
<1>3. Spec => Ledger!Spec
  BY <1>1, <1>2, TypeCorrect, StructureCorrect, OneAdministratorCorrect, DistinctCorrect, PTL
  DEF Spec, Ledger!Spec, Bearers
<1>4. QED
  BY <1>3 DEF TokensFollowLedger
=============================================================================
