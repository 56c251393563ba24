-------------------------- MODULE ProvisioningProofs --------------------------
(***************************************************************************)
(* What Provisioning promises for every set of identities, names and       *)
(* requests, and any number of tenants, errors and crashes.                *)
(***************************************************************************)
EXTENDS Provisioning, TLAPS

\* Tenants 1 .. n are usable in d.
Whole(d, n) == \A t \in 1 .. n : HasAdmin(d, t) /\ t \in d.tokens

\* The UNIQUE constraints of users.
OneEach(d) ==
  \A u, v \in d.users :
    u.name = v.name \/ (u.sid = v.sid /\ u.sid # NoId) => u = v

InTx(r) == req[r].pc \in Founding \cup Joining

\* A request holds the lock exactly while it is in a transaction, and no two do.
LockHeld ==
  /\ \A r \in Request : r \in writer <=> InTx(r)
  /\ \A r, s \in writer : r = s

\* How far the transaction of r has brought the draft.  The lock keeps db still
\* meanwhile, so the draft is db and what r wrote.
TxOK(r) ==
  /\ InTx(r) =>
       /\ db.users \subseteq draft.users
       /\ OneEach(draft)
  /\ req[r].pc \in Founding =>
       /\ draft.tenants = db.tenants + 1
       /\ Whole(draft, db.tenants)
       /\ \A u \in draft.users \ db.users : u.tenant = draft.tenants
  /\ req[r].pc \in {"user", "token"} => HasAdmin(draft, draft.tenants)
  /\ req[r].pc = "token" => draft.tenants \in draft.tokens
  /\ req[r].pc \in Joining =>
       /\ draft.tenants = db.tenants
       /\ Whole(draft, draft.tenants)
       /\ \A u \in draft.users \ db.users : u.name = req[r].name
  /\ req[r].pc = "accepted" => \A v \in draft.invites : v.email # req[r].name
  /\ req[r].pc = "invited" => \A v \in req[r].invite : v.email = req[r].name

\* The inductive invariant.
IInv ==
  /\ TypeOK
  /\ LockHeld
  /\ OneEach(db)
  /\ TenantsWhole
  /\ AnswersStand
  /\ \A r \in Request : TxOK(r)

-------------------------------------------------------------------------------

LEMMA IdleType == Idle \in ReqState
  BY ProvisioningAssumption DEF Idle, ReqState, Phase

\* Adding a user changes nothing else of the database.
LEMMA AddUserType ==
  ASSUME NEW d \in Db, NEW u \in User
  PROVE  /\ AddUser(d, u) \in Db
         /\ AddUser(d, u).users = d.users \cup {u}
         /\ AddUser(d, u).tenants = d.tenants
         /\ AddUser(d, u).tokens = d.tokens
         /\ AddUser(d, u).invites = d.invites
  BY DEF AddUser, Db

LEMMA InviteeType ==
  ASSUME TypeOK, NEW r \in Request, NEW v \in req[r].invite
  PROVE  v \in Invite /\ Invitee(r, v) \in User
  BY DEF TypeOK, ReqState, Invitee, Invite, User

LEMMA FounderType ==
  ASSUME TypeOK, NEW r \in Request, draft.tenants # 0
  PROVE  Founder(r) \in User
  BY ProvisioningAssumption DEF TypeOK, ReqState, Db, Founder, User, Tenant, Role

\* Adding a user the UNIQUE constraints allow keeps them.
LEMMA AddUserUnique ==
  ASSUME NEW d \in Db, NEW u \in User, OneEach(d), Unique(d, u)
  PROVE  OneEach(AddUser(d, u))
  BY AddUserType DEF OneEach, Unique

\* Tenants stay usable when users and tokens are only added.
LEMMA WholeGrows ==
  ASSUME NEW d, NEW e, NEW n \in Nat, Whole(d, n),
         d.users \subseteq e.users, d.tokens \subseteq e.tokens
  PROVE  Whole(e, n)
  BY DEF Whole, HasAdmin

LEMMA InitIInv == Init => IInv
<1> SUFFICES ASSUME Init PROVE IInv
  OBVIOUS
<1> USE ProvisioningAssumption
<1>1. TypeOK
  <2>1. db \in Db
    BY DEF Init, Db, User, Tenant, Role
  <2> QED
    BY <2>1, IdleType DEF Init, TypeOK
<1>2. \A r \in Request : req[r] = Idle
  BY DEF Init
<1>3. LockHeld /\ \A r \in Request : TxOK(r)
  BY <1>2 DEF Init, LockHeld, TxOK, InTx, Idle, Founding, Joining
<1>4. OneEach(db)
  BY DEF Init, OneEach
<1>5. TenantsWhole
  <2> DEFINE admin == [sid |-> NoId, name |-> AdminName, tenant |-> 1,
                       role |-> "admin"]
  <2>1. admin \in db.users /\ admin.tenant = 1 /\ admin.role = "admin"
    BY DEF Init
  <2>2. HasAdmin(db, 1)
    BY <2>1 DEF HasAdmin
  <2>3. db.tenants = 1 /\ 1 \in db.tokens
    BY DEF Init
  <2>4. \A t \in 1 .. db.tenants : t = 1
    BY <2>3
  <2> QED
    BY <2>2, <2>3, <2>4 DEF TenantsWhole
<1>6. AnswersStand
  BY DEF Init, AnswersStand
<1> QED
  BY <1>1, <1>3, <1>4, <1>5, <1>6 DEF IInv

-------------------------------------------------------------------------------
\* Type correctness.
LEMMA NextTypeOK == ASSUME IInv, [Next]_vars PROVE TypeOK'
<1> USE ProvisioningAssumption, IdleType
<1> USE DEF IInv
<1>0. ASSUME NEW r \in Request, NEW pc \in Phase, Goto(r, pc)
      PROVE  req' \in [Request -> ReqState]
  BY <1>0 DEF TypeOK, Goto, ReqState
<1>1. ASSUME NEW r \in Request, NEW i \in Identity, Lookup(r, i) PROVE TypeOK'
  <2>1. req' \in [Request -> ReqState]
    BY <1>1 DEF TypeOK, Lookup, ReqState, Phase
  <2>2. answered' \in [Identity -> SUBSET (Tenant \X Role)]
    BY <1>1 DEF TypeOK, Lookup, Answer, Db, User
  <2> QED
    BY <1>1, <2>1, <2>2 DEF TypeOK, Lookup
<1>2. ASSUME NEW r \in Request, CheckInvite(r) PROVE TypeOK'
  BY <1>2 DEF TypeOK, CheckInvite, ReqState, Phase, Db
<1>3. ASSUME NEW r \in Request, AcceptUser(r) PROVE TypeOK'
  <2>1. PICK v \in req[r].invite : OpensWith(r, AddUser(db, Invitee(r, v)))
    BY <1>3 DEF AcceptUser
  <2>2. draft' \in Db
    BY <2>1, InviteeType, AddUserType DEF OpensWith, TypeOK
  <2> QED
    BY <1>0, <1>3, <2>1, <2>2 DEF TypeOK, AcceptUser, OpensWith, Phase, Joining
<1>4. ASSUME NEW r \in Request, AcceptConsume(r) PROVE TypeOK'
  BY <1>0, <1>4 DEF TypeOK, AcceptConsume, Writes, Db, Phase, Joining
<1>5. ASSUME NEW r \in Request, NEW n \in CliName, CliCreateTenant(r, n)
      PROVE  TypeOK'
  BY <1>5 DEF TypeOK, CliCreateTenant, ReqState, Phase
<1>6. ASSUME NEW r \in Request, FoundTenant(r) PROVE TypeOK'
  BY <1>0, <1>6 DEF TypeOK, FoundTenant, OpensWith, Db, Phase, Founding
<1>7. ASSUME NEW r \in Request, FoundUser(r) PROVE TypeOK'
  <2>1. draft.tenants # 0
    BY <1>7 DEF FoundUser, TxOK, Founding, TypeOK, Db
  <2>2. draft' \in Db
    BY <1>7, <2>1, FounderType, AddUserType DEF FoundUser, Writes, TypeOK
  <2> QED
    BY <1>0, <1>7, <2>2 DEF TypeOK, FoundUser, Writes, Phase, Founding
<1>8. ASSUME NEW r \in Request, FoundToken(r) PROVE TypeOK'
  <2>1. draft.tenants \in Tenant
    BY <1>8 DEF FoundToken, TxOK, Founding, TypeOK, Db, Tenant
  <2>2. draft' \in Db
    BY <1>8, <2>1 DEF FoundToken, Writes, TypeOK, Db
  <2> QED
    BY <1>0, <1>8, <2>2 DEF TypeOK, FoundToken, Writes, Phase, Founding
<1>9. ASSUME NEW r \in Request, Commit(r) PROVE TypeOK'
  <2>1. answered' \in [Identity -> SUBSET (Tenant \X Role)]
    BY <1>9 DEF TypeOK, Commit, Answer, Db, User
  <2>2. req' \in [Request -> ReqState]
    BY <1>9 DEF TypeOK, Commit
  <2> QED
    BY <1>9, <2>1, <2>2 DEF TypeOK, Commit
<1>10. ASSUME NEW rs \in SUBSET Request, Rollback(rs)
       PROVE  /\ db' \in Db /\ draft' \in Db
              /\ writer' \in SUBSET Request
              /\ req' \in [Request -> ReqState]
  BY <1>10 DEF TypeOK, Rollback
<1>11. ASSUME NEW r \in Request, Conflict(r) \/ Fail(r) PROVE TypeOK'
  <2>1. Rollback({r})
    BY <1>11 DEF Conflict, Fail
  <2> QED
    BY <1>10, <1>11, <2>1 DEF TypeOK, Conflict, Fail
<1>12. CASE Crash
  BY <1>10, <1>12 DEF TypeOK, Crash
<1>13. ASSUME NEW d \in Db, AutoCommits(d) PROVE TypeOK'
  BY <1>13 DEF TypeOK, AutoCommits
<1>14. ASSUME NEW t \in Tenant, NEW role \in Role, NEW e \in Name,
              CreateInvite(t, e, role)
       PROVE  TypeOK'
  BY <1>13, <1>14 DEF CreateInvite, TypeOK, Db, Invite
<1>15. ASSUME NEW t \in Tenant, NEW e \in Name, DeleteInvite(t, e)
       PROVE  TypeOK'
  BY <1>13, <1>15 DEF DeleteInvite, TypeOK, Db
<1>16. ASSUME NEW t \in Tenant, NEW role \in Role, NEW n \in CliName,
              CliCreateUser(t, n, role)
       PROVE  TypeOK'
  <2>1. [sid |-> NoId, name |-> n, tenant |-> t, role |-> role] \in User
    BY DEF User
  <2> QED
    BY <1>13, <1>16, <2>1, AddUserType DEF CliCreateUser, TypeOK
<1>17. ASSUME NEW t \in Tenant, CliCreateToken(t) PROVE TypeOK'
  BY <1>13, <1>17 DEF CliCreateToken, TypeOK, Db
<1>18. CASE UNCHANGED vars
  BY <1>18 DEF vars, TypeOK
<1> QED
  BY <1>1, <1>2, <1>3, <1>4, <1>5, <1>6, <1>7, <1>8, <1>9, <1>11, <1>12,
     <1>14, <1>15, <1>16, <1>17, <1>18 DEF Next

-------------------------------------------------------------------------------
\* The write lock.
LEMMA NextLockHeld == ASSUME IInv, [Next]_vars PROVE LockHeld'
<1> USE DEF IInv, LockHeld, InTx, TypeOK, Founding, Joining
<1>1. ASSUME NEW r \in Request, NEW i \in Identity, Lookup(r, i) PROVE LockHeld'
  BY <1>1 DEF Lookup
<1>2. ASSUME NEW r \in Request, CheckInvite(r) PROVE LockHeld'
  BY <1>2 DEF CheckInvite
<1>3. ASSUME NEW r \in Request, AcceptUser(r) PROVE LockHeld'
  BY <1>3 DEF AcceptUser, OpensWith, Goto
<1>4. ASSUME NEW r \in Request, AcceptConsume(r) PROVE LockHeld'
  BY <1>4 DEF AcceptConsume, Writes, Goto
<1>5. ASSUME NEW r \in Request, NEW n \in CliName, CliCreateTenant(r, n)
      PROVE  LockHeld'
  BY <1>5 DEF CliCreateTenant
<1>6. ASSUME NEW r \in Request, FoundTenant(r) PROVE LockHeld'
  BY <1>6 DEF FoundTenant, OpensWith, Goto
<1>7. ASSUME NEW r \in Request, NEW d, NEW pc \in Founding, req[r].pc \in Founding,
             Writes(r, d), Goto(r, pc)
      PROVE  LockHeld'
  BY <1>7 DEF Writes, Goto
<1>7a. ASSUME NEW r \in Request, FoundUser(r) PROVE LockHeld'
  BY <1>7, <1>7a DEF FoundUser
<1>7b. ASSUME NEW r \in Request, FoundToken(r) PROVE LockHeld'
  BY <1>7, <1>7b DEF FoundToken
<1>8. ASSUME NEW r \in Request, Commit(r) PROVE LockHeld'
  BY <1>8 DEF Commit, Idle
<1>9. ASSUME NEW rs \in SUBSET Request, Rollback(rs) PROVE LockHeld'
  BY <1>9 DEF Rollback, Idle
<1>10. ASSUME NEW r \in Request, Conflict(r) \/ Fail(r) PROVE LockHeld'
  BY <1>9, <1>10 DEF Conflict, Fail
<1>11. CASE Crash
  BY <1>9, <1>11 DEF Crash
<1>12. ASSUME NEW d, AutoCommits(d) PROVE LockHeld'
  BY <1>12 DEF AutoCommits
<1>13. ASSUME NEW t, NEW role, NEW n,
              \/ CreateInvite(t, n, role) \/ DeleteInvite(t, n)
              \/ CliCreateUser(t, n, role) \/ CliCreateToken(t)
       PROVE  LockHeld'
  BY <1>12, <1>13 DEF CreateInvite, DeleteInvite, CliCreateUser, CliCreateToken
<1>15. CASE UNCHANGED vars
  BY <1>15 DEF vars
<1> HIDE DEF IInv, LockHeld
<1> QED
  BY <1>1, <1>2, <1>3, <1>4, <1>5, <1>6, <1>7a, <1>7b, <1>8, <1>10, <1>11,
     <1>13, <1>15 DEF Next

-------------------------------------------------------------------------------
\* A request in no transaction, or whose transaction is left alone.
LEMMA FrameTx ==
  ASSUME NEW s \in Request, TxOK(s), req'[s] = req[s],
         ~InTx(s) \/ (db' = db /\ draft' = draft)
  PROVE  TxOK(s)'
<1>1. CASE db' = db /\ draft' = draft
  BY <1>1 DEF TxOK, InTx, OneEach, Whole, HasAdmin
<1>2. CASE ~InTx(s)
  BY <1>2 DEF TxOK, InTx, Founding, Joining
<1> QED
  BY <1>1, <1>2

LEMMA UnheldTx ==
  ASSUME NEW s \in Request, req'[s].pc \in {"idle", "missing", "founding"}
  PROVE  TxOK(s)'
  BY DEF TxOK, InTx, Founding, Joining

\* A step of the transaction of r, or the one that opens it, concerns no other.
LEMMA OthersTx ==
  ASSUME IInv, NEW r \in Request, writer = {} \/ r \in writer,
         NEW s \in Request, s # r, req'[s] = req[s]
  PROVE  TxOK(s)'
<1>1. ~InTx(s)
  BY DEF IInv, LockHeld
<1> QED
  BY <1>1, FrameTx DEF IInv

\* db stays, answers stay.
LEMMA FrameDb ==
  ASSUME IInv, db' = db, answered' = answered
  PROVE  OneEach(db)' /\ TenantsWhole' /\ AnswersStand'
  BY DEF IInv, OneEach, TenantsWhole, AnswersStand, HasAdmin

\* Accounts are only added, and an answer names the identity's own account.
LEMMA AnswersKept ==
  ASSUME IInv, db.users \subseteq db'.users, OneEach(db)',
         \/ answered' = answered
         \/ \E u \in db'.users : u.sid \in Identity /\ Answer(u)
  PROVE  AnswersStand'
<1> SUFFICES ASSUME NEW i \in Identity
             PROVE  LET accounts == {v \in db'.users : v.sid = i} IN
                      /\ \A v, w \in accounts : v = w
                      /\ \A a \in answered'[i] :
                           \E v \in accounts : a = <<v.tenant, v.role>>
  BY DEF AnswersStand
<1> DEFINE accounts == {v \in db'.users : v.sid = i}
<1>1. \A v, w \in accounts : v = w
  BY ProvisioningAssumption DEF OneEach
<1>2. \A a \in answered[i] : \E v \in accounts : a = <<v.tenant, v.role>>
  BY DEF IInv, AnswersStand
<1>3. \A a \in answered'[i] :
        a \in answered[i] \/ \E v \in accounts : a = <<v.tenant, v.role>>
  <2>1. CASE answered' = answered
    BY <2>1
  <2>2. ASSUME NEW u \in db'.users, u.sid \in Identity, Answer(u)
        PROVE  \A a \in answered'[i] :
                 a \in answered[i] \/ \E v \in accounts : a = <<v.tenant, v.role>>
    <3>1. answered'[i] = IF i = u.sid THEN answered[i] \cup {<<u.tenant, u.role>>}
                                      ELSE answered[i]
      BY <2>2 DEF Answer, IInv, TypeOK
    <3>2. i = u.sid => u \in accounts
      OBVIOUS
    <3> QED
      BY <3>1, <3>2
  <2> QED
    BY <2>1, <2>2
<1>4. \A a \in answered'[i] : \E v \in accounts : a = <<v.tenant, v.role>>
  BY <1>2, <1>3
<1> QED
  BY <1>1, <1>4

\* The rest of the invariant.
Rest == OneEach(db) /\ TenantsWhole /\ AnswersStand /\ \A s \in Request : TxOK(s)

LEMMA LookupRest ==
  ASSUME IInv, NEW r \in Request, NEW i \in Identity, Lookup(r, i) PROVE Rest'
<1>1. OneEach(db)' /\ TenantsWhole' /\ AnswersStand'
  <2>1. CASE UNCHANGED answered
    BY <2>1, FrameDb DEF Lookup
  <2>2. CASE \E u \in {v \in db.users : v.sid = i} : Answer(u)
    <3>1. OneEach(db)' /\ TenantsWhole'
      BY DEF Lookup, IInv, OneEach, TenantsWhole, HasAdmin
    <3> QED
      BY <2>2, <3>1, AnswersKept DEF Lookup
  <2> QED
    BY <2>1, <2>2 DEF Lookup
<1>2. ASSUME NEW s \in Request PROVE TxOK(s)'
  <2>1. CASE req'[s] = req[s]
    BY <2>1, FrameTx DEF Lookup, IInv
  <2>2. CASE req'[s] # req[s]
    <3>1. req'[s].pc = "missing"
      BY <2>2 DEF Lookup, IInv, TypeOK
    <3> QED
      BY <3>1, UnheldTx
  <2> QED
    BY <2>1, <2>2
<1> QED
  BY <1>1, <1>2 DEF Rest

LEMMA CheckInviteRest ==
  ASSUME IInv, NEW r \in Request, CheckInvite(r) PROVE Rest'
<1>1. OneEach(db)' /\ TenantsWhole' /\ AnswersStand'
  BY FrameDb DEF CheckInvite
<1>2. ASSUME NEW s \in Request, s # r PROVE TxOK(s)'
  BY <1>2, FrameTx DEF CheckInvite, IInv, TypeOK
<1>3. TxOK(r)'
  <2> DEFINE pending == {v \in db.invites : v.email = req[r].name}
  <2>1. /\ req'[r].pc \in {"invited", "founding"}
        /\ req'[r].invite = pending /\ req'[r].name = req[r].name
    BY DEF CheckInvite, IInv, TypeOK, ReqState
  <2> QED
    BY <2>1 DEF TxOK, InTx, Founding, Joining
<1> QED
  BY <1>1, <1>2, <1>3 DEF Rest

LEMMA CliCreateTenantRest ==
  ASSUME IInv, NEW r \in Request, NEW n \in CliName, CliCreateTenant(r, n)
  PROVE  Rest'
<1>1. OneEach(db)' /\ TenantsWhole' /\ AnswersStand'
  BY FrameDb DEF CliCreateTenant
<1>2. ASSUME NEW s \in Request, s # r PROVE TxOK(s)'
  BY <1>2, FrameTx DEF CliCreateTenant, IInv, TypeOK
<1>3. req'[r].pc = "founding"
  BY DEF CliCreateTenant, IInv, TypeOK
<1> QED
  BY <1>1, <1>2, <1>3, UnheldTx DEF Rest

\* A step inside a transaction: what is left to show is the requester's TxOK.
LEMMA TxStep ==
  ASSUME IInv, NEW r \in Request, NEW pc, Goto(r, pc), UNCHANGED <<db, answered>>,
         writer = {} \/ r \in writer, TxOK(r)'
  PROVE  Rest'
<1>1. ASSUME NEW s \in Request, s # r PROVE TxOK(s)'
  BY <1>1, OthersTx DEF Goto, IInv, TypeOK
<1> QED
  BY <1>1, FrameDb DEF Rest

LEMMA GotoValue ==
  ASSUME TypeOK, NEW r \in Request, NEW pc, Goto(r, pc)
  PROVE  req'[r].pc = pc /\ req'[r].name = req[r].name /\ req'[r].invite = req[r].invite
  BY DEF Goto, TypeOK, ReqState

LEMMA AcceptUserRest ==
  ASSUME IInv, NEW r \in Request, AcceptUser(r) PROVE Rest'
<1>1. PICK v \in req[r].invite : /\ Unique(db, Invitee(r, v))
                                 /\ OpensWith(r, AddUser(db, Invitee(r, v)))
  BY DEF AcceptUser
<1>2. Invitee(r, v) \in User /\ Invitee(r, v).name = req[r].name
  BY InviteeType DEF AcceptUser, IInv, TxOK, Invitee
<1>3. /\ draft' = AddUser(db, Invitee(r, v)) /\ db' = db /\ db \in Db
      /\ req'[r].pc = "accepting" /\ req'[r].name = req[r].name
  BY <1>1, GotoValue DEF OpensWith, AcceptUser, IInv, TypeOK
<1>4. OneEach(draft)'
  BY <1>1, <1>2, <1>3, AddUserUnique DEF IInv, OneEach
<1>5. Whole(db, db.tenants) /\ db.tenants \in Nat
  BY DEF IInv, TenantsWhole, Whole, TypeOK, Db
<1>6. Whole(draft, draft.tenants)'
  <2>1. Whole(draft', db.tenants)
    BY <1>2, <1>3, <1>5, AddUserType, WholeGrows
  <2> QED
    BY <2>1, <1>2, <1>3, AddUserType DEF Whole, HasAdmin
<1>7. TxOK(r)'
  BY <1>2, <1>3, <1>4, <1>6, AddUserType DEF TxOK, Founding, Joining
<1> QED
  BY <1>1, <1>7, TxStep DEF AcceptUser, OpensWith

LEMMA AcceptConsumeRest ==
  ASSUME IInv, NEW r \in Request, AcceptConsume(r) PROVE Rest'
<1> DEFINE d == [draft EXCEPT !.invites = {v \in @ : v.email # req[r].name}]
<1>1. /\ draft' = d /\ db' = db /\ d.users = draft.users
      /\ d.tenants = draft.tenants /\ d.tokens = draft.tokens
      /\ d.invites = {v \in draft.invites : v.email # req[r].name}
      /\ req'[r].pc = "accepted" /\ req'[r].name = req[r].name
  BY GotoValue DEF AcceptConsume, Writes, IInv, TypeOK, Db
<1> HIDE DEF d
<1>2. TxOK(r) /\ InTx(r) /\ req[r].pc = "accepting"
  BY DEF AcceptConsume, IInv, InTx, Joining
<1>3. TxOK(r)'
  BY <1>1, <1>2 DEF TxOK, InTx, Joining, Founding, OneEach, Whole, HasAdmin
<1> QED
  BY <1>2, <1>3, TxStep DEF AcceptConsume, Writes, IInv, LockHeld

LEMMA FoundTenantRest ==
  ASSUME IInv, NEW r \in Request, FoundTenant(r) PROVE Rest'
<1> DEFINE d == [db EXCEPT !.tenants = @ + 1]
<1>1. /\ draft' = d /\ db' = db /\ d.users = db.users
      /\ d.tenants = db.tenants + 1 /\ d.tokens = db.tokens
      /\ req'[r].pc = "tenant"
  BY GotoValue DEF FoundTenant, OpensWith, IInv, TypeOK, Db
<1> HIDE DEF d
<1>2. Whole(draft', db.tenants)
  BY <1>1 DEF IInv, TenantsWhole, Whole, HasAdmin
<1>3. TxOK(r)'
  BY <1>1, <1>2 DEF TxOK, IInv, Founding, Joining, OneEach
<1> QED
  BY <1>3, TxStep DEF FoundTenant, OpensWith

LEMMA FoundUserRest ==
  ASSUME IInv, NEW r \in Request, FoundUser(r) PROVE Rest'
<1> DEFINE u == Founder(r)
<1>1. TxOK(r) /\ InTx(r) /\ req[r].pc = "tenant" /\ draft \in Db /\ db \in Db
  BY DEF FoundUser, IInv, InTx, Founding, TypeOK
<1>2. draft.tenants = db.tenants + 1 /\ db.tenants \in Nat
  BY <1>1 DEF TxOK, Founding, Db
<1>3. u \in User /\ u.tenant = draft.tenants /\ u.role = "admin"
  BY <1>2, FounderType DEF Founder, IInv
<1>4. draft' = AddUser(draft, u) /\ db' = db /\ req'[r].pc = "user"
  BY GotoValue DEF FoundUser, Writes, IInv
<1> HIDE DEF u
<1>5. /\ draft'.users = draft.users \cup {u} /\ draft'.tenants = draft.tenants
      /\ draft'.tokens = draft.tokens
  BY <1>1, <1>3, <1>4, AddUserType
<1>6. OneEach(draft)'
  <2>1. OneEach(draft) /\ Unique(draft, u)
    BY <1>1 DEF TxOK, FoundUser, u
  <2>2. OneEach(AddUser(draft, u))
    BY <2>1, <1>1, <1>3, AddUserUnique
  <2> QED
    BY <2>2, <1>4 DEF OneEach
<1>7. Whole(draft', db.tenants)
  BY <1>1, <1>2, <1>5, WholeGrows DEF TxOK, Founding
<1>8. HasAdmin(draft', draft'.tenants)
  BY <1>3, <1>5 DEF HasAdmin
<1>9. TxOK(r)'
  <2>1. /\ db.users \subseteq draft.users
        /\ \A v \in draft.users \ db.users : v.tenant = draft.tenants
    BY <1>1 DEF TxOK, Founding
  <2> QED
    BY <2>1, <1>2, <1>3, <1>4, <1>5, <1>6, <1>7, <1>8
    DEF TxOK, Founding, Joining, HasAdmin
<1> QED
  BY <1>1, <1>9, TxStep DEF FoundUser, Writes, IInv, LockHeld

LEMMA FoundTokenRest ==
  ASSUME IInv, NEW r \in Request, FoundToken(r) PROVE Rest'
<1> DEFINE d == [draft EXCEPT !.tokens = @ \cup {draft.tenants}]
<1>1. /\ draft' = d /\ db' = db /\ d.users = draft.users
      /\ d.tenants = draft.tenants
      /\ d.tokens = draft.tokens \cup {draft.tenants}
      /\ req'[r].pc = "token"
  BY GotoValue DEF FoundToken, Writes, IInv, TypeOK, Db
<1> HIDE DEF d
<1>2. TxOK(r) /\ InTx(r) /\ req[r].pc = "user"
  BY DEF FoundToken, IInv, InTx, Founding
<1>3. Whole(draft', db.tenants)
  BY <1>1, <1>2 DEF TxOK, Founding, Whole, HasAdmin
<1>4. TxOK(r)'
  BY <1>1, <1>2, <1>3 DEF TxOK, InTx, Founding, Joining, OneEach, HasAdmin
<1> QED
  BY <1>2, <1>4, TxStep DEF FoundToken, Writes, IInv, LockHeld

LEMMA CommitRest ==
  ASSUME IInv, NEW r \in Request, Commit(r) PROVE Rest'
<1>1. TxOK(r) /\ InTx(r) /\ db' = draft
  BY DEF Commit, IInv, InTx, Founding, Joining
<1>2. db.users \subseteq db'.users /\ OneEach(db)'
  BY <1>1 DEF TxOK, OneEach
<1>3. TenantsWhole'
  <2>1. CASE req[r].pc = "accepted"
    BY <1>1, <2>1 DEF TxOK, Joining, Whole, TenantsWhole, HasAdmin
  <2>2. CASE req[r].pc = "token"
    <3>1. /\ draft.tenants = db.tenants + 1 /\ db.tenants \in Nat
          /\ Whole(draft, db.tenants) /\ HasAdmin(draft, draft.tenants)
          /\ draft.tenants \in draft.tokens
      BY <1>1, <2>2 DEF TxOK, Founding, IInv, TypeOK, Db
    <3>2. \A t \in 1 .. draft.tenants : t \in 1 .. db.tenants \/ t = draft.tenants
      BY <3>1
    <3>3. \A t \in 1 .. draft.tenants : HasAdmin(draft, t) /\ t \in draft.tokens
      BY <3>1, <3>2 DEF Whole
    <3> QED
      BY <3>3, <1>1 DEF TenantsWhole, HasAdmin
  <2> QED
    BY <2>1, <2>2 DEF Commit
<1>4. AnswersStand'
  <2>1. \/ answered' = answered
        \/ \E u \in db'.users : u.sid \in Identity /\ Answer(u)
    BY <1>1 DEF Commit, IInv, TypeOK, ReqState
  <2> QED
    BY <2>1, <1>2, AnswersKept
<1>5. ASSUME NEW s \in Request PROVE TxOK(s)'
  <2>1. CASE s = r
    BY <2>1, UnheldTx DEF Commit, IInv, TypeOK, Idle
  <2>2. CASE s # r
    BY <2>2, <1>1, OthersTx DEF Commit, IInv, TypeOK, LockHeld
  <2> QED
    BY <2>1, <2>2
<1> QED
  BY <1>2, <1>3, <1>4, <1>5 DEF Rest

LEMMA RollbackRest ==
  ASSUME IInv, NEW rs \in SUBSET Request, Rollback(rs), answered' = answered
  PROVE  Rest'
<1>1. ASSUME NEW s \in Request PROVE TxOK(s)'
  <2>1. CASE s \in rs
    BY <2>1, UnheldTx DEF Rollback, Idle
  <2>2. CASE s \notin rs
    <3>1. req'[s] = req[s]
      BY <2>2 DEF Rollback
    <3>2. InTx(s) => writer \cap rs = {}
      BY <2>2 DEF IInv, LockHeld
    <3> QED
      BY <3>1, <3>2, FrameTx DEF Rollback, IInv
  <2> QED
    BY <2>1, <2>2
<1> QED
  BY <1>1, FrameDb DEF Rollback, Rest

\* A statement of its own that adds users and tokens and leaves tenants alone.
LEMMA AutoCommitsRest ==
  ASSUME IInv, NEW d \in Db, AutoCommits(d), d.tenants = db.tenants,
         db.users \subseteq d.users, db.tokens \subseteq d.tokens, OneEach(d)
  PROVE  Rest'
<1>1. db' = d /\ answered' = answered /\ req' = req /\ writer = {}
  BY DEF AutoCommits
<1>2. OneEach(db)' /\ AnswersStand'
  BY <1>1, AnswersKept DEF OneEach
<1>3. TenantsWhole'
  BY <1>1, WholeGrows DEF IInv, TenantsWhole, Whole, HasAdmin
<1>4. ASSUME NEW s \in Request PROVE TxOK(s)'
  BY <1>1, FrameTx DEF IInv, LockHeld
<1> QED
  BY <1>2, <1>3, <1>4 DEF Rest

LEMMA InvitesRest ==
  ASSUME IInv, NEW is \in SUBSET Invite, AutoCommits([db EXCEPT !.invites = is])
  PROVE  Rest'
<1> DEFINE d == [db EXCEPT !.invites = is]
<1>1. /\ d \in Db /\ d.users = db.users /\ d.tenants = db.tenants
      /\ d.tokens = db.tokens
  BY DEF IInv, TypeOK, Db
<1>2. AutoCommits(d)
  OBVIOUS
<1> HIDE DEF d
<1>3. OneEach(d)
  BY <1>1 DEF IInv, OneEach
<1> QED
  BY <1>1, <1>2, <1>3, AutoCommitsRest

LEMMA CliRest ==
  ASSUME IInv, NEW t \in Tenant,
         \/ CliCreateToken(t)
         \/ \E role \in Role, n \in CliName : CliCreateUser(t, n, role)
  PROVE  Rest'
<1>1. CASE CliCreateToken(t)
  <2> DEFINE d == [db EXCEPT !.tokens = @ \cup {t}]
  <2>1. /\ d \in Db /\ d.users = db.users /\ d.tenants = db.tenants
        /\ db.tokens \subseteq d.tokens /\ AutoCommits(d)
    BY <1>1 DEF CliCreateToken, IInv, TypeOK, Db
  <2> HIDE DEF d
  <2>2. OneEach(d)
    BY <2>1 DEF IInv, OneEach
  <2> QED
    BY <2>1, <2>2, AutoCommitsRest
<1>2. ASSUME NEW role \in Role, NEW n \in CliName, CliCreateUser(t, n, role)
      PROVE  Rest'
  <2> DEFINE u == [sid |-> NoId, name |-> n, tenant |-> t, role |-> role]
             d == AddUser(db, u)
  <2>1. u \in User /\ db \in Db
    BY ProvisioningAssumption DEF User, IInv, TypeOK
  <2>2. Unique(db, u) /\ AutoCommits(d)
    BY <1>2 DEF CliCreateUser
  <2>3. OneEach(db)
    BY DEF IInv
  <2>4. OneEach(d)
    BY <2>1, <2>2, <2>3, AddUserUnique
  <2>5. /\ d \in Db /\ d.tenants = db.tenants /\ db.users \subseteq d.users
        /\ d.tokens = db.tokens
    BY <2>1, AddUserType
  <2> HIDE DEF d, u
  <2> QED
    BY <2>2, <2>4, <2>5, AutoCommitsRest
<1> QED
  BY <1>1, <1>2

LEMMA NextRest == ASSUME IInv, [Next]_vars PROVE Rest'
<1>1. ASSUME NEW r \in Request, Conflict(r) \/ Fail(r) PROVE Rest'
  BY <1>1, RollbackRest DEF Conflict, Fail
<1>2. CASE Crash
  BY <1>2, RollbackRest DEF Crash
<1>3. ASSUME NEW t \in Tenant, NEW role \in Role, NEW e \in Name,
             CreateInvite(t, e, role)
      PROVE  Rest'
  <2> DEFINE is == {v \in db.invites : v.email # e}
                     \cup {[email |-> e, tenant |-> t, role |-> role]}
  <2>1. is \in SUBSET Invite
    BY DEF IInv, TypeOK, Db, Invite
  <2>2. AutoCommits([db EXCEPT !.invites = is])
    BY <1>3 DEF CreateInvite
  <2> QED
    BY <2>1, <2>2, InvitesRest
<1>4. ASSUME NEW t \in Tenant, NEW e \in Name, DeleteInvite(t, e) PROVE Rest'
  <2> DEFINE is == {v \in db.invites : ~(v.tenant = t /\ v.email = e)}
  <2>1. is \in SUBSET Invite
    BY DEF IInv, TypeOK, Db
  <2>2. AutoCommits([db EXCEPT !.invites = is])
    BY <1>4 DEF DeleteInvite
  <2> QED
    BY <2>1, <2>2, InvitesRest
<1>5. CASE UNCHANGED vars
  BY <1>5, FrameDb, FrameTx DEF vars, Rest, IInv
<1> QED
  BY <1>1, <1>2, <1>3, <1>4, <1>5, LookupRest, CheckInviteRest, AcceptUserRest,
     AcceptConsumeRest, CliCreateTenantRest, FoundTenantRest, FoundUserRest,
     FoundTokenRest, CommitRest, CliRest DEF Next

-------------------------------------------------------------------------------
\* The inductive invariant holds: the lock is held by exactly the request in a
\* transaction, and the draft is the database plus what that request wrote.
THEOREM SpecIInv == Spec => []IInv
<1>1. Init => IInv
  BY InitIInv
<1>2. IInv /\ [Next]_vars => IInv'
  BY NextTypeOK, NextLockHeld, NextRest DEF IInv, Rest
<1> QED
  BY <1>1, <1>2, PTL DEF Spec

\* Every variable keeps to its type.
THEOREM TypeCorrect == Spec => []TypeOK
<1>1. IInv => TypeOK
  BY DEF IInv
<1> QED
  BY <1>1, SpecIInv, PTL

\* No tenant is ever half created, however many first logins, commands, errors
\* and crashes interleave.
THEOREM NoHalfCreatedTenant == Spec => []TenantsWhole
<1>1. IInv => TenantsWhole
  BY DEF IInv
<1> QED
  BY <1>1, SpecIInv, PTL

\* An identity is answered with one tenant and one role for ever.
THEOREM OneTenantPerIdentity == Spec => []AnswersStand
<1>1. IInv => AnswersStand
  BY DEF IInv
<1> QED
  BY <1>1, SpecIInv, PTL

\* Whoever joins by invite leaves no invite for that email behind.
THEOREM InvitesConsumed == Spec => AcceptConsumesInvite
<1> DEFINE A == \A u \in Joined : u.tenant <= db.tenants =>
                  \A v \in db'.invites : v.email # u.name
<1>1. ASSUME IInv, [Next]_vars PROVE A
  <2> SUFFICES ASSUME NEW u \in Joined, u.tenant <= db.tenants
               PROVE  \A v \in db'.invites : v.email # u.name
    OBVIOUS
  <2>1. u \in db'.users /\ u \notin db.users /\ u.sid # NoId
    BY DEF Joined
  <2>2. db.tenants \in Nat
    BY <1>1 DEF IInv, TypeOK, Db
  <2>3. ASSUME NEW r \in Request, Commit(r)
        PROVE  \A v \in db'.invites : v.email # u.name
    <3>1. TxOK(r) /\ db' = draft
      BY <1>1, <2>3 DEF IInv, Commit
    <3>2. req[r].pc # "token"
      BY <2>1, <2>2, <3>1 DEF TxOK, Founding
    <3>3. req[r].pc = "accepted"
      BY <2>3, <3>2 DEF Commit
    <3> QED
      BY <2>1, <3>1, <3>3 DEF TxOK, Joining
  <2>4. ASSUME NEW t \in Tenant, NEW role \in Role, NEW n \in CliName,
               CliCreateUser(t, n, role)
        PROVE  FALSE
    <3> DEFINE w == [sid |-> NoId, name |-> n, tenant |-> t, role |-> role]
    <3>1. w \in User /\ db \in Db /\ db' = AddUser(db, w)
      BY <1>1, <2>4, ProvisioningAssumption
      DEF CliCreateUser, AutoCommits, User, IInv, TypeOK
    <3>2. db'.users = db.users \cup {w}
      BY <3>1, AddUserType
    <3> QED
      BY <2>1, <3>2
  <2>5. \/ \E r \in Request : Commit(r)
        \/ \E t \in Tenant, role \in Role, n \in CliName : CliCreateUser(t, n, role)
    <3>1. db'.users # db.users
      BY <2>1
    <3>2. ASSUME NEW d, AutoCommits(d), d.users = db.users PROVE FALSE
      BY <3>1, <3>2 DEF AutoCommits
    <3>3. ASSUME NEW t, NEW e, NEW role,
                 CreateInvite(t, e, role) \/ DeleteInvite(t, e) \/ CliCreateToken(t)
          PROVE  FALSE
      BY <1>1, <3>2, <3>3
      DEF CreateInvite, DeleteInvite, CliCreateToken, IInv, TypeOK, Db
    <3> QED
      BY <1>1, <3>1, <3>3
      DEF Next, vars, Lookup, CheckInvite, AcceptUser, AcceptConsume, CliCreateTenant,
          FoundTenant, FoundUser, FoundToken, Conflict, Fail, Crash, OpensWith,
          Writes, Rollback
  <2> QED
    BY <2>3, <2>4, <2>5
<1>2. IInv /\ [Next]_vars => [A]_vars
  BY <1>1
<1> QED
  BY <1>2, SpecIInv, PTL DEF Spec, AcceptConsumesInvite

-------------------------------------------------------------------------------
(* Accounts, the promise behind it.  The invariant adds what a request has   *)
(* read, and what exactly it has written so far: at COMMIT the draft must be *)
(* the database after one atomic operation.                                  *)

\* What r has in hand is about one email, which is that of its identity; only the
\* operator's commands have no identity.
ReadOK(r) ==
  /\ req[r].sid # NoId => req[r].name = EmailOf[req[r].sid]
  /\ req[r].pc \in {"missing", "invited"} \cup Joining => req[r].sid # NoId
  /\ req[r].pc \in {"founding"} \cup Founding /\ req[r].sid = NoId => req[r].name \in CliName
  /\ \A v \in req[r].invite : v.email = req[r].name

\* What the founding transaction of r has written, and what the joining one has.
WroteOK(r) ==
  /\ req[r].pc \in Founding =>
       /\ draft.invites = db.invites
       /\ req[r].pc = "tenant" => draft.users = db.users
       /\ req[r].pc # "tenant" => /\ draft.users = db.users \cup {Founder(r)}
                                  /\ Unique(db, Founder(r))
       /\ draft.tokens = IF req[r].pc = "token" THEN db.tokens \cup {draft.tenants}
                                                ELSE db.tokens
  /\ req[r].pc \in Joining =>
       /\ draft.tokens = db.tokens
       /\ \E v \in req[r].invite : /\ draft.users = db.users \cup {Invitee(r, v)}
                                   /\ Unique(db, Invitee(r, v))
       /\ draft.invites = IF req[r].pc = "accepting" THEN db.invites
                          ELSE {v \in db.invites : v.email # req[r].name}

RInv == IInv /\ \A r \in Request : ReadOK(r) /\ WroteOK(r)

LEMMA InitRInv == Init => RInv
  BY InitIInv, ProvisioningAssumption
  DEF Init, RInv, ReadOK, WroteOK, Idle, Founding, Joining

LEMMA ReadFrame ==
  ASSUME NEW s, ReadOK(s), req'[s] = req[s] PROVE ReadOK(s)'
  BY DEF ReadOK

LEMMA ReadIdle ==
  ASSUME NEW s, req'[s] = Idle PROVE ReadOK(s)'
  BY DEF ReadOK, Idle, Founding, Joining

\* The next statement of the same request.
LEMMA ReadGoto ==
  ASSUME TypeOK, NEW r \in Request, ReadOK(r), NEW pc, Goto(r, pc),
         \/ req[r].pc \in {"invited"} \cup Joining /\ pc \in Joining
         \/ req[r].pc \in {"founding"} \cup Founding /\ pc \in Founding
  PROVE  ReadOK(r)'
<1>1. /\ req'[r].pc = pc /\ req'[r].sid = req[r].sid /\ req'[r].name = req[r].name
      /\ req'[r].invite = req[r].invite
  BY DEF Goto, TypeOK, ReqState
<1> QED
  BY <1>1 DEF ReadOK, Founding, Joining

LEMMA NextReadOK ==
  ASSUME RInv, [Next]_vars, NEW s \in Request PROVE ReadOK(s)'
<1> USE DEF RInv
<1>0. TypeOK /\ ReadOK(s)
  BY DEF IInv
<1>1. ASSUME NEW r \in Request, NEW i \in Identity, Lookup(r, i) PROVE ReadOK(s)'
  <2>1. CASE r = s /\ req' # req
    BY <1>0, <1>1, <2>1, ProvisioningAssumption
    DEF Lookup, ReadOK, TypeOK, Founding, Joining
  <2> QED
    BY <1>0, <1>1, <2>1, ReadFrame DEF Lookup, TypeOK
<1>2. ASSUME NEW r \in Request, CheckInvite(r) PROVE ReadOK(s)'
  <2>1. CASE r = s
    <3> DEFINE found == {v \in db.invites : v.email = req[s].name}
    <3>1. /\ req'[s].pc \in {"invited", "founding"} /\ req'[s].invite = found
          /\ req'[s].sid = req[s].sid /\ req'[s].name = req[s].name
          /\ req[s].pc = "missing"
      BY <1>0, <1>2, <2>1 DEF CheckInvite, TypeOK, ReqState
    <3> QED
      BY <1>0, <3>1 DEF ReadOK, Founding, Joining
  <2> QED
    BY <1>0, <1>2, <2>1, ReadFrame DEF CheckInvite, TypeOK
<1>3. ASSUME NEW r \in Request,
             AcceptUser(r) \/ AcceptConsume(r) \/ FoundTenant(r) \/ FoundUser(r) \/ FoundToken(r)
      PROVE  ReadOK(s)'
  <2>1. PICK pc : /\ Goto(r, pc)
                  /\ \/ req[r].pc \in {"invited"} \cup Joining /\ pc \in Joining
                     \/ req[r].pc \in {"founding"} \cup Founding /\ pc \in Founding
    BY <1>3
    DEF AcceptUser, AcceptConsume, FoundTenant, FoundUser, FoundToken, Founding, Joining
  <2>2. CASE r = s
    BY <1>0, <2>1, <2>2, ReadGoto
  <2> QED
    BY <1>0, <2>1, <2>2, ReadFrame DEF Goto, TypeOK
<1>4. ASSUME NEW r \in Request, NEW n \in CliName, CliCreateTenant(r, n) PROVE ReadOK(s)'
  <2>1. CASE r = s
    BY <1>0, <1>4, <2>1 DEF CliCreateTenant, ReadOK, TypeOK, Founding, Joining
  <2> QED
    BY <1>0, <1>4, <2>1, ReadFrame DEF CliCreateTenant, TypeOK
<1>5. ASSUME NEW r \in Request, Commit(r) PROVE ReadOK(s)'
  BY <1>0, <1>5, ReadFrame, ReadIdle DEF Commit, TypeOK
<1>6. ASSUME NEW rs, Rollback(rs) PROVE ReadOK(s)'
  BY <1>0, <1>6, ReadFrame, ReadIdle DEF Rollback
<1>7. CASE req' = req
  BY <1>0, <1>7, ReadFrame
<1> QED
  BY <1>1, <1>2, <1>3, <1>4, <1>5, <1>6, <1>7
  DEF Next, vars, Conflict, Fail, Crash, CreateInvite, DeleteInvite, CliCreateUser,
      CliCreateToken, AutoCommits

LEMMA WroteFrame ==
  ASSUME NEW s, WroteOK(s), req'[s] = req[s], db' = db, draft' = draft PROVE WroteOK(s)'
<1>1. Founder(s)' = Founder(s) /\ \A v : Invitee(s, v)' = Invitee(s, v)
  BY DEF Founder, Invitee
<1>2. \A u : Unique(db, u)' <=> Unique(db, u)
  BY DEF Unique
<1> QED
  BY <1>1, <1>2 DEF WroteOK, Unique, Invitee

LEMMA WroteNothing ==
  ASSUME NEW s \in Request, IInv, req'[s].pc \notin Founding \cup Joining PROVE WroteOK(s)'
  BY DEF WroteOK

\* Whoever is not in a transaction does not come into one by a step of another.
LEMMA WroteOthers ==
  ASSUME NEW s \in Request, req'[s] = req[s], ~InTx(s) PROVE WroteOK(s)'
  BY DEF WroteOK, InTx

LEMMA AcceptUserWrote ==
  ASSUME IInv, NEW r \in Request, AcceptUser(r) PROVE WroteOK(r)'
<1>1. PICK v \in req[r].invite : /\ Unique(db, Invitee(r, v))
                                 /\ OpensWith(r, AddUser(db, Invitee(r, v)))
  BY DEF AcceptUser
<1>2. /\ req'[r].pc = "accepting" /\ req'[r].invite = req[r].invite
      /\ req'[r].sid = req[r].sid /\ req'[r].name = req[r].name
  BY DEF AcceptUser, Goto, IInv, TypeOK, ReqState
<1>3. /\ db' = db /\ draft'.users = db.users \cup {Invitee(r, v)}
      /\ draft'.tokens = db.tokens /\ draft'.invites = db.invites
  BY <1>1, InviteeType, AddUserType DEF OpensWith, IInv, TypeOK
<1>4. Invitee(r, v)' = Invitee(r, v)
  BY <1>2 DEF Invitee
<1>5. v \in req'[r].invite /\ Unique(db', Invitee(r, v)')
  BY <1>1, <1>2, <1>3, <1>4 DEF Unique
<1> QED
  BY <1>2, <1>3, <1>4, <1>5 DEF WroteOK, Founding, Joining

LEMMA AcceptConsumeWrote ==
  ASSUME IInv, NEW r \in Request, WroteOK(r), AcceptConsume(r) PROVE WroteOK(r)'
<1>1. /\ req'[r].pc = "accepted" /\ req'[r].invite = req[r].invite
      /\ req'[r].sid = req[r].sid /\ req'[r].name = req[r].name /\ req[r].pc = "accepting"
  BY DEF AcceptConsume, Goto, IInv, TypeOK, ReqState
<1>2. /\ db' = db /\ draft'.users = draft.users /\ draft'.tokens = draft.tokens
      /\ draft'.invites = {v \in draft.invites : v.email # req[r].name}
  BY DEF AcceptConsume, Writes, IInv, TypeOK, Db
<1>3. draft.tokens = db.tokens /\ draft.invites = db.invites
  BY <1>1 DEF WroteOK, Joining
<1>4. PICK v \in req[r].invite : /\ draft.users = db.users \cup {Invitee(r, v)}
                                 /\ Unique(db, Invitee(r, v))
  BY <1>1 DEF WroteOK, Joining
<1>5. Invitee(r, v)' = Invitee(r, v)
  BY <1>1 DEF Invitee
<1>6. Unique(db', Invitee(r, v)')
  BY <1>2, <1>4, <1>5 DEF Unique
<1> QED
  BY <1>1, <1>2, <1>3, <1>4, <1>5, <1>6 DEF WroteOK, Founding, Joining

LEMMA FoundWrote ==
  ASSUME IInv, NEW r \in Request, WroteOK(r), FoundTenant(r) \/ FoundUser(r) \/ FoundToken(r)
  PROVE  WroteOK(r)'
<1>0. IInv /\ TypeOK /\ db \in Db /\ draft \in Db /\ TxOK(r)
  BY DEF IInv, TypeOK
<1>1. CASE FoundTenant(r)
  <2>1. /\ req'[r].pc = "tenant" /\ db' = db /\ draft'.users = db.users
        /\ draft'.tokens = db.tokens /\ draft'.invites = db.invites
    BY <1>0, <1>1 DEF FoundTenant, Goto, OpensWith, TypeOK, Db, ReqState
  <2> QED
    BY <2>1 DEF WroteOK, Founding, Joining
<1>2. CASE FoundUser(r)
  <2> DEFINE u == Founder(r)
  <2>1. /\ req[r].pc = "tenant" /\ req'[r].pc = "user" /\ db' = db
        /\ req'[r].sid = req[r].sid /\ req'[r].name = req[r].name
    BY <1>0, <1>2 DEF FoundUser, Goto, Writes, TypeOK, ReqState
  <2>2. /\ draft.users = db.users /\ draft.tokens = db.tokens /\ draft.invites = db.invites
    BY <2>1 DEF WroteOK, Founding
  <2>3. draft.tenants # 0
    BY <1>0, <2>1 DEF TxOK, Founding, Db
  <2>4. u \in User
    BY <1>0, <2>3, FounderType
  <2>5. draft' = AddUser(draft, u) /\ Unique(draft, u)
    BY <1>2 DEF FoundUser, Writes
  <2>6. /\ draft'.users = db.users \cup {u} /\ draft'.tenants = draft.tenants
        /\ draft'.tokens = db.tokens /\ draft'.invites = db.invites
    BY <1>0, <2>2, <2>4, <2>5, AddUserType
  <2>7. Founder(r)' = u
    BY <2>1, <2>6 DEF Founder
  <2>8. Unique(db', u)
    BY <2>1, <2>2, <2>5 DEF Unique
  <2> HIDE DEF u
  <2> QED
    BY <2>1, <2>6, <2>7, <2>8 DEF WroteOK, Founding, Joining
<1>3. CASE FoundToken(r)
  <2>1. /\ req[r].pc = "user" /\ req'[r].pc = "token" /\ db' = db
        /\ req'[r].sid = req[r].sid /\ req'[r].name = req[r].name
    BY <1>0, <1>3 DEF FoundToken, Goto, Writes, TypeOK, ReqState
  <2>2. /\ draft'.tenants = draft.tenants /\ draft'.users = draft.users
        /\ draft'.invites = draft.invites
        /\ draft'.tokens = draft.tokens \cup {draft.tenants}
    BY <1>0, <1>3 DEF FoundToken, Writes, Db
  <2>3. Founder(r)' = Founder(r)
    BY <2>1, <2>2 DEF Founder
  <2>4. Unique(db, Founder(r)) /\ draft.users = db.users \cup {Founder(r)}
        /\ draft.invites = db.invites /\ draft.tokens = db.tokens
    BY <2>1 DEF WroteOK, Founding
  <2>5. Unique(db', Founder(r)')
    BY <2>1, <2>3, <2>4 DEF Unique
  <2> QED
    BY <2>1, <2>2, <2>3, <2>4, <2>5 DEF WroteOK, Founding, Joining
<1> QED
  BY <1>1, <1>2, <1>3

LEMMA NextWroteOK ==
  ASSUME RInv, [Next]_vars, NEW s \in Request PROVE WroteOK(s)'
<1>0. IInv /\ TypeOK /\ WroteOK(s) /\ LockHeld
  BY DEF RInv, IInv
<1>1. ASSUME NEW r \in Request,
             \/ \E i \in Identity : Lookup(r, i)
             \/ CheckInvite(r)
             \/ \E n \in CliName : CliCreateTenant(r, n)
      PROVE  WroteOK(s)'
  <2>1. db' = db /\ draft' = draft
    BY <1>1 DEF Lookup, CheckInvite, CliCreateTenant
  <2>2. req'[s] = req[s] \/ req'[s].pc \in {"missing", "invited", "founding"}
    <3>1. CASE CheckInvite(r) /\ r = s
      BY <1>0, <3>1 DEF CheckInvite, TypeOK, ReqState
    <3>2. CASE CheckInvite(r) /\ r # s
      BY <1>0, <3>2 DEF CheckInvite, TypeOK
    <3> QED
      BY <1>0, <1>1, <3>1, <3>2 DEF Lookup, CliCreateTenant, TypeOK
  <2> QED
    BY <1>0, <2>1, <2>2, WroteFrame, WroteNothing DEF Founding, Joining
<1>2. ASSUME NEW r \in Request,
             AcceptUser(r) \/ AcceptConsume(r) \/ FoundTenant(r) \/ FoundUser(r) \/ FoundToken(r)
      PROVE  WroteOK(s)'
  <2>1. CASE r = s
    BY <1>0, <1>2, <2>1, AcceptUserWrote, AcceptConsumeWrote, FoundWrote
  <2>2. CASE r # s
    <3>1. writer = {} \/ r \in writer
      BY <1>0, <1>2
      DEF AcceptUser, AcceptConsume, FoundTenant, FoundUser, FoundToken, OpensWith,
          LockHeld, InTx, Founding, Joining
    <3>2. ~InTx(s)
      BY <1>0, <2>2, <3>1 DEF LockHeld
    <3>3. req'[s] = req[s]
      BY <1>0, <1>2, <2>2
      DEF AcceptUser, AcceptConsume, FoundTenant, FoundUser, FoundToken, Goto, TypeOK
    <3> QED
      BY <3>2, <3>3, WroteOthers
  <2> QED
    BY <2>1, <2>2
<1>3. ASSUME NEW r \in Request, Commit(r) PROVE WroteOK(s)'
  <2>1. CASE r = s
    BY <1>0, <1>3, <2>1, WroteNothing DEF Commit, Idle, TypeOK, Founding, Joining
  <2>2. CASE r # s
    <3>1. ~InTx(s) /\ req'[s] = req[s]
      BY <1>0, <1>3, <2>2 DEF Commit, LockHeld, InTx, Founding, Joining, TypeOK
    <3> QED
      BY <3>1, WroteOthers
  <2> QED
    BY <2>1, <2>2
<1>4. ASSUME NEW rs \in SUBSET Request, Rollback(rs) PROVE WroteOK(s)'
  <2>1. CASE s \in rs
    BY <1>0, <1>4, <2>1, WroteNothing DEF Rollback, Idle, Founding, Joining
  <2>2. CASE s \notin rs /\ InTx(s)
    <3>1. writer \cap rs = {}
      BY <1>0, <2>2 DEF LockHeld
    <3>2. db' = db /\ draft' = draft /\ req'[s] = req[s]
      BY <1>4, <2>2, <3>1 DEF Rollback
    <3> QED
      BY <1>0, <3>2, WroteFrame
  <2>3. CASE s \notin rs /\ ~InTx(s)
    BY <1>4, <2>3, WroteOthers DEF Rollback
  <2> QED
    BY <2>1, <2>2, <2>3
<1>5. ASSUME NEW d, AutoCommits(d) PROVE WroteOK(s)'
  <2>1. ~InTx(s) /\ req'[s] = req[s]
    BY <1>0, <1>5 DEF AutoCommits, LockHeld
  <2> QED
    BY <2>1, WroteOthers
<1>6. CASE UNCHANGED vars
  BY <1>0, <1>6, WroteFrame DEF vars
<1>7. ASSUME NEW r \in Request, Conflict(r) \/ Fail(r) PROVE WroteOK(s)'
  BY <1>4, <1>7 DEF Conflict, Fail
<1>8. CASE Crash
  BY <1>4, <1>8 DEF Crash
<1>9. ASSUME NEW t \in Tenant,
             \/ \E e \in Name, role \in Role : CreateInvite(t, e, role)
             \/ \E n \in CliName, role \in Role : CliCreateUser(t, n, role)
             \/ \E e \in Name : DeleteInvite(t, e)
             \/ CliCreateToken(t)
      PROVE  WroteOK(s)'
  BY <1>5, <1>9 DEF CreateInvite, CliCreateUser, DeleteInvite, CliCreateToken
<1> QED
  BY <1>1, <1>2, <1>3, <1>6, <1>7, <1>8, <1>9 DEF Next

LEMMA SpecRInv == Spec => []RInv
<1>1. RInv /\ [Next]_vars => RInv'
  BY NextTypeOK, NextLockHeld, NextRest, NextReadOK, NextWroteOK DEF RInv, IInv, Rest
<1> QED
  BY <1>1, InitRInv, PTL DEF Spec

\* A step closes invites only, but the pending ones, if no request has read anything new.
LEMMA Closing ==
  ASSUME \A s \in Request : req'[s].invite \subseteq Open \cup db'.invites
  PROVE  Promise!Closes
  BY DEF Promise!Closes, Open

\* Requests read pending invites only.
LEMMA NothingRead ==
  ASSUME IInv, [Next]_vars, NEW s \in Request
  PROVE  req'[s].invite \subseteq Open
<1> USE DEF IInv, Open, TypeOK
<1>1. ASSUME NEW r \in Request, NEW i \in Identity, Lookup(r, i)
      PROVE  req'[s].invite \subseteq Open
  BY <1>1 DEF Lookup
<1>2. ASSUME NEW r \in Request, CheckInvite(r) PROVE req'[s].invite \subseteq Open
  <2>1. CASE r = s
    BY <1>2, <2>1 DEF CheckInvite, ReqState
  <2>2. CASE r # s
    BY <1>2, <2>2 DEF CheckInvite
  <2> QED
    BY <2>1, <2>2
<1>3. ASSUME NEW r \in Request, NEW pc, Goto(r, pc) PROVE req'[s].invite \subseteq Open
  <2>1. req'[s].invite = req[s].invite
    BY <1>3 DEF Goto, ReqState
  <2> QED
    BY <2>1
<1>4. ASSUME NEW r \in Request, NEW n \in CliName, CliCreateTenant(r, n)
      PROVE  req'[s].invite \subseteq Open
  BY <1>4 DEF CliCreateTenant
<1>5. ASSUME NEW r \in Request, Commit(r) PROVE req'[s].invite \subseteq Open
  BY <1>5 DEF Commit, Idle
<1>6. ASSUME NEW rs, Rollback(rs) PROVE req'[s].invite \subseteq Open
  BY <1>6 DEF Rollback, Idle
<1>7. CASE req' = req
  BY <1>7
<1> QED
  BY <1>1, <1>2, <1>3, <1>4, <1>5, <1>6, <1>7
  DEF Next, vars, Conflict, Fail, Crash, CreateInvite, DeleteInvite, CliCreateUser,
      CliCreateToken, AutoCommits, AcceptUser, AcceptConsume, FoundTenant, FoundUser,
      FoundToken

\* The COMMIT of a founding transaction is the operation Found.
LEMMA CommitFounds ==
  ASSUME RInv, [Next]_vars, NEW r \in Request, Commit(r), req[r].pc = "token"
  PROVE  Promise!Next
<1> DEFINE sid == req[r].sid
           name == req[r].name
           u == Promise!Account(sid, name, db.tenants + 1, "admin")
<1>1. IInv /\ TypeOK /\ TxOK(r) /\ WroteOK(r) /\ ReadOK(r)
  BY DEF RInv, IInv
<1>2. /\ draft.tenants = db.tenants + 1 /\ draft.invites = db.invites
      /\ draft.users = db.users \cup {Founder(r)} /\ Unique(db, Founder(r))
      /\ draft.tokens = db.tokens \cup {draft.tenants} /\ OneEach(draft)
  BY <1>1 DEF TxOK, WroteOK, InTx, Founding
<1>3. Founder(r) = u
  BY <1>2 DEF Founder, Promise!Account
<1>4. db' = draft
  BY DEF Commit
<1>5. Promise!Adds(u)
  BY <1>2, <1>3, <1>4 DEF Unique, Promise!Adds
<1>6. Promise!Closes
  BY <1>1, Closing, NothingRead
<1>7. IF sid = NoId THEN UNCHANGED answered ELSE Promise!Tells(u)
  <2>1. CASE sid # NoId
    <3>1. PICK v \in draft.users : v.sid = sid /\ Answer(v)
      BY <2>1 DEF Commit
    <3>2. u \in draft.users /\ u.sid = sid
      BY <1>2, <1>3 DEF Promise!Account
    <3>3. v = u
      BY <1>2, <2>1, <3>1, <3>2 DEF OneEach
    <3> QED
      BY <2>1, <3>1, <3>3 DEF Answer, Promise!Tells
  <2> QED
    BY <2>1 DEF Commit
<1>8. Promise!Found(sid, name)
  BY <1>2, <1>4, <1>5, <1>6, <1>7 DEF Promise!Found
<1>9. \/ sid = NoId /\ name \in CliName
      \/ sid \in Identity /\ name = EmailOf[sid]
  BY <1>1 DEF TypeOK, ReqState, ReadOK, Founding
<1> HIDE DEF sid, name
<1> QED
  BY <1>8, <1>9 DEF Promise!Next

\* The COMMIT of a joining transaction is the operation Join.
LEMMA CommitJoins ==
  ASSUME RInv, [Next]_vars, NEW r \in Request, Commit(r), req[r].pc = "accepted"
  PROVE  Promise!Next
<1> DEFINE i == req[r].sid
<1>1. IInv /\ TypeOK /\ TxOK(r) /\ WroteOK(r) /\ ReadOK(r)
  BY DEF RInv, IInv
<1>2. i \in Identity /\ i # NoId /\ req[r].name = EmailOf[i]
  BY <1>1, ProvisioningAssumption DEF TypeOK, ReqState, ReadOK, Joining
<1>3. PICK v \in req[r].invite : /\ draft.users = db.users \cup {Invitee(r, v)}
                                 /\ Unique(db, Invitee(r, v))
  BY <1>1 DEF WroteOK, Joining
<1> DEFINE u == Promise!Account(i, EmailOf[i], v.tenant, v.role)
<1>4. /\ draft.tenants = db.tenants /\ draft.tokens = db.tokens /\ OneEach(draft)
      /\ draft.invites = {w \in db.invites : w.email # req[r].name}
  BY <1>1 DEF TxOK, WroteOK, InTx, Joining
<1>5. v.email = EmailOf[i] /\ v \in Open
  BY <1>1, <1>2 DEF ReadOK, Open
<1>6. Invitee(r, v) = u
  BY <1>5 DEF Invitee, Promise!Account
<1>7. db' = draft
  BY DEF Commit
<1>8. Promise!Adds(u)
  BY <1>3, <1>6, <1>7 DEF Unique, Promise!Adds
<1>9. Promise!Closes
  BY <1>1, Closing, NothingRead
<1>10. Promise!Tells(u)
  <2>1. PICK w \in draft.users : w.sid = i /\ Answer(w)
    BY <1>2 DEF Commit
  <2>2. u \in draft.users /\ u.sid = i
    BY <1>3, <1>6 DEF Promise!Account
  <2>3. w = u
    BY <1>2, <1>4, <2>1, <2>2 DEF OneEach
  <2> QED
    BY <2>1, <2>3 DEF Answer, Promise!Tells
<1>11. db'.invites = {w \in db.invites : w.email # v.email}
  BY <1>2, <1>4, <1>5, <1>7
<1>12. Promise!Join(i, v)
  BY <1>4, <1>5, <1>7, <1>8, <1>9, <1>10, <1>11 DEF Promise!Join
<1> HIDE DEF i
<1> QED
  BY <1>2, <1>5, <1>12 DEF Promise!Next

\* A write that is a transaction of its own is an operation.
LEMMA AutoCommitsIs ==
  ASSUME RInv, [Next]_vars, NEW t \in Tenant,
         \/ \E e \in Name, role \in Role : CreateInvite(t, e, role)
         \/ \E n \in CliName, role \in Role : CliCreateUser(t, n, role)
         \/ \E e \in Name : DeleteInvite(t, e)
         \/ CliCreateToken(t)
  PROVE  Promise!Next
<1>1. IInv /\ TypeOK /\ db \in Db
  BY DEF RInv, IInv, TypeOK
<1>2. Promise!Closes
  BY <1>1, Closing, NothingRead
<1>3. HasAdmin(db, t) => Promise!HasAdmin(t)
  BY DEF HasAdmin, Promise!HasAdmin
<1>4. ASSUME NEW e \in Name, NEW role \in Role, CreateInvite(t, e, role)
      PROVE  Promise!Next
  <2>1. Promise!CreateInvite(t, e, role)
    BY <1>1, <1>2, <1>3, <1>4 DEF CreateInvite, AutoCommits, Db, Promise!CreateInvite
  <2> QED
    BY <2>1 DEF Promise!Next, Role, Promise!Role
<1>5. ASSUME NEW e \in Name, DeleteInvite(t, e) PROVE Promise!Next
  <2>1. Promise!DeleteInvite(t, e)
    BY <1>1, <1>2, <1>3, <1>5 DEF DeleteInvite, AutoCommits, Db, Promise!DeleteInvite
  <2> QED
    BY <2>1 DEF Promise!Next
<1>6. ASSUME NEW n \in CliName, NEW role \in Role, CliCreateUser(t, n, role)
      PROVE  Promise!Next
  <2> DEFINE u == Promise!Account(NoId, n, t, role)
  <2>1. u \in User
    BY ProvisioningAssumption DEF User, Promise!Account
  <2>2. Unique(db, u) /\ AutoCommits(AddUser(db, u))
    BY <1>6 DEF CliCreateUser, Promise!Account
  <2>3. /\ db'.users = db.users \cup {u} /\ db'.tenants = db.tenants
        /\ db'.tokens = db.tokens /\ db'.invites = db.invites
    BY <1>1, <2>1, <2>2, AddUserType DEF AutoCommits
  <2>4. Open' = Open /\ answered' = answered
    BY <2>2, <2>3 DEF Open, AutoCommits
  <2>5. Promise!CreateUser(t, n, role)
    BY <2>2, <2>3, <2>4 DEF Promise!CreateUser, Promise!Adds, Unique
  <2> QED
    BY <2>5 DEF Promise!Next, Role, Promise!Role
<1>7. CASE CliCreateToken(t)
  <2>1. /\ db'.tokens = db.tokens \cup {t} /\ db'.users = db.users
        /\ db'.tenants = db.tenants /\ db'.invites = db.invites
        /\ req' = req /\ answered' = answered
    BY <1>1, <1>7 DEF CliCreateToken, AutoCommits, Db
  <2>2. Promise!CreateToken(t)
    BY <2>1 DEF Promise!CreateToken, Open
  <2> QED
    BY <2>2 DEF Promise!Next
<1> QED
  BY <1>4, <1>5, <1>6, <1>7

\* Logins, invites and commands, with their many statements and their races, implement
\* the atomic operations of Accounts, for any number of concurrent requests, errors and
\* crashes.
THEOREM ProvisioningImplementsAccounts == Spec => ImplementsAccounts
<1>1. Init => Promise!Init
  BY DEF Init, Idle, Open, Promise!Init, Promise!Account
<1>2. ASSUME RInv, [Next]_vars
      PROVE  Promise!Next \/ UNCHANGED <<db.tenants, db.users, db.tokens, db.invites, Open, answered>>
  <2>1. Promise!Closes
    BY <1>2, Closing, NothingRead DEF RInv
  <2>2. CASE db' = db /\ answered' = answered
    <3>1. Promise!Close
      BY <2>1, <2>2 DEF Promise!Close
    <3> QED
      BY <3>1 DEF Promise!Next
  <2>3. ASSUME NEW r \in Request, NEW i \in Identity, Lookup(r, i), answered' # answered
        PROVE  Promise!Next
    <3>1. PICK u \in db.users : u.sid = i /\ Answer(u)
      BY <2>3 DEF Lookup
    <3>2. db' = db /\ req' = req
      BY <2>3 DEF Lookup
    <3>3. Promise!Login(i)
      BY <3>1, <3>2 DEF Answer, Open, Promise!Login, Promise!Tells
    <3> QED
      BY <3>3 DEF Promise!Next
  <2>4. ASSUME NEW r \in Request, Commit(r) PROVE Promise!Next
    BY <1>2, <2>4, CommitFounds, CommitJoins DEF Commit
  <2>5. ASSUME NEW r \in Request,
               \/ \E i \in Identity : Lookup(r, i) /\ answered' = answered
               \/ CheckInvite(r) \/ AcceptUser(r) \/ AcceptConsume(r)
               \/ \E n \in CliName : CliCreateTenant(r, n)
               \/ FoundTenant(r) \/ FoundUser(r) \/ FoundToken(r)
               \/ Conflict(r) \/ Fail(r)
        PROVE  db' = db /\ answered' = answered
    BY <2>5
    DEF Lookup, CheckInvite, AcceptUser, AcceptConsume, CliCreateTenant, FoundTenant,
        FoundUser, FoundToken, Conflict, Fail, OpensWith, Writes, Rollback
  <2>6. Crash \/ UNCHANGED vars => db' = db /\ answered' = answered
    BY DEF Crash, Rollback, vars
  <2> QED
    BY <1>2, <2>2, <2>3, <2>4, <2>5, <2>6, AutoCommitsIs DEF Next
<1>3. RInv /\ [Next]_vars
        => [Promise!Next]_<<db.tenants, db.users, db.tokens, db.invites, Open, answered>>
  BY <1>2
<1> QED
  BY <1>1, <1>3, SpecRInv, PTL DEF Spec, ImplementsAccounts, Promise!Spec, Promise!vars

-------------------------------------------------------------------------------
(* What Accounts alone implies.  Nothing below looks at a request, a lock or a *)
(* draft: whatever implements the atomic operations has these properties.      *)

promised == <<db.tenants, db.users, db.tokens, db.invites, Open, answered>>

\* The invariant of Accounts.
AccountsInv ==
  /\ db.tenants \in Nat
  /\ OneEach(db)
  /\ TenantsWhole
  /\ AnswersStand
  /\ DOMAIN answered = Identity

LEMMA AccountsInit == Promise!Init => AccountsInv
  BY DEF Promise!Init, Promise!Account, AccountsInv, OneEach, TenantsWhole, HasAdmin, AnswersStand

\* A new account, whether somebody is told of it or not, disturbs nobody's.
LEMMA AddsKeeps ==
  ASSUME AccountsInv, NEW u, Promise!Adds(u),
         \/ answered' = answered
         \/ u.sid \in Identity /\ Promise!Tells(u)
  PROVE  OneEach(db)' /\ AnswersStand' /\ (DOMAIN answered = Identity)'
<1>1. /\ db'.users = db.users \cup {u}
      /\ \A v \in db.users : v.name # u.name /\ (u.sid # NoId => v.sid # u.sid)
  BY DEF Promise!Adds
<1>2. OneEach(db')
  BY <1>1 DEF OneEach, AccountsInv
<1>3. ASSUME NEW i \in Identity
      PROVE  LET accounts == {w \in db'.users : w.sid = i} IN
               /\ \A v, w \in accounts : v = w
               /\ \A a \in answered'[i] : \E w \in accounts : a = <<w.tenant, w.role>>
  <2>1. i # NoId
    BY ProvisioningAssumption
  <2>2. \A v, w \in {w \in db'.users : w.sid = i} : v = w
    BY <1>2, <2>1 DEF OneEach
  <2>3. ASSUME NEW a \in answered'[i]
        PROVE  \E w \in {w \in db'.users : w.sid = i} : a = <<w.tenant, w.role>>
    <3>1. \/ a \in answered[i]
          \/ u.sid = i /\ a = <<u.tenant, u.role>>
      BY DEF Promise!Tells, AccountsInv
    <3> QED
      BY <1>1, <3>1 DEF AccountsInv, AnswersStand
  <2> QED
    BY <2>2, <2>3
<1>4. DOMAIN answered' = Identity
  BY DEF AccountsInv, Promise!Tells
<1> QED
  BY <1>2, <1>3, <1>4 DEF OneEach, AnswersStand

LEMMA AccountsStep == AccountsInv /\ [Promise!Next]_promised => AccountsInv'
<1> SUFFICES ASSUME AccountsInv, [Promise!Next]_promised PROVE AccountsInv'
  OBVIOUS
<1> USE DEF AccountsInv
<1>1. ASSUME db'.users = db.users, answered' = answered
      PROVE  OneEach(db)' /\ AnswersStand' /\ (DOMAIN answered = Identity)'
  BY <1>1 DEF OneEach, AnswersStand
<1>2. ASSUME db'.tenants = db.tenants, db.users \subseteq db'.users, db.tokens \subseteq db'.tokens
      PROVE  TenantsWhole'
  BY <1>2 DEF TenantsWhole, HasAdmin
<1>3. ASSUME NEW sid \in Identity \cup {NoId}, NEW name, Promise!Found(sid, name)
      PROVE  AccountsInv'
  <2> DEFINE u == Promise!Account(sid, name, db.tenants + 1, "admin")
  <2>1. /\ Promise!Adds(u) /\ db'.tenants = db.tenants + 1
        /\ db'.tokens = db.tokens \cup {db.tenants + 1}
        /\ IF sid = NoId THEN answered' = answered ELSE Promise!Tells(u)
    BY <1>3 DEF Promise!Found
  <2>2. u.sid = sid /\ u.tenant = db.tenants + 1 /\ u.role = "admin"
    BY DEF Promise!Account
  <2>3. db'.users = db.users \cup {u}
    BY <2>1 DEF Promise!Adds
  <2> HIDE DEF u
  <2>4. OneEach(db)' /\ AnswersStand' /\ (DOMAIN answered = Identity)'
    BY <2>1, <2>2, AddsKeeps
  <2>5. ASSUME NEW t \in 1 .. db'.tenants PROVE HasAdmin(db', t) /\ t \in db'.tokens
    <3>1. t \in 1 .. db.tenants \/ t = db.tenants + 1
      BY <2>1
    <3> QED
      BY <2>1, <2>2, <2>3, <3>1 DEF TenantsWhole, HasAdmin
  <2> QED
    BY <2>1, <2>4, <2>5 DEF TenantsWhole, HasAdmin
<1>4. ASSUME NEW i \in Identity, NEW v, Promise!Join(i, v) PROVE AccountsInv'
  <2> DEFINE u == Promise!Account(i, EmailOf[i], v.tenant, v.role)
  <2>1. Promise!Adds(u) /\ Promise!Tells(u) /\ db'.tenants = db.tenants /\ db'.tokens = db.tokens
    BY <1>4 DEF Promise!Join
  <2>2. u.sid \in Identity
    BY DEF Promise!Account
  <2>3. db'.users = db.users \cup {u}
    BY <2>1 DEF Promise!Adds
  <2> HIDE DEF u
  <2> QED
    BY <1>2, <2>1, <2>2, <2>3, AddsKeeps
<1>5. ASSUME NEW i \in Identity, Promise!Login(i) PROVE AccountsInv'
  <2>1. PICK u \in db.users : u.sid = i /\ Promise!Tells(u)
    BY <1>5 DEF Promise!Login
  <2>2. db'.users = db.users /\ db'.tenants = db.tenants /\ db'.tokens = db.tokens
    BY <1>5 DEF Promise!Login
  <2>3. answered' = [answered EXCEPT ![i] = @ \cup {<<u.tenant, u.role>>}]
    BY <2>1 DEF Promise!Tells
  <2>4. AnswersStand'
    BY <2>1, <2>2, <2>3 DEF AnswersStand
  <2>5. OneEach(db)'
    BY <2>2 DEF OneEach
  <2> QED
    BY <1>2, <2>2, <2>3, <2>4, <2>5
<1>6. ASSUME NEW t, NEW n, NEW role, Promise!CreateUser(t, n, role) PROVE AccountsInv'
  <2> DEFINE u == Promise!Account(NoId, n, t, role)
  <2>1. /\ Promise!Adds(u) /\ answered' = answered /\ db'.tenants = db.tenants
        /\ db'.tokens = db.tokens
    BY <1>6 DEF Promise!CreateUser
  <2>2. db'.users = db.users \cup {u}
    BY <2>1 DEF Promise!Adds
  <2> HIDE DEF u
  <2> QED
    BY <1>2, <2>1, <2>2, AddsKeeps
<1>7. CASE /\ db'.users = db.users /\ answered' = answered /\ db'.tenants = db.tenants
           /\ db.tokens \subseteq db'.tokens
  BY <1>1, <1>2, <1>7
<1> QED
  BY <1>3, <1>4, <1>5, <1>6, <1>7
  DEF Promise!Next, Promise!CreateInvite, Promise!DeleteInvite, Promise!Close,
      Promise!CreateToken, promised

\* Whatever implements Accounts has no half-created tenant, and answers that stand.
THEOREM AccountsKeepTheirWord == ImplementsAccounts => [](TenantsWhole /\ AnswersStand)
<1>1. AccountsInv => TenantsWhole /\ AnswersStand
  BY DEF AccountsInv
<1> QED
  BY <1>1, AccountsInit, AccountsStep, PTL DEF ImplementsAccounts, Promise!Spec, Promise!vars, promised

\* Whatever implements Accounts consumes the invites of who joins.
THEOREM AccountsConsumeInvites == ImplementsAccounts => AcceptConsumesInvite
<1> DEFINE A == \A u \in Joined : u.tenant <= db.tenants =>
                  \A v \in db'.invites : v.email # u.name
<1>1. ASSUME AccountsInv, [Promise!Next]_promised PROVE A
  <2> SUFFICES ASSUME NEW u \in db'.users, u \notin db.users, u.sid # NoId, u.tenant <= db.tenants
               PROVE  \A v \in db'.invites : v.email # u.name
    BY DEF Joined
  <2>1. ASSUME NEW sid, NEW name, Promise!Found(sid, name) PROVE FALSE
    <3>1. u = Promise!Account(sid, name, db.tenants + 1, "admin")
      BY <2>1 DEF Promise!Found, Promise!Adds
    <3> QED
      BY <1>1, <3>1 DEF Promise!Account, AccountsInv
  <2>2. ASSUME NEW i, NEW v, Promise!Join(i, v) PROVE u.name = v.email
    BY <2>2 DEF Promise!Join, Promise!Adds, Promise!Account
  <2>3. ASSUME NEW t, NEW n, NEW role, Promise!CreateUser(t, n, role) PROVE FALSE
    BY <2>3 DEF Promise!CreateUser, Promise!Adds, Promise!Account
  <2>4. \E i \in Identity, v \in Open : Promise!Join(i, v)
    BY <1>1, <2>1, <2>3
    DEF Promise!Next, Promise!Login, Promise!CreateInvite, Promise!DeleteInvite, Promise!Close,
        Promise!CreateToken, promised
  <2> QED
    BY <2>2, <2>4 DEF Promise!Join
<1>2. AccountsInv /\ [Promise!Next]_promised => [A]_vars
  BY <1>1
<1> QED
  BY <1>2, AccountsInit, AccountsStep, PTL
  DEF ImplementsAccounts, Promise!Spec, Promise!vars, promised, AcceptConsumesInvite
===============================================================================
