----------------------------- MODULE Provisioning -----------------------------
(***************************************************************************)
(* Who belongs to which tenant: the first login of a Supabase identity     *)
(* (auth.go, invite.go, tenant.go) against concurrent first logins of the  *)
(* same and other identities, admins who create, replace and revoke        *)
(* invites, and the operator's CLI, which is another process on the same   *)
(* database file.                                                          *)
(*                                                                         *)
(* A first login reads users, then invites, then writes in a transaction:  *)
(* three statements without a lock between them.  Transactions here begin  *)
(* with an INSERT, which takes SQLite's only write lock; nothing of theirs *)
(* is visible before COMMIT, and an error or a crash rolls them back.      *)
(*                                                                         *)
(* Abstractions.  Usernames and emails are one set of names.  Password and *)
(* token hashes are left out: api_tokens is the set of tenants that have a *)
(* token, and nothing is said of who knows it.  Nobody does when a first   *)
(* login founds the tenant: invite.go:157 drops the only plaintext.        *)
(* Tenant ids are AUTOINCREMENT, so tenants is how many there are.         *)
(***************************************************************************)
EXTENDS Integers

CONSTANTS
  Identity,    \* Supabase user ids
  Name,        \* usernames and emails
  EmailOf,     \* the email Supabase has for an identity
  CliName,     \* the usernames the operator may give on the command line
  AdminName,   \* CHIDRIXX_ADMIN_USER
  Request,     \* concurrent requests and commands
  NoId,        \* SQL NULL in users.supabase_user_id
  MaxTenants,  \* bound on the tenants created
  MaxFailures  \* bound on storage errors and crashes

ASSUME ProvisioningAssumption ==
  /\ EmailOf \in [Identity -> Name]
  /\ CliName \subseteq Name
  /\ AdminName \in Name
  /\ NoId \notin Identity
  /\ MaxTenants \in Nat \ {0}
  /\ MaxFailures \in Nat

VARIABLES
  db,        \* what is committed
  draft,     \* what the open write transaction sees
  writer,    \* the requests holding the write lock, at most one
  req,       \* what each request has read and where it is
  answered,  \* the tenants and roles each identity was answered with (history)
  failures   \* storage errors and crashes so far

vars == <<db, draft, writer, req, answered, failures>>

Role   == {"admin", "viewer"}
Tenant == 1 .. MaxTenants
User   == [sid : Identity \cup {NoId}, name : Name, tenant : Tenant,
           role : Role]
Invite == [email : Name, tenant : Tenant, role : Role]
Db     == [tenants : 0 .. MaxTenants, users : SUBSET User,
           tokens : SUBSET Tenant, invites : SUBSET Invite]
Founding == {"tenant", "user", "token"}
Joining  == {"accepting", "accepted"}
Phase    == {"idle", "missing", "invited", "founding"} \cup Founding \cup Joining
ReqState == [pc : Phase, sid : Identity \cup {NoId}, name : Name,
             invite : SUBSET Invite]
Idle     == [pc |-> "idle", sid |-> NoId, name |-> AdminName, invite |-> {}]

TypeOK ==
  /\ db \in Db
  /\ draft \in Db
  /\ writer \in SUBSET Request
  /\ req \in [Request -> ReqState]
  /\ answered \in [Identity -> SUBSET (Tenant \X Role)]
  /\ failures \in 0 .. MaxFailures

\* bootstrapDefaultTenant has run: tenant 1, its admin, its token.
Init ==
  /\ db = [tenants |-> 1,
           users   |-> {[sid |-> NoId, name |-> AdminName, tenant |-> 1,
                         role |-> "admin"]},
           tokens  |-> {1},
           invites |-> {}]
  /\ draft = db
  /\ writer = {}
  /\ req = [r \in Request |-> Idle]
  /\ answered = [i \in Identity |-> {}]
  /\ failures = 0

\* users.username and users.supabase_user_id are UNIQUE.
Unique(d, u) ==
  \A v \in d.users : v.name # u.name /\ (u.sid # NoId => v.sid # u.sid)

\* An admin of t can log in (requireAdmin lets only an admin change anything).
HasAdmin(d, t) == \E u \in d.users : u.tenant = t /\ u.role = "admin"

AddUser(d, u) == [d EXCEPT !.users = @ \cup {u}]

Goto(r, pc) == req' = [req EXCEPT ![r].pc = pc]

\* A statement of the transaction that request r has open.
Writes(r, d) ==
  /\ draft' = d
  /\ UNCHANGED <<db, writer, answered, failures>>

\* The first statement of a transaction of r: it takes the lock and sees what
\* is committed.
OpensWith(r, d) ==
  /\ writer = {}
  /\ writer' = {r}
  /\ draft' = d
  /\ UNCHANGED <<db, answered, failures>>

\* A write that is a transaction of its own.
AutoCommits(d) ==
  /\ writer = {}
  /\ db' = d
  /\ draft' = d
  /\ UNCHANGED <<writer, req, answered, failures>>

\* The requests rs end without committing; a transaction of theirs is undone.
Rollback(rs) ==
  /\ writer' = writer \ rs
  /\ draft' = IF writer \cap rs = {} THEN draft ELSE db
  /\ req' = [r \in Request |-> IF r \in rs THEN Idle ELSE req[r]]
  /\ UNCHANGED db

Answer(u) == answered' = [answered EXCEPT ![u.sid] = @ \cup {<<u.tenant, u.role>>}]

-------------------------------------------------------------------------------
(* handleSupabaseBearer and ResolveOrProvisionSupabaseUser: the reads        *)

\* GetUserBySupabaseID
Lookup(r, i) ==
  LET found == {u \in db.users : u.sid = i} IN
    /\ req[r].pc = "idle"
    /\ IF found # {}
       THEN /\ \E u \in found : Answer(u)
            /\ UNCHANGED req
       ELSE /\ req' = [req EXCEPT ![r] = [pc |-> "missing", sid |-> i,
                                          name |-> EmailOf[i], invite |-> {}]]
            /\ UNCHANGED answered
    /\ UNCHANGED <<db, draft, writer, failures>>

\* getPendingInvite: invite before new tenant.
CheckInvite(r) ==
  LET pending == {v \in db.invites : v.email = req[r].name} IN
    /\ req[r].pc = "missing"
    /\ req' = [req EXCEPT ![r].pc = IF pending # {} THEN "invited" ELSE "founding",
                          ![r].invite = pending]
    /\ UNCHANGED <<db, draft, writer, answered, failures>>

-------------------------------------------------------------------------------
(* AcceptInvite                                                             *)

\* Mutant of Invitee: the default role of an account instead of the invited one.
Invitee_AlwaysAdmin(r, v) == [sid |-> req[r].sid, name |-> v.email,
                              tenant |-> v.tenant, role |-> "admin"]

Invitee(r, v) == [sid |-> req[r].sid, name |-> v.email, tenant |-> v.tenant,
                  role |-> v.role]

\* Mutant of AcceptUser: the INSERT replaces an account of the same email.
AcceptUser_Replaces(r) ==
  /\ req[r].pc = "invited"
  /\ \E v \in req[r].invite :
       OpensWith(r, [db EXCEPT !.users = {u \in @ : u.name # v.email}
                                           \cup {Invitee(r, v)}])
  /\ Goto(r, "accepting")

AcceptUser(r) ==
  /\ req[r].pc = "invited"
  /\ \E v \in req[r].invite : /\ Unique(db, Invitee(r, v))
                              /\ OpensWith(r, AddUser(db, Invitee(r, v)))
  /\ Goto(r, "accepting")

\* Mutant of AcceptConsume: it deletes only the invite that was read.
AcceptConsume_ExactInvite(r) ==
  /\ req[r].pc = "accepting"
  /\ Writes(r, [draft EXCEPT !.invites = @ \ req[r].invite])
  /\ Goto(r, "accepted")

\* DELETE FROM invites WHERE email = ?: whichever invite is pending by now.
AcceptConsume(r) ==
  /\ req[r].pc = "accepting"
  /\ Writes(r, [draft EXCEPT !.invites = {v \in @ : v.email # req[r].name}])
  /\ Goto(r, "accepted")

-------------------------------------------------------------------------------
(* ProvisionTenantForSupabaseUser, and CreateTenant on the command line      *)

\* create-tenant
CliCreateTenant(r, n) ==
  /\ req[r].pc = "idle"
  /\ req' = [req EXCEPT ![r] = [pc |-> "founding", sid |-> NoId, name |-> n,
                                invite |-> {}]]
  /\ UNCHANGED <<db, draft, writer, answered, failures>>

Founder(r) == [sid |-> req[r].sid, name |-> req[r].name,
               tenant |-> draft.tenants, role |-> "admin"]

FoundTenant(r) ==
  /\ req[r].pc = "founding"
  /\ db.tenants < MaxTenants
  /\ OpensWith(r, [db EXCEPT !.tenants = @ + 1])
  /\ Goto(r, "tenant")

\* Mutant of FoundUser: INSERT OR IGNORE.
FoundUser_IgnoresConflict(r) ==
  /\ req[r].pc = "tenant"
  /\ Writes(r, IF Unique(draft, Founder(r)) THEN AddUser(draft, Founder(r))
                                             ELSE draft)
  /\ Goto(r, "user")

FoundUser(r) ==
  /\ req[r].pc = "tenant"
  /\ Unique(draft, Founder(r))
  /\ Writes(r, AddUser(draft, Founder(r)))
  /\ Goto(r, "user")

FoundToken(r) ==
  /\ req[r].pc = "user"
  /\ Writes(r, [draft EXCEPT !.tokens = @ \cup {draft.tenants}])
  /\ Goto(r, "token")

-------------------------------------------------------------------------------
(* The end of a transaction or a request                                    *)

Commit(r) ==
  /\ req[r].pc \in {"accepted", "token"}
  /\ db' = draft
  /\ writer' = {}
  /\ req' = [req EXCEPT ![r] = Idle]
  /\ IF req[r].sid = NoId
     THEN UNCHANGED answered
     ELSE \E u \in draft.users : u.sid = req[r].sid /\ Answer(u)
  /\ UNCHANGED <<draft, failures>>

\* What r would insert into users next.
Inserting(r) ==
  CASE req[r].pc = "invited" -> {Invitee(r, v) : v \in req[r].invite}
    [] req[r].pc = "tenant"  -> {Founder(r)}
    [] OTHER                 -> {}

\* The INSERT violates a UNIQUE constraint: roll back and answer 500.
Conflict(r) ==
  /\ req[r].pc = "invited" => writer = {}
  /\ \E u \in Inserting(r) :
       ~Unique(IF req[r].pc = "invited" THEN db ELSE draft, u)
  /\ Rollback({r})
  /\ UNCHANGED <<answered, failures>>

\* Mutant of Fail: the transaction is left open.
Fail_LeaksTransaction(r) ==
  /\ req[r].pc # "idle"
  /\ failures < MaxFailures
  /\ failures' = failures + 1
  /\ req' = [req EXCEPT ![r] = Idle]
  /\ UNCHANGED <<db, draft, writer, answered>>

\* Any other error: roll back and answer 500.
Fail(r) ==
  /\ req[r].pc # "idle"
  /\ failures < MaxFailures
  /\ failures' = failures + 1
  /\ Rollback({r})
  /\ UNCHANGED answered

\* The process dies, and its open transactions with it.
Crash ==
  /\ failures < MaxFailures
  /\ failures' = failures + 1
  /\ Rollback(Request)
  /\ UNCHANGED answered

-------------------------------------------------------------------------------
(* Single statements: invites, and the rest of the command line              *)

\* INSERT ... ON CONFLICT(email) DO UPDATE: the email's invite is replaced.
CreateInvite(t, e, role) ==
  /\ HasAdmin(db, t)
  /\ AutoCommits([db EXCEPT !.invites =
       {v \in @ : v.email # e} \cup {[email |-> e, tenant |-> t, role |-> role]}])

DeleteInvite(t, e) ==
  /\ HasAdmin(db, t)
  /\ AutoCommits([db EXCEPT !.invites =
       {v \in @ : ~(v.tenant = t /\ v.email = e)}])

\* create-user: no check that the tenant exists (foreign keys are not enforced).
CliCreateUser(t, n, role) ==
  LET u == [sid |-> NoId, name |-> n, tenant |-> t, role |-> role] IN
    /\ Unique(db, u)
    /\ AutoCommits(AddUser(db, u))

\* create-token, likewise.
CliCreateToken(t) == AutoCommits([db EXCEPT !.tokens = @ \cup {t}])

Next ==
  \/ \E r \in Request : \/ \E i \in Identity : Lookup(r, i)
                        \/ CheckInvite(r)
                        \/ AcceptUser(r) \/ AcceptConsume(r)
                        \/ \E n \in CliName : CliCreateTenant(r, n)
                        \/ FoundTenant(r) \/ FoundUser(r) \/ FoundToken(r)
                        \/ Commit(r) \/ Conflict(r) \/ Fail(r)
  \/ Crash
  \/ \E t \in Tenant, role \in Role :
       \/ \E e \in Name : CreateInvite(t, e, role)
       \/ \E n \in CliName : CliCreateUser(t, n, role)
  \/ \E t \in Tenant : \/ \E e \in Name : DeleteInvite(t, e)
                       \/ CliCreateToken(t)

Spec == Init /\ [][Next]_vars

\* A handler that has begun goes on, and busy_timeout lets it have the lock
\* once the lock stays free.  The browser of an identity keeps asking (it polls
\* every 15 s), and the server starts a goroutine for every request: that all
\* of Request are busy now and then is a bound of the model, hence SF.
Fairness ==
  /\ \A r \in Request :
       /\ WF_vars(CheckInvite(r))
       /\ WF_vars(AcceptUser(r)) /\ WF_vars(AcceptConsume(r))
       /\ WF_vars(FoundTenant(r)) /\ WF_vars(FoundUser(r))
       /\ WF_vars(FoundToken(r))
       /\ WF_vars(Commit(r)) /\ WF_vars(Conflict(r))
  /\ \A i \in Identity : SF_vars(\E r \in Request : Lookup(r, i))

FairSpec == Spec /\ Fairness

-------------------------------------------------------------------------------
(* Safety                                                                   *)

\* The three INSERTs of a founding are seen together or not at all: every committed
\* tenant has an admin and a row in api_tokens, whatever error, crash or concurrent
\* first login cut a founding short.  That somebody can ship data with the token of
\* that row (tenant.go:75-78) does not follow, and is not so after a first login.
TenantsWhole ==
  \A t \in 1 .. db.tenants : HasAdmin(db, t) /\ t \in db.tokens

\* An identity has one account, and every answer it was ever given named the
\* tenant and role of that account: two first logins of one identity at the
\* same time do not leave it with two tenants.
AnswersStand ==
  \A i \in Identity :
    LET accounts == {u \in db.users : u.sid = i} IN
      /\ \A u, v \in accounts : u = v
      /\ \A a \in answered[i] : \E u \in accounts : a = <<u.tenant, u.role>>

Joined == {u \in db'.users \ db.users : u.sid # NoId}

\* Joining a tenant by invite leaves no invite for that email pending, not even
\* one that replaced the accepted invite after it was read.
AcceptConsumesInvite ==
  [][\A u \in Joined : u.tenant <= db.tenants =>
       \A v \in db'.invites : v.email # u.name]_vars

-------------------------------------------------------------------------------
(* The promise behind it                                                    *)

\* The invites that may still be accepted: the pending ones, and those that a
\* login has read, even if they have been revoked or replaced since.
Open == db.invites \cup UNION {req[r].invite : r \in Request}

Promise == INSTANCE Accounts
  WITH tenants <- db.tenants, users <- db.users, tokens <- db.tokens,
       pending <- db.invites, open <- Open, told <- answered

\* Seen through what is committed, the statements and transactions of logins,
\* admins and the operator are the atomic operations of Accounts: tenants appear
\* whole, joining takes the tenant and the role of an invite that an admin made
\* for this email, and no account changes or vanishes.
ImplementsAccounts == Promise!Spec

-------------------------------------------------------------------------------
(* Liveness                                                                 *)

\* A first login comes to an end: conflicts with concurrent first logins, errors
\* and crashes are all got over by asking again, until the identity has its
\* account or another account has its email.
EmailsGetAccounts ==
  \A i \in Identity : <>(\E u \in db.users : u.sid = i \/ u.name = EmailOf[i])
===============================================================================
