------------------------------- MODULE Accounts -------------------------------
(***************************************************************************)
(* What the control plane promises about logins, whatever its statements,  *)
(* locks and races are: a tenant appears whole, with its first user as     *)
(* admin and a token, which nobody need have been shown; somebody joins a  *)
(* tenant only by an invite that an admin of it made for that email, once; *)
(* nobody ever loses or changes an account; and what an identity is told   *)
(* is its account.                                                         *)
(*                                                                         *)
(* An invite that was revoked or replaced may still be honoured: it stays  *)
(* open for the logins that had already read it.                           *)
(***************************************************************************)
EXTENDS Integers

CONSTANTS Identity, Name, EmailOf, CliName, AdminName, NoId, Tenant

VARIABLES
  tenants,  \* how many there are
  users,    \* the accounts
  tokens,   \* the tenants that have a token
  pending,  \* the invites on the admins' lists
  open,     \* the invites that may still be accepted
  told      \* the tenants and roles each identity was answered with

vars == <<tenants, users, tokens, pending, open, told>>

Role == {"admin", "viewer"}

Account(sid, name, t, role) ==
  [sid |-> sid, name |-> name, tenant |-> t, role |-> role]

HasAdmin(t) == \E u \in users : u.tenant = t /\ u.role = "admin"

Init ==
  /\ tenants = 1
  /\ users = {Account(NoId, AdminName, 1, "admin")}
  /\ tokens = {1}
  /\ pending = {}
  /\ open = {}
  /\ told = [i \in Identity |-> {}]

\* Any open invite but the pending ones may be closed.
Closes ==
  /\ pending' \subseteq open'
  /\ open' \subseteq open \cup pending'

\* u is a new account, under a name and an identity that have none.
Adds(u) ==
  /\ \A v \in users : v.name # u.name /\ (u.sid # NoId => v.sid # u.sid)
  /\ users' = users \cup {u}

Tells(u) == told' = [told EXCEPT ![u.sid] = @ \cup {<<u.tenant, u.role>>}]

-------------------------------------------------------------------------------

\* A first login, or the operator, founds a tenant.
Found(sid, name) ==
  LET u == Account(sid, name, tenants + 1, "admin") IN
    /\ Adds(u)
    /\ tenants' = tenants + 1
    /\ tokens' = tokens \cup {tenants + 1}
    /\ IF sid = NoId THEN UNCHANGED told ELSE Tells(u)
    /\ Closes
    /\ UNCHANGED pending

\* A first login accepts an invite.
Join(i, v) ==
  LET u == Account(i, EmailOf[i], v.tenant, v.role) IN
    /\ v.email = EmailOf[i]
    /\ Adds(u)
    /\ Tells(u)
    /\ pending' = {w \in pending : w.email # v.email}
    /\ Closes
    /\ UNCHANGED <<tenants, tokens>>

\* A later login.
Login(i) ==
  /\ \E u \in users : u.sid = i /\ Tells(u)
  /\ UNCHANGED <<tenants, users, tokens, pending, open>>

\* An admin invites an email, and revokes an invite; an invite is closed.
CreateInvite(t, e, role) ==
  /\ HasAdmin(t)
  /\ pending' = {v \in pending : v.email # e}
                  \cup {[email |-> e, tenant |-> t, role |-> role]}
  /\ Closes
  /\ UNCHANGED <<tenants, users, tokens, told>>

DeleteInvite(t, e) ==
  /\ HasAdmin(t)
  /\ pending' = {v \in pending : ~(v.tenant = t /\ v.email = e)}
  /\ Closes
  /\ UNCHANGED <<tenants, users, tokens, told>>

Close ==
  /\ Closes
  /\ UNCHANGED <<tenants, users, tokens, pending, told>>

\* The operator's single commands.
CreateUser(t, n, role) ==
  /\ Adds(Account(NoId, n, t, role))
  /\ UNCHANGED <<tenants, tokens, pending, open, told>>

CreateToken(t) ==
  /\ tokens' = tokens \cup {t}
  /\ UNCHANGED <<tenants, users, pending, open, told>>

Next ==
  \/ \E i \in Identity : \/ Found(i, EmailOf[i])
                         \/ \E v \in open : Join(i, v)
                         \/ Login(i)
  \/ \E n \in CliName : Found(NoId, n)
  \/ \E t \in Tenant : \/ \E e \in Name : \/ DeleteInvite(t, e)
                                          \/ \E role \in Role : CreateInvite(t, e, role)
                       \/ \E n \in CliName, role \in Role : CreateUser(t, n, role)
                       \/ CreateToken(t)
  \/ Close

Spec == Init /\ [][Next]_vars
===============================================================================
