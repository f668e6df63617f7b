------------------------------ MODULE Accounts ------------------------------
(***************************************************************************)
(* The users table and what is keyed to an account's address, the sessions *)
(* and API keys that requests come with, and the requests that change an   *)
(* account (src/ceynex/api/users.py, auth.py, api_keys.py, routes/auth.py, *)
(* routes/account.py, routes/admin.py).  The SELECT that reads an account, *)
(* the count of the admins it may call for and the UPDATE or DELETE that   *)
(* follows are steps of their own, as another transaction may commit       *)
(* between any two of them; from that statement on, which locks the row,   *)
(* to the commit is one step.                                              *)
(* One worker's memory of epochs is modelled: nothing but that worker's    *)
(* own session checks writes or reads it.                                  *)
(***************************************************************************)
EXTENDS Integers, FiniteSets

CONSTANTS
  People,      \* users.id
  Emails,
  Requests,
  KnownMax,   \* _KNOWN_EPOCHS_MAX
  MaxEpoch,   \* bound: changes of one account that cut its sessions
  MaxCalls,   \* bound: requests made
  MaxTokens,  \* bound: sessions followed
  MaxRows     \* bound: rows and keys written

VARIABLES
  users,      \* id -> its row
  created,    \* the ids given out
  tokens,     \* the login JWTs, with the account that signed in
  rows,       \* rows keyed by address: API keys, history, conversations
  known,      \* _known_epochs: address -> epoch, or Gone
  refused,    \* sessions this worker has seen cut, could still remember, and has not
              \* found their account without the address since
  postgres,   \* it answers
  req,        \* request -> where it is
  calls,      \* requests made
  overlapped, \* two guards were between their count and their update at once, or an
              \* admin was taken by a request that had read an account with less to lose
  crossed     \* a change of address or a delete went by an address the account had no more

table == <<users, created, rows>>
worker == <<known, refused>>
races == <<overlapped, crossed>>
vars == <<table, tokens, worker, postgres, req, calls, races>>

Gone == -1
Unknown == -2
Roles == {"admin", "researcher"}
Tokens == [user : People, email : Emails, role : Roles, epoch : 0..MaxEpoch, live : BOOLEAN]
Idle == [at |-> "idle"]
AdminOps == {"demote", "promote", "disable", "enable", "password", "create"}
OwnOps == {"own_password", "own_email", "own_delete", "write"}
\* Those that SELECT the account before they change it.
ReadingOps == {"demote", "promote", "disable", "enable", "own_email", "own_delete"}
States == {"idle", "accepted", "audited", "clear", "guard", "counted"}

TypeOK ==
  /\ DOMAIN users \subseteq created /\ created \subseteq People
  /\ \A u \in DOMAIN users :
       users[u] \in [email : Emails, role : Roles, enabled : BOOLEAN, epoch : 0..MaxEpoch]
  /\ \A u, v \in DOMAIN users : users[u].email = users[v].email => u = v
  /\ tokens \subseteq Tokens /\ Cardinality(tokens) <= MaxTokens
  /\ rows \subseteq [author : People, email : Emails, late : BOOLEAN]
  /\ known \in [Emails -> {Gone, Unknown} \cup 0..MaxEpoch] /\ refused \subseteq tokens
  /\ postgres \in BOOLEAN /\ calls \in 0..MaxCalls
  /\ overlapped \in BOOLEAN /\ crossed \in BOOLEAN
  /\ \A r \in Requests : req[r].at \in States

\* A deployment after its bootstrap admin made a second one.
Init ==
  /\ \E u, v \in People, d, e \in Emails :
       /\ u # v /\ d # e /\ created = {u, v}
       /\ users = [w \in {u, v} |-> [email |-> IF w = u THEN d ELSE e, role |-> "admin",
                                     enabled |-> TRUE, epoch |-> 0]]
  /\ tokens = {} /\ rows = {} /\ known = [e \in Emails |-> Unknown] /\ refused = {}
  /\ postgres = TRUE /\ req = [r \in Requests |-> Idle] /\ calls = 0
  /\ overlapped = FALSE /\ crossed = FALSE

-----------------------------------------------------------------------------
(* The table.                                                              *)

Holder(e) == {u \in DOMAIN users : users[u].email = e}
Admins == {v \in DOMAIN users : users[v].role = "admin" /\ users[v].enabled}
OtherAdmins(u) == Admins \ {u}
Still(t) == t.user \in DOMAIN users /\ users[t.user].email = t.email
Current(t) ==
  /\ Still(t) /\ users[t.user].enabled /\ users[t.user].epoch = t.epoch

\* Mutant: a new account finds what its address owned before.
CreateUser_Inherits(u, e, role) ==
  /\ u \notin created /\ Holder(e) = {}
  /\ created' = created \cup {u}
  /\ users' = [v \in DOMAIN users \cup {u} |->
        IF v = u THEN [email |-> e, role |-> role, enabled |-> TRUE, epoch |-> 0] ELSE users[v]]
  /\ rows' = rows

\* create_user: stale rows of the address go.
CreateUser(u, e, role) ==
  /\ u \notin created /\ Holder(e) = {}
  /\ created' = created \cup {u}
  /\ users' = [v \in DOMAIN users \cup {u} |->
        IF v = u THEN [email |-> e, role |-> role, enabled |-> TRUE, epoch |-> 0] ELSE users[v]]
  /\ rows' = {x \in rows : x.email # e}

\* Every row set_role, set_disabled and set_password leave.
Update(u, role, enabled, cuts) ==
  /\ cuts => users[u].epoch < MaxEpoch
  /\ users' = [users EXCEPT ![u] = [email |-> users[u].email, role |-> role, enabled |-> enabled,
                                    epoch |-> users[u].epoch + (IF cuts THEN 1 ELSE 0)]]
  /\ UNCHANGED <<created, rows>>

SetRole(u, role) == Update(u, role, users[u].enabled, TRUE)

SetDisabled(u, disabled) == Update(u, users[u].role, ~disabled, disabled)
SetPassword(u) == Update(u, users[u].role, users[u].enabled, TRUE)

\* _reassign_owned_rows: what is left under the new address goes, what the old one
\* owned moves.
Reassign(old, e) ==
  rows' = {[x EXCEPT !.email = e] : x \in {y \in rows : y.email = old}}
            \cup {y \in rows : y.email \notin {e, old}}

\* Mutant: the address may be somebody's.
SetEmail_Taken(u, old, e) ==
  /\ u \in DOMAIN users /\ users[u].epoch < MaxEpoch
  /\ users' = [users EXCEPT ![u].email = e, ![u].epoch = @ + 1]
  /\ Reassign(old, e) /\ UNCHANGED created

\* set_email, from its UPDATE on, with the address it read: the UPDATE finds nothing when
\* the account is gone, and the rows are moved all the same.
SetEmail(u, old, e) ==
  /\ IF u \in DOMAIN users
     THEN /\ Holder(e) \subseteq {u} /\ users[u].epoch < MaxEpoch
          /\ users' = [users EXCEPT ![u].email = e, ![u].epoch = @ + 1]
     ELSE users' = users
  /\ Reassign(old, e) /\ UNCHANGED created

\* delete_user, from its DELETEs on, with the address it read.
DeleteUser(u, old) ==
  /\ users' = [v \in DOMAIN users \ {u} |-> users[v]]
  /\ rows' = {x \in rows : x.email # old}
  /\ UNCHANGED created

\* An answered login, signup or change carries a token for the row it read.
Issue(u, row) ==
  tokens' = IF Cardinality(tokens) = MaxTokens THEN tokens
            ELSE tokens \cup {[user |-> u, email |-> row.email, role |-> row.role,
                                epoch |-> row.epoch, live |-> row.enabled]}

-----------------------------------------------------------------------------
(* Requests.                                                               *)

Quiet == UNCHANGED <<worker, postgres, calls>>
Count == calls < MaxCalls /\ calls' = calls + 1
End(r) == req' = [req EXCEPT ![r] = Idle]
Move(r, at) == req' = [req EXCEPT ![r].at = at]

\* signup takes no admin role.
Signup ==
  /\ postgres /\ Count
  /\ \E u \in People, e \in Emails : CreateUser(u, e, "researcher") /\ Issue(u, users'[u])
  /\ UNCHANGED <<worker, postgres, req, races>>

Login ==
  /\ postgres /\ Count
  /\ \E u \in DOMAIN users : users[u].enabled /\ Issue(u, users[u])
  /\ UNCHANGED <<table, worker, postgres, req, races>>

Epoch(e) ==
  LET live == {u \in Holder(e) : users[u].enabled}
  IN IF live = {} THEN Gone ELSE users[CHOOSE u \in live : TRUE].epoch

\* Mutant: the memory is not kept.
Remember_Never(e, n) == known' = known

\* _remember_epoch: a full memory is emptied first.
Remember(e, n) ==
  LET full == Cardinality({d \in Emails : known[d] # Unknown}) >= KnownMax /\ known[e] = Unknown
  IN known' = [d \in Emails |-> IF d = e THEN n ELSE IF full THEN Unknown ELSE known[d]]

InFlight(t, sure) ==
  [at |-> "accepted", user |-> t.user, email |-> t.email, role |-> t.role, session |-> t,
   sure |-> sure, op |-> "none", target |-> t.user]

\* verify_token.
Session(r) ==
  /\ req[r] = Idle /\ Count
  /\ \E t \in tokens :
       LET e == Epoch(t.email)
           accepted == IF postgres THEN e = t.epoch ELSE known[t.email] \in {Unknown, t.epoch}
       IN /\ IF postgres THEN Remember(t.email, e) ELSE UNCHANGED known
          /\ refused' = {s \in refused : Still(s) /\ known'[s.email] # Unknown}
               \cup (IF postgres /\ ~accepted /\ t.live /\ Still(t) THEN {t} ELSE {})
          /\ req' = IF accepted THEN [req EXCEPT ![r] = InFlight(t, postgres)] ELSE req
  /\ UNCHANGED <<table, tokens, postgres, races>>

\* api_keys.authenticate: the role is looked up; without Postgres no key works.
Key(r) ==
  /\ req[r] = Idle /\ postgres /\ Count
  /\ \E x \in rows : \E u \in Holder(x.email) :
       /\ users[u].enabled
       /\ req' = [req EXCEPT ![r] =
            InFlight([user |-> u, email |-> x.email, role |-> users[u].role,
                      epoch |-> users[u].epoch, live |-> TRUE], TRUE)]
  /\ UNCHANGED <<table, tokens, worker, postgres, races>>

\* An admin's action is in the audit log before anything is done.
Audit(r) ==
  /\ req[r].at = "accepted" /\ postgres /\ req[r].role = "admin"
  /\ \E op \in AdminOps, u \in created :
       req' = [req EXCEPT ![r].at = "audited", ![r].op = op, ![r].target = u]
  /\ Quiet /\ UNCHANGED <<table, tokens, races>>

\* _require_current_password: the address still is the person's own.
Confirm(r) ==
  /\ req[r].at = "accepted" /\ postgres
  /\ req[r].user \in Holder(req[r].email) /\ users[req[r].user].enabled
  /\ \E op \in OwnOps \ {"write"} :
       req' = [req EXCEPT ![r].at = "audited", ![r].op = op, ![r].target = req[r].user]
  /\ Quiet /\ UNCHANGED <<table, tokens, races>>

\* A row or a key is written under the address the request came with; `late' when it
\* is the person's no more.
Write(r) ==
  /\ req[r].at = "accepted" /\ postgres
  /\ Cardinality(rows) < MaxRows
  /\ rows' = rows \cup {[author |-> req[r].user, email |-> req[r].email,
                         late |-> req[r].user \notin Holder(req[r].email)]}
  /\ End(r) /\ Quiet /\ UNCHANGED <<users, created, tokens, races>>

\* What the operation would take from the enabled admins.
Takes(op, u) ==
  /\ users[u].role = "admin"
  /\ op \in {"demote", "disable"} \/ (op = "own_delete" /\ users[u].enabled)

\* The SELECT: its row says whether the admins are to be counted, and which address the
\* account's rows are under.  An account gone, or an address it has already, is an answer.
Select(r) ==
  LET op == req[r].op
      u == req[r].target
  IN /\ req[r].at = "audited" /\ op \in ReadingOps /\ postgres
     /\ \/ u \notin DOMAIN users /\ End(r) /\ UNCHANGED tokens
        \/ u \in DOMAIN users /\ op = "own_email" /\ End(r) /\ Issue(u, users[u])
        \/ /\ u \in DOMAIN users /\ UNCHANGED tokens
           /\ req' = [req EXCEPT ![r].at = IF Takes(op, u) THEN "guard" ELSE "clear",
                                 ![r].email = users[u].email]
     /\ Quiet /\ UNCHANGED <<table, races>>

\* _enabled_admin_count: none left over is a LastAdminError.
CountAdmins(r) ==
  /\ req[r].at = "guard" /\ postgres
  /\ IF OtherAdmins(req[r].target) = {} THEN End(r) ELSE Move(r, "counted")
  /\ overlapped' = (overlapped \/ \E s \in Requests \ {r} : req[s].at = "counted")
  /\ Quiet /\ UNCHANGED <<table, tokens, crossed>>

\* An admin is taken that was none when the request read the account.
Uncounted(r) ==
  /\ req[r].at = "clear" /\ req[r].target \in DOMAIN users
  /\ Takes(req[r].op, req[r].target)

\* The account has not the address its request read.
Astray(r) ==
  /\ req[r].op \in {"own_email", "own_delete"}
  /\ req[r].target \notin Holder(req[r].email)

\* The statements that change something and their commit; an UPDATE finds no row that
\* went meanwhile.
Apply(r) ==
  LET op == req[r].op
      u == req[r].target
      old == req[r].email
  IN /\ \/ req[r].at = "audited" /\ op \notin ReadingOps
        \/ req[r].at \in {"clear", "counted"}
     /\ postgres
     /\ \/ op = "create" /\ \E v \in People, e \in Emails, role \in Roles :
             CreateUser(v, e, role) /\ UNCHANGED tokens
        \/ op = "own_email" /\ \E e \in Emails \ {old} : SetEmail(u, old, e)
             /\ IF u \in DOMAIN users THEN Issue(u, users'[u]) ELSE UNCHANGED tokens
        \/ op = "own_delete" /\ DeleteUser(u, old) /\ UNCHANGED tokens
        \/ op \notin {"create", "own_email", "own_delete"} /\ u \notin DOMAIN users
             /\ UNCHANGED <<table, tokens>>
        \/ u \in DOMAIN users /\
             \/ op = "demote" /\ SetRole(u, "researcher") /\ UNCHANGED tokens
             \/ op = "promote" /\ SetRole(u, "admin") /\ UNCHANGED tokens
             \/ op \in {"disable", "enable"} /\ SetDisabled(u, op = "disable") /\ UNCHANGED tokens
             \/ op = "password" /\ SetPassword(u) /\ UNCHANGED tokens
             \/ op = "own_password" /\ SetPassword(u) /\ Issue(u, users'[u])
     /\ overlapped' = (overlapped \/ Uncounted(r))
     /\ crossed' = (crossed \/ Astray(r))
     /\ End(r) /\ Quiet

\* A 4xx, or a 503 without Postgres.
GiveUp(r) ==
  /\ req[r] # Idle /\ End(r)
  /\ Quiet /\ UNCHANGED <<table, tokens, races>>

\* Postgres goes away or comes back.
Toggle ==
  /\ postgres' = ~postgres
  /\ UNCHANGED <<table, tokens, worker, req, calls, races>>

\* The worker restarts with an empty memory; its requests are lost.
Restart ==
  /\ known' = [e \in Emails |-> Unknown] /\ refused' = {}
  /\ req' = [r \in Requests |-> Idle]
  /\ UNCHANGED <<table, tokens, postgres, calls, races>>

Next ==
  \/ Signup \/ Login \/ Toggle \/ Restart
  \/ \E r \in Requests :
       \/ Session(r) \/ Key(r) \/ Audit(r) \/ Confirm(r) \/ Write(r) \/ Select(r)
       \/ CountAdmins(r) \/ Apply(r) \/ GiveUp(r)

Spec == Init /\ [][Next]_vars

-----------------------------------------------------------------------------
(* Properties.                                                             *)

Accepted(r) == req[r] = Idle /\ req'[r] # Idle

\* The role a request is let in with while Postgres answers is the one its account
\* has at that moment, though it is read off the token (auth.py, verify_token).
RoleIsCurrent ==
  [][\A r \in Requests : Accepted(r) /\ req'[r].sure /\ Still(req'[r].session) =>
       users[req'[r].user].enabled /\ req'[r].role = users[req'[r].user].role]_vars

\* A session that was cut stays cut, for as long as the account has the address:
\* enabling, promoting or renaming it again brings none back.  (One that a change of
\* password or address hands out to an account disabled meanwhile never began.)
NeverRevived ==
  [][\A t \in tokens : t.live /\ Still(t) /\ ~Current(t) /\ Still(t)' => ~Current(t)']_vars

\* "A session cut before the outage and checked since stays cut" (auth.py): the worker
\* that checked it does not let it in while Postgres is away, until it restarts or its
\* memory is emptied, or a check finds the address with another account or with none.
RefusedForGood ==
  [][\A r \in Requests :
       Accepted(r) /\ ~req'[r].sure => req'[r].session \notin refused]_vars

\* Nobody starts with what another account left under the address, as long as no change
\* went by an address the account had no more.
NothingInherited ==
  [][\A u \in DOMAIN users' :
       ~crossed' /\ (u \notin DOMAIN users \/ users[u].email # users'[u].email) =>
         \A x \in rows' : x.email = users'[u].email =>
           u \in DOMAIN users /\ \E y \in rows : y.author = x.author /\ y.email = users[u].email]_vars

\* What an account owns is under its address, and goes when the account does.
Owned(x) == x.author \in DOMAIN users /\ x.email = users[x.author].email

\* What was written in an account's name while the address was its own follows it to
\* every later address, and to its end, as long as no change went by an address the
\* account had no more: only the row locks and the order of the statements see to it.
RowsFollow == ~crossed => \A x \in rows : ~x.late => Owned(x)

\* And as long as none did, nothing anybody else does removes it.
RowsLast ==
  [][\A x \in rows : ~crossed' /\ ~x.late /\ x.author \in DOMAIN users' =>
       \E y \in rows' : y.author = x.author /\ ~y.late]_vars

\* The last enabled admin stays as long as no two guards overlap and no admin is taken
\* by a request that had read an account with less to lose.
AdminRemains == ~overlapped => Admins # {}

\* routes/account.py: a deployment is never left without an admin.
LastAdminKept == Admins # {}

=============================================================================
