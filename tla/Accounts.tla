------------------------------ MODULE Accounts ------------------------------
(***************************************************************************)
(* auth.py and rbac.py, with authentication enabled: the users table, the  *)
(* rows bootstrap_auth adds to it when a replica starts, the tokens a login*)
(* issues, and who a request acts as. A token is signed and carries its    *)
(* claims; it cannot be revoked, so each request looks its account up. No  *)
(* endpoint changes an account: the operator does, in the database.        *)
(***************************************************************************)
EXTENDS Integers, FiniteSets

CONSTANTS
    Replicas, Clients,
    Names, Demo, Viewer,    \* usernames; DEMO_USERNAME and "viewer"
    Tenants, Default,       \* tenants; default_tenant_id
    FirstRows,              \* users tables the first start may find
    Ttl,                    \* TOKEN_TTL_SEC
    Asked,                  \* permissions requests ask for
    Rows,                   \* what the operator may make of an account
    MaxStarts, MaxEdits, MaxLogins, MaxCrashes, MaxTime     \* bounds

ASSUME NamesAssumption == {Demo, Viewer} \subseteq Names /\ Demo # Viewer /\ Default \in Tenants
ASSUME TokenTtlAssumption == Ttl \in Nat
ASSUME AskedAssumption == Asked \subseteq {"search", "alerts_write", "rules_write", "enrich",
                                          "setup", "purge", "ingest"}

ROLES == {"admin", "analyst", "viewer", "ingest"}
PERMS ==
    [search |-> {"admin", "analyst", "viewer"}, alerts_write |-> {"admin", "analyst"},
     rules_write |-> {"admin", "analyst"}, enrich |-> {"admin", "analyst"},
     setup |-> {"admin"}, purge |-> {"admin"}, ingest |-> {"admin", "ingest"}]

VARIABLES
    now,
    users,          \* the users table, by username
    tenant,         \* the default tenant has its row
    boot,           \* where bootstrap_auth is on each replica
    tokens,         \* issued by logins
    req,            \* the request of each client, and what came of it
    removed,        \* history: accounts the operator has ever deleted
    starts, edits, crashes

bootVars == <<users, tenant, boot>>
counters == <<starts, edits, crashes>>
vars == <<now, bootVars, tokens, req, removed, counters>>

NoUser == [role |-> "none"]
Account(role, t, active) == [role |-> role, tenant |-> t, active |-> active]
Down == [pc |-> "down"]
Idle == [pc |-> "idle"]
Machine == [user |-> "machine"]     \* SIEM_API_TOKEN

ASSUME FirstRowsAssumption ==
    FirstRows \subseteq [Names -> [role : ROLES, tenant : Tenants, active : BOOLEAN] \cup {NoUser}]

Init ==
    /\ now = 0
    /\ users \in FirstRows /\ tenant = (\E n \in Names : users[n] # NoUser)
    /\ boot = [r \in Replicas |-> Down]
    /\ tokens = {}
    /\ req = [c \in Clients |-> Idle]
    /\ removed = {} /\ starts = 0 /\ edits = 0 /\ crashes = 0

-----------------------------------------------------------------------------
(* The lifespan opens a session and looks for the tenant.                  *)
StartReplica(r) ==
    /\ boot[r].pc \in {"down", "exited"} /\ starts < MaxStarts
    /\ starts' = starts + 1
    /\ boot' = [boot EXCEPT ![r] = [pc |-> IF tenant THEN "demo" ELSE "flush",
                                    add |-> {}, inserted |-> FALSE]]
    /\ UNCHANGED <<now, users, tenant, tokens, req, removed, edits, crashes>>

(* The INSERT of the tenant waits for another replica's that is not yet    *)
(* committed, and fails if that one was.                                   *)
FlushTenant(r) ==
    /\ boot[r].pc = "flush"
    /\ \A q \in Replicas \ {r} : boot[q].pc \in {"demo", "viewer", "commit"} => ~boot[q].inserted
    /\ boot' = [boot EXCEPT ![r] = IF tenant THEN [pc |-> "exited"]
                                   ELSE [pc |-> "demo", add |-> {}, inserted |-> TRUE]]
    /\ UNCHANGED <<now, users, tenant, tokens, req, removed, counters>>

(* Mutant: with the demo account there, the viewer is taken for granted.   *)
LookForFirst(r, pc, name, next) ==
    /\ boot[r].pc = pc
    /\ boot' = [boot EXCEPT ![r] =
          [pc |-> IF users[name] # NoUser THEN "commit" ELSE next,
           add |-> IF users[name] = NoUser THEN @.add \cup {name} ELSE @.add,
           inserted |-> @.inserted]]
    /\ UNCHANGED <<now, users, tenant, tokens, req, removed, counters>>

LookFor(r, pc, name, next) ==
    /\ boot[r].pc = pc
    /\ boot' = [boot EXCEPT ![r] =
          [pc |-> next,
           add |-> IF users[name] = NoUser THEN @.add \cup {name} ELSE @.add,
           inserted |-> @.inserted]]
    /\ UNCHANGED <<now, users, tenant, tokens, req, removed, counters>>

(* Mutant: accounts are inserted whether they were missing or not.         *)
TakenAny(add) == \E n \in {Demo, Viewer} : users[n] # NoUser

Taken(add) == \E n \in add : users[n] # NoUser

(* A username inserted since it was looked for violates the key: the whole *)
(* transaction is rolled back, the lifespan raises, the process exits, and *)
(* the compose files give it no restart policy.                            *)
CommitBootstrap(r) ==
    /\ boot[r].pc = "commit"
    /\ IF Taken(boot[r].add)
       THEN boot' = [boot EXCEPT ![r] = [pc |-> "exited"]] /\ UNCHANGED <<users, tenant>>
       ELSE /\ users' = [n \in Names |->
                  IF n \notin boot[r].add THEN users[n]
                  ELSE Account(IF n = Demo THEN "admin" ELSE "viewer", Default, TRUE)]
            /\ tenant' = IF boot[r].inserted THEN TRUE ELSE tenant
            /\ boot' = [boot EXCEPT ![r] = [pc |-> "up"]]
    /\ UNCHANGED <<now, tokens, req, removed, counters>>

CrashReplica(r) ==
    /\ boot[r].pc \notin {"down", "exited"} /\ crashes < MaxCrashes
    /\ crashes' = crashes + 1
    /\ boot' = [boot EXCEPT ![r] = [pc |-> "exited"]]
    /\ UNCHANGED <<now, users, tenant, tokens, req, removed, starts, edits>>

Up == \E r \in Replicas : boot[r].pc = "up"

BootStep(r) ==
    \/ FlushTenant(r) \/ CommitBootstrap(r)
    \/ LookFor(r, "demo", Demo, "viewer") \/ LookFor(r, "viewer", Viewer, "commit")

-----------------------------------------------------------------------------
(* api_login with the right password (a wrong one is answered 401): the    *)
(* account's row, or the environment's account when it has none.           *)
Claims(name) ==
    IF users[name] # NoUser THEN { u \in {users[name]} : u.active }
    ELSE IF name = Demo THEN { Account("admin", Default, TRUE) } ELSE {}

(* issue_user_token; edits is history.                                     *)
Token(name, u) ==
    [user |-> name, role |-> u.role, tenant |-> u.tenant, exp |-> now + Ttl, edits |-> edits]

Login(name) ==
    /\ Up /\ Cardinality(tokens) < MaxLogins
    /\ \E u \in Claims(name) :
          tokens' = tokens \cup {Token(name, u)}
    /\ UNCHANGED <<now, bootVars, req, removed, counters>>

(* role_allows *)
Allows(role, perm) == role \in PERMS[perm]

(* The answer has, for the history, the account's row and whether there    *)
(* was any account when it was made.                                       *)
Answer(c, token, perm, role, t) ==
    req' = [req EXCEPT ![c] =
        [pc |-> IF Allows(role, perm) THEN "granted" ELSE "refused", token |-> token,
         perm |-> perm, role |-> role, tenant |-> t,
         rows |-> {users[token.user]} \ {NoUser}, empty |-> \A n \in Names : users[n] = NoUser]]

Rights(token) == [role |-> users[token.user].role, tenant |-> users[token.user].tenant]

(* verify_user_token                                                       *)
Expired(token) == token.exp < now

(* require_auth and require_perm: first the machine's token; then the      *)
(* signature and the expiry; then the account's row.                       *)
MachineRequest(c, perm) ==
    /\ Up /\ req[c] = Idle
    /\ req' = [req EXCEPT ![c] =
          [pc |-> IF Allows("ingest", perm) THEN "granted" ELSE "refused", token |-> Machine,
           perm |-> perm, role |-> "ingest", tenant |-> Default]]
    /\ UNCHANGED <<now, bootVars, tokens, removed, counters>>

Refuse(c, token, perm) ==
    req' = [req EXCEPT ![c] = [pc |-> "refused", token |-> token, perm |-> perm,
                               role |-> "none", tenant |-> Default]]

Request(c, token, perm) ==
    LET row == users[token.user]
    IN  /\ Up /\ req[c] = Idle
        /\ \/ /\ Expired(token) \/ (row # NoUser /\ ~row.active)
              /\ Refuse(c, token, perm)
           \/ /\ ~Expired(token) /\ row # NoUser /\ row.active
              /\ Answer(c, token, perm, Rights(token).role, Rights(token).tenant)
           \/ /\ ~Expired(token) /\ row = NoUser
              /\ req' = [req EXCEPT ![c] = [pc |-> "unknown", token |-> token, perm |-> perm]]
        /\ UNCHANGED <<now, bootVars, tokens, removed, counters>>

(* Mutant: an unknown account's token is as good as a known one's.         *)
AnyUserUnchecked(c) ==
    /\ req[c].pc = "unknown"
    /\ Answer(c, req[c].token, req[c].perm, req[c].token.role, req[c].token.tenant)
    /\ UNCHANGED <<now, bootVars, tokens, removed, counters>>

(* An unknown account: refused, unless there is none at all by now.        *)
AnyUser(c) ==
    /\ req[c].pc = "unknown"
    /\ IF \E n \in Names : users[n] # NoUser
       THEN Refuse(c, req[c].token, req[c].perm)
       ELSE Answer(c, req[c].token, req[c].perm, req[c].token.role, req[c].token.tenant)
    /\ UNCHANGED <<now, bootVars, tokens, removed, counters>>

Respond(c) ==
    /\ req[c].pc \in {"granted", "refused"}
    /\ req' = [req EXCEPT ![c] = Idle]
    /\ UNCHANGED <<now, bootVars, tokens, removed, counters>>

-----------------------------------------------------------------------------
(* The operator adds, changes or deletes an account.                       *)
EditAccount(n, row) ==
    /\ edits < MaxEdits /\ row # users[n]
    /\ edits' = edits + 1
    /\ users' = [users EXCEPT ![n] = row]
    /\ removed' = IF row = NoUser THEN removed \cup {n} ELSE removed
    /\ UNCHANGED <<now, tenant, boot, tokens, req, starts, crashes>>

Tick == now < MaxTime /\ now' = now + 1 /\ UNCHANGED <<bootVars, tokens, req, removed, counters>>

Next ==
    \/ \E r \in Replicas : StartReplica(r) \/ BootStep(r) \/ CrashReplica(r)
    \/ \E n \in Names : Login(n) \/ \E row \in Rows : EditAccount(n, row)
    \/ \E c \in Clients : Respond(c) \/ AnyUser(c) \/ \E perm \in Asked :
            MachineRequest(c, perm) \/ \E token \in tokens : Request(c, token, perm)
    \/ Tick

Spec == Init /\ [][Next]_vars

(* A replica that was started runs its lifespan to its end; nothing starts *)
(* it again.                                                               *)
FairSpec == Spec /\ \A r \in Replicas : WF_vars(BootStep(r))

-----------------------------------------------------------------------------
(* Whoever a replica serves, the tenant and both bootstrap accounts are    *)
(* there, except what the operator has deleted: the three are committed    *)
(* together, and a replica that lost the race for one of them is not       *)
(* serving (auth.py:136-164, main.py:308-313).                             *)
ServesBootstrapped ==
    Up => tenant /\ \A n \in {Demo, Viewer} \ removed : users[n] # NoUser

(* A token does not outlive its account (auth.py:228): what is granted is  *)
(* granted to the active account in the table, not to what the token says  *)
(* it was. The claims of a token count only while the table has no account *)
(* at all, and that is never the bootstrap race of auth.py:236: by then    *)
(* the operator has deleted both accounts the bootstrap adds, since no     *)
(* token is issued or used before they are committed (auth.py:222-242).    *)
ActsAsItsAccount ==
    \A c \in Clients : req[c].pc = "granted" /\ req[c].token # Machine =>
        \/ \E u \in req[c].rows : u.active /\ u.role = req[c].role /\ u.tenant = req[c].tenant
        \/ req[c].empty /\ {Demo, Viewer} \subseteq removed

(* Replicas started together over an empty table do not all lose: one      *)
(* serves, unless a crash or the operator interferes (auth.py:136-164).    *)
Starting(r) == boot[r].pc \in {"flush", "demo", "viewer", "commit"}

SomeReplicaServes == \A r \in Replicas : Starting(r) ~> Up \/ crashes + edits > 0

(* docs/architecture.md:54: the HA lab has two replicas. Refuted: the one  *)
(* that loses the race exits.                                              *)
EveryReplicaServes == \A r \in Replicas : Starting(r) ~> boot[r].pc = "up" \/ crashes + edits > 0

(* auth.py:124: the environment's account can log in without a row.        *)
(* Refuted: its token is refused while the table has other accounts.       *)
LoginIsAccepted ==
    \A c \in Clients : req[c].pc = "refused" /\ req[c].token # Machine =>
        \/ req[c].token.edits # edits \/ Expired(req[c].token)
        \/ ~Allows(req[c].token.role, req[c].perm)
=============================================================================
