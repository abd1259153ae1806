--------------------------- MODULE Accounts_proofs ---------------------------
(***************************************************************************)
(* What serves is bootstrapped, and a request acts as its account, for any *)
(* number of replicas, clients, accounts and starts. A bootstrap decides   *)
(* what to insert on what it found, and others' commits come in between;   *)
(* the invariant says what each stage of it has ensured so far. That the   *)
(* accounts are there, or have been deleted, is never undone.              *)
(***************************************************************************)
EXTENDS Accounts, TLAPS

Ensured(n) == users[n] # NoUser \/ n \in removed

(* A bootstrap past a lookup has found the account, or will insert it.     *)
BootFound ==
    \A r \in Replicas :
        /\ boot[r].pc \in {"demo", "viewer", "commit"} => tenant \/ boot[r].inserted
        /\ boot[r].pc \in {"viewer", "commit"} => Demo \in boot[r].add \/ Ensured(Demo)
        /\ boot[r].pc = "commit" => Viewer \in boot[r].add \/ Ensured(Viewer)

Bootstrapped == tenant /\ Ensured(Demo) /\ Ensured(Viewer)

(* What can only exist once some replica has served.                       *)
AfterBootstrap ==
    /\ Up => Bootstrapped
    /\ \A c \in Clients : req[c].pc = "unknown" => Bootstrapped

Going == [pc : {"flush", "demo", "viewer", "commit"}, add : SUBSET {Demo, Viewer},
          inserted : BOOLEAN]

Shape ==
    /\ boot \in [Replicas -> Going \cup [pc : {"down", "up", "exited"}]]
    /\ DOMAIN req = Clients /\ DOMAIN users = Names
    /\ \A token \in tokens : token.user \in Names
    /\ \A c \in Clients : req[c].pc = "unknown" => req[c].token.user \in Names

IInv == Shape /\ BootFound /\ AfterBootstrap /\ ActsAsItsAccount

(* Initially nothing has started.                                          *)
LEMMA InitHolds == Init => IInv
  BY FirstRowsAssumption
     DEF Init, IInv, Shape, BootFound, AfterBootstrap, Up, ActsAsItsAccount, Down, Idle

(* What the bootstrap has ensured stays so: only the operator deletes.     *)
LEMMA EnsuredStays ==
  ASSUME Shape, [Next]_vars
  PROVE  /\ tenant => tenant'
         /\ \A n \in Names : Ensured(n) => Ensured(n)'
<1> USE DEF Ensured
<1>1. ASSUME NEW r \in Replicas, CommitBootstrap(r)
      PROVE  (tenant => tenant') /\ \A n \in Names : Ensured(n) => Ensured(n)'
  BY <1>1 DEF CommitBootstrap, Taken
<1>2. ASSUME NEW n \in Names, NEW row \in Rows, EditAccount(n, row)
      PROVE  (tenant => tenant') /\ \A m \in Names : Ensured(m) => Ensured(m)'
  BY <1>2 DEF EditAccount, Shape
<1>3. CASE UNCHANGED <<users, tenant, removed>>
  BY <1>3
<1> QED
  BY <1>1, <1>2, <1>3
     DEF Next, BootStep, StartReplica, FlushTenant, LookFor, CrashReplica, Login, Respond,
         AnyUser, MachineRequest, Request, Tick, vars, bootVars

(* Which steps touch the bootstraps, and which the requests.               *)
LEMMA BootSteps ==
  [Next]_vars =>
     \/ \E r \in Replicas :
            \/ StartReplica(r) \/ FlushTenant(r) \/ CommitBootstrap(r) \/ CrashReplica(r)
            \/ LookFor(r, "demo", Demo, "viewer") \/ LookFor(r, "viewer", Viewer, "commit")
     \/ boot' = boot
<1> HAVE [Next]_vars
<1>1. ASSUME NEW n \in Names, Login(n) \/ \E row \in Rows : EditAccount(n, row)
      PROVE  boot' = boot
  BY <1>1 DEF Login, EditAccount, bootVars
<1>2. ASSUME NEW c \in Clients, Respond(c) \/ AnyUser(c)
      PROVE  boot' = boot
  BY <1>2 DEF Respond, AnyUser, bootVars
<1>3. ASSUME NEW c \in Clients, NEW perm \in Asked,
             MachineRequest(c, perm) \/ \E token \in tokens : Request(c, token, perm)
      PROVE  boot' = boot
  BY <1>3 DEF MachineRequest, Request, bootVars
<1>4. CASE Tick \/ UNCHANGED vars
  BY <1>4 DEF Tick, vars, bootVars
<1> QED
  BY <1>1, <1>2, <1>3, <1>4 DEF Next, BootStep

LEMMA RequestSteps ==
  [Next]_vars =>
     \/ \E c \in Clients :
            \/ Respond(c) \/ AnyUser(c)
            \/ \E perm \in Asked :
                  MachineRequest(c, perm) \/ \E token \in tokens : Request(c, token, perm)
     \/ req' = req
<1> HAVE [Next]_vars
<1>1. ASSUME NEW r \in Replicas, StartReplica(r) \/ BootStep(r) \/ CrashReplica(r)
      PROVE  req' = req
  BY <1>1 DEF StartReplica, BootStep, FlushTenant, CommitBootstrap, LookFor, CrashReplica
<1>2. ASSUME NEW n \in Names, Login(n) \/ \E row \in Rows : EditAccount(n, row)
      PROVE  req' = req
  BY <1>2 DEF Login, EditAccount
<1>3. CASE Tick \/ UNCHANGED vars
  BY <1>3 DEF Tick, vars
<1> QED
  BY <1>1, <1>2, <1>3 DEF Next

(* The two ends of a bootstrap.                                            *)
LEMMA CommitOutcome ==
  ASSUME NEW r \in Replicas, CommitBootstrap(r)
  PROVE  /\ boot[r].pc = "commit" /\ UNCHANGED <<tokens, req, removed>>
         /\ Taken(boot[r].add) => /\ boot' = [boot EXCEPT ![r] = [pc |-> "exited"]]
                                  /\ UNCHANGED <<users, tenant>>
         /\ ~Taken(boot[r].add) => /\ boot' = [boot EXCEPT ![r] = [pc |-> "up"]]
                                   /\ DOMAIN users' = Names
                                   /\ \A n \in Names \cap boot[r].add : users'[n] # NoUser
                                   /\ tenant \/ boot[r].inserted => tenant'
<1>1. boot[r].pc = "commit" /\ UNCHANGED <<tokens, req, removed>>
  BY DEF CommitBootstrap
<1>2. ASSUME Taken(boot[r].add)
      PROVE  boot' = [boot EXCEPT ![r] = [pc |-> "exited"]] /\ UNCHANGED <<users, tenant>>
  BY <1>2 DEF CommitBootstrap
<1>3. ASSUME ~Taken(boot[r].add)
      PROVE  /\ boot' = [boot EXCEPT ![r] = [pc |-> "up"]]
             /\ DOMAIN users' = Names
             /\ \A n \in Names \cap boot[r].add : users'[n] # NoUser
             /\ tenant \/ boot[r].inserted => tenant'
  <2>1. boot' = [boot EXCEPT ![r] = [pc |-> "up"]] /\ DOMAIN users' = Names
    BY <1>3 DEF CommitBootstrap
  <2>2. \A n \in Names \cap boot[r].add : users'[n] # NoUser
    BY <1>3 DEF CommitBootstrap, Account, NoUser
  <2>3. tenant \/ boot[r].inserted => tenant'
    BY <1>3 DEF CommitBootstrap
  <2> QED
    BY <2>1, <2>2, <2>3
<1> QED
  BY <1>1, <1>2, <1>3

(* The shape of the state: one step per action.                            *)
LEMMA ShapeStep ==
  ASSUME Shape, [Next]_vars
  PROVE  Shape'
<1> USE NamesAssumption DEF Shape, Going
<1>1. ASSUME NEW r \in Replicas, StartReplica(r) PROVE Shape'
  BY <1>1 DEF StartReplica
<1>2. ASSUME NEW r \in Replicas, FlushTenant(r) PROVE Shape'
  BY <1>2 DEF FlushTenant, counters
<1>3. ASSUME NEW r \in Replicas, LookFor(r, "demo", Demo, "viewer") PROVE Shape'
  BY <1>3 DEF LookFor, counters
<1>4. ASSUME NEW r \in Replicas, LookFor(r, "viewer", Viewer, "commit") PROVE Shape'
  BY <1>4 DEF LookFor, counters
<1>5. ASSUME NEW r \in Replicas, CommitBootstrap(r) PROVE Shape'
  BY <1>5, CommitOutcome
<1>6. ASSUME NEW r \in Replicas, CrashReplica(r) PROVE Shape'
  BY <1>6 DEF CrashReplica
<1>7. ASSUME NEW n \in Names, Login(n) PROVE Shape'
  BY <1>7 DEF Login, Token, bootVars, counters
<1>8. ASSUME NEW n \in Names, NEW row \in Rows, EditAccount(n, row) PROVE Shape'
  BY <1>8 DEF EditAccount
<1>9. ASSUME NEW c \in Clients, Respond(c) \/ AnyUser(c) PROVE Shape'
  BY <1>9 DEF Respond, AnyUser, Refuse, Answer, Idle, bootVars, counters
<1>10. ASSUME NEW c \in Clients, NEW perm \in Asked, MachineRequest(c, perm) PROVE Shape'
  BY <1>10 DEF MachineRequest, bootVars, counters
<1>11. ASSUME NEW c \in Clients, NEW perm \in Asked, NEW token \in tokens, Request(c, token, perm)
       PROVE  Shape'
  BY <1>11 DEF Request, Refuse, Answer, bootVars, counters
<1>12. CASE Tick \/ UNCHANGED vars
  BY <1>12 DEF Tick, vars, bootVars, counters
<1> QED
  BY <1>1, <1>2, <1>3, <1>4, <1>5, <1>6, <1>7, <1>8, <1>9, <1>10, <1>11, <1>12
     DEF Next, BootStep

(* A bootstrap's stages: its own steps take it on, the commits of others   *)
(* only ensure more.                                                       *)
LEMMA BootFoundStep ==
  ASSUME Shape, BootFound, [Next]_vars
  PROVE  BootFound'
<1>1. /\ tenant => tenant'
      /\ Ensured(Demo) => Ensured(Demo)'
      /\ Ensured(Viewer) => Ensured(Viewer)'
  BY EnsuredStays, NamesAssumption
<1>2. ASSUME boot' = boot PROVE BootFound'
  BY <1>1, <1>2 DEF BootFound
<1>3. ASSUME NEW r \in Replicas, StartReplica(r) PROVE BootFound'
  BY <1>1, <1>3 DEF BootFound, StartReplica, Shape
<1>4. ASSUME NEW r \in Replicas, FlushTenant(r) PROVE BootFound'
  BY <1>1, <1>4 DEF BootFound, FlushTenant, Shape
<1>5. ASSUME NEW r \in Replicas, LookFor(r, "demo", Demo, "viewer") PROVE BootFound'
  BY <1>1, <1>5 DEF BootFound, LookFor, Shape, Going, Ensured
<1>6. ASSUME NEW r \in Replicas, LookFor(r, "viewer", Viewer, "commit") PROVE BootFound'
  BY <1>1, <1>6 DEF BootFound, LookFor, Shape, Going, Ensured
<1>7. ASSUME NEW r \in Replicas, CommitBootstrap(r) PROVE BootFound'
  BY <1>1, <1>7, CommitOutcome DEF BootFound, Shape
<1>8. ASSUME NEW r \in Replicas, CrashReplica(r) PROVE BootFound'
  BY <1>1, <1>8 DEF BootFound, CrashReplica, Shape
<1> QED
  BY <1>2, <1>3, <1>4, <1>5, <1>6, <1>7, <1>8, BootSteps

(* A replica comes up when its commit completes what the bootstrap found.  *)
LEMMA AfterBootstrapStep ==
  ASSUME Shape, BootFound, AfterBootstrap, [Next]_vars
  PROVE  AfterBootstrap'
<1>1. Bootstrapped => Bootstrapped'
  BY EnsuredStays, NamesAssumption DEF Bootstrapped
<1>2. ASSUME ~Up, Up' PROVE Bootstrapped'
  <2>1. PICK r \in Replicas : boot[r].pc # "up" /\ boot'[r].pc = "up"
    BY <1>2 DEF Up
  <2>2. CommitBootstrap(r) /\ boot[r].pc = "commit" /\ ~Taken(boot[r].add)
    BY <2>1, BootSteps, CommitOutcome
       DEF Shape, StartReplica, FlushTenant, LookFor, CrashReplica
  <2>3. /\ tenant \/ boot[r].inserted
        /\ Demo \in boot[r].add \/ Ensured(Demo)
        /\ Viewer \in boot[r].add \/ Ensured(Viewer)
    BY <2>2 DEF BootFound
  <2> QED
    BY <1>1, <2>2, <2>3, CommitOutcome, EnsuredStays, NamesAssumption DEF Bootstrapped, Ensured
<1>3. ASSUME NEW c \in Clients, req'[c].pc = "unknown" PROVE Bootstrapped'
  <2>1. CASE req[c].pc = "unknown"
    BY <1>1, <2>1 DEF AfterBootstrap
  <2>2. CASE req[c].pc # "unknown"
    <3>1. Up
      BY <1>3, <2>2, RequestSteps
         DEF Shape, Respond, AnyUser, MachineRequest, Request, Refuse, Answer, Idle
    <3> QED
      BY <1>1, <3>1 DEF AfterBootstrap
  <2> QED
    BY <2>1, <2>2
<1> QED
  BY <1>1, <1>2, <1>3 DEF AfterBootstrap

(* Deleted once is remembered.                                             *)
LEMMA RemovedStays ==
  [Next]_vars => removed \subseteq removed'
<1> HAVE [Next]_vars
<1>1. ASSUME NEW n \in Names, NEW row \in Rows, EditAccount(n, row)
      PROVE  removed \subseteq removed'
  BY <1>1 DEF EditAccount
<1>2. CASE removed' = removed
  BY <1>2
<1> QED
  BY <1>1, <1>2
     DEF Next, BootStep, StartReplica, FlushTenant, LookFor, CommitBootstrap, CrashReplica,
         Login, Respond, AnyUser, MachineRequest, Request, Tick, vars, bootVars

(* What the second look at the table answers: a client it grants anything  *)
(* saw an empty table, and the bootstrap had filled it before.             *)
LEMMA AnyUserOutcome ==
  ASSUME Shape, AfterBootstrap, NEW c \in Clients, AnyUser(c), req'[c].pc = "granted"
  PROVE  req'[c].empty /\ {Demo, Viewer} \subseteq removed'
<1>1. req[c].pc = "unknown" /\ removed' = removed /\ req[c].token.user \in Names
  BY DEF AnyUser, counters, Shape
<1>2. \A n \in Names : users[n] = NoUser
  BY DEF AnyUser, Refuse, Shape
<1>3. req'[c].empty
  BY <1>2 DEF AnyUser, Answer, Shape
<1>4. {Demo, Viewer} \subseteq removed
  BY <1>1, <1>2, NamesAssumption DEF AfterBootstrap, Bootstrapped, Ensured
<1> QED
  BY <1>1, <1>2, <1>3, <1>4

(* What the first look at the table grants.                                *)
LEMMA RequestOutcome ==
  ASSUME Shape, NEW c \in Clients, NEW perm \in Asked, NEW token \in tokens,
         Request(c, token, perm), req'[c].pc = "granted"
  PROVE  \E u \in req'[c].rows : u.active /\ u.role = req'[c].role /\ u.tenant = req'[c].tenant
<1>1. users[token.user] # NoUser /\ users[token.user].active
  BY DEF Request, Refuse, Shape
<1>2. /\ req'[c].rows = {users[token.user]} \ {NoUser}
      /\ req'[c].role = users[token.user].role /\ req'[c].tenant = users[token.user].tenant
  BY <1>1 DEF Request, Refuse, Answer, Rights, Shape
<1> QED
  BY <1>1, <1>2

LEMMA ActsStep ==
  ASSUME Shape, AfterBootstrap, ActsAsItsAccount, [Next]_vars
  PROVE  ActsAsItsAccount'
<1> SUFFICES ASSUME NEW c \in Clients, req'[c].pc = "granted", req'[c].token # Machine
             PROVE  \/ \E u \in req'[c].rows :
                          u.active /\ u.role = req'[c].role /\ u.tenant = req'[c].tenant
                    \/ req'[c].empty /\ {Demo, Viewer} \subseteq removed'
  BY DEF ActsAsItsAccount, Machine
<1>1. CASE req'[c] = req[c]
  BY <1>1, RemovedStays DEF ActsAsItsAccount
<1>2. CASE AnyUser(c)
  BY <1>2, AnyUserOutcome
<1>3. ASSUME NEW perm \in Asked, NEW token \in tokens, Request(c, token, perm)
      PROVE  \E u \in req'[c].rows :
                 u.active /\ u.role = req'[c].role /\ u.tenant = req'[c].tenant
  BY <1>3, RequestOutcome
<1>4. CASE Respond(c)
  BY <1>4 DEF Respond, Idle, Shape
<1>5. ASSUME NEW perm \in Asked, MachineRequest(c, perm)
      PROVE  req'[c].token = Machine
  BY <1>5 DEF MachineRequest, Shape
<1>6. ASSUME NEW d \in Clients \ {c}, NEW perm \in Asked, NEW token \in tokens,
             Respond(d) \/ AnyUser(d) \/ MachineRequest(d, perm) \/ Request(d, token, perm)
      PROVE  req'[c] = req[c]
  BY <1>6 DEF Respond, AnyUser, MachineRequest, Request, Refuse, Answer, Shape
<1>7. ASSUME NEW d \in Clients \ {c}, Respond(d) \/ AnyUser(d)
      PROVE  req'[c] = req[c]
  BY <1>7 DEF Respond, AnyUser, Refuse, Answer, Shape
<1>8. ASSUME NEW d \in Clients \ {c}, NEW perm \in Asked, MachineRequest(d, perm)
      PROVE  req'[c] = req[c]
  BY <1>8 DEF MachineRequest, Shape
<1> QED
  BY <1>1, <1>2, <1>3, <1>4, <1>5, <1>6, <1>7, <1>8, RequestSteps

(* Each stage of a bootstrap keeps its promise, and so do the requests.    *)
THEOREM InvariantHolds == Spec => []IInv
<1>1. IInv /\ [Next]_vars => IInv'
  BY ShapeStep, BootFoundStep, AfterBootstrapStep, ActsStep DEF IInv
<1> QED
  BY InitHolds, <1>1, PTL DEF Spec

(* Whoever a replica serves, the bootstrap rows are there unless deleted   *)
(* (auth.py:136-164).                                                      *)
THEOREM BootstrappedAlways == Spec => []ServesBootstrapped
<1>1. IInv => ServesBootstrapped
  BY DEF IInv, AfterBootstrap, Bootstrapped, Ensured, ServesBootstrapped
<1> QED
  BY InvariantHolds, <1>1, PTL

(* A granted request acts as its account's row; a token's claims count     *)
(* only while the table is empty and both bootstrap accounts have been     *)
(* deleted by the operator (auth.py:222-242).                              *)
THEOREM RightsAreTheAccounts == Spec => []ActsAsItsAccount
  BY InvariantHolds, PTL DEF IInv
=============================================================================
