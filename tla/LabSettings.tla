----------------------------- MODULE LabSettings -----------------------------
(***************************************************************************)
(* lab_settings.py: operator settings that each API replica keeps in       *)
(* memory, with overrides in the lab_settings table. PATCH /api/setup      *)
(* changes the memory, then stores it; a load (the rule and maintenance    *)
(* loops, GET /api/setup, the end of a PATCH) copies the table over the    *)
(* memory. A process-wide lock guards each half of a PATCH and the copying *)
(* half of a load, none of them as a whole, and each replica has its own.  *)
(* GET /api/enrich/vt (vt_enrich.py) writes the VT key without the lock.   *)
(***************************************************************************)
EXTENDS Integers, Sequences, FiniteSets

CONSTANTS
    Replicas,       \* API processes
    Threads,        \* what runs in them: request threads and the event loop
    Home,           \* the replica of each thread
    Requests,       \* threads serving PATCH /api/setup and GET /api/enrich/vt
    Looping,        \* threads running the loops (RUN_BACKGROUND_JOBS)
    KeyOrder,       \* the settings, in the order they are stored
    Stale, Silent,  \* health_stale_minutes, health_silent_minutes
    Vt,             \* vt_api_key
    Early,          \* settings update_lab_state assigns before it compares those
    Env,            \* the settings the environment gives
    Bodies,         \* PATCH bodies: what they set, and whether a late field is bad
    MaxPatches,     \* bound: PATCH requests
    MaxFails,       \* bound: database errors while storing
    MaxCrashes      \* bound: restarts of a replica

Keys == { KeyOrder[n] : n \in DOMAIN KeyOrder }

ASSUME ThreadsAssumption == /\ Home \in [Threads -> Replicas]
                            /\ Requests \subseteq Threads /\ Looping \subseteq Threads
ASSUME SettingsAssumption == /\ {Stale, Silent} \subseteq Early /\ Early \subseteq Keys
                             /\ Vt \in Keys \ Early /\ Env \in [Keys -> Nat]
                             /\ \A b \in Bodies : DOMAIN b.set \subseteq Keys

VARIABLES
    mem,            \* the LabState of each replica
    rows,           \* the lab_settings table
    lock,           \* the thread that holds the replica's _lock, or Free
    op,             \* what each thread is in the middle of
    calm,           \* history: the PATCH that began up to date and met no other
                    \* PATCH and no load since
    patches, fails, crashes

vars == <<mem, rows, lock, op, calm, patches, fails, crashes>>

Null == -1          \* no row for the key
NoKey == 0          \* a VT key cleared by PATCH (CLEAR), or none in the environment
Free == "free"
Idle == [pc |-> "idle"]

ASSUME FreeAssumption == Free \notin Threads
ASSUME KeyOrderAssumption == KeyOrder \in Seq(STRING)

Init ==
    /\ mem = [r \in Replicas |-> Env]
    /\ rows = [k \in Keys |-> Null]
    /\ lock = [r \in Replicas |-> Free]
    /\ op = [t \in Threads |-> Idle]
    /\ calm = {}
    /\ patches = 0 /\ fails = 0 /\ crashes = 0

Goto(t, state) == op' = [op EXCEPT ![t] = state]
Unlocked(t) == lock[Home[t]] = Free

-----------------------------------------------------------------------------
(* Mutant: the SELECT's result is not used.                                *)
MergedKeepsMemory(m, stored) == m

(* load_lab_settings_from_db: one SELECT, then the lock. A setting without *)
(* a row keeps the value the memory has.                                   *)
Merged(m, stored) == [k \in Keys |-> IF stored[k] = Null THEN m[k] ELSE stored[k]]

LoadRead(t) ==
    /\ op[t] = Idle \/ op[t].pc = "reload"
    /\ Goto(t, [pc |-> "merge", stored |-> rows])
    /\ calm' = { u \in calm : Home[u] # Home[t] }
    /\ UNCHANGED <<mem, rows, lock, patches, fails, crashes>>

(* Mutant: the copy does not wait for the lock.                            *)
LoadMergeUnlocked(t) ==
    /\ op[t].pc = "merge"
    /\ mem' = [mem EXCEPT ![Home[t]] = Merged(@, op[t].stored)]
    /\ Goto(t, Idle)
    /\ UNCHANGED <<rows, lock, calm, patches, fails, crashes>>

LoadMerge(t) ==
    /\ op[t].pc = "merge" /\ Unlocked(t)
    /\ mem' = [mem EXCEPT ![Home[t]] = Merged(@, op[t].stored)]
    /\ Goto(t, Idle)
    /\ UNCHANGED <<rows, lock, calm, patches, fails, crashes>>

-----------------------------------------------------------------------------
(* Mutant: a setting the body leaves out goes back to its default.         *)
AssignedOrDefault(m, set, S) ==
    [k \in Keys |-> IF k \notin S THEN m[k] ELSE IF k \in DOMAIN set THEN set[k] ELSE Env[k]]

(* History: the memory is what a restart would give, up to the VT key; a   *)
(* load on the replica or a PATCH anywhere is going on.                    *)
Fits(k, v, want) == v = want \/ (k = Vt /\ v = Env[Vt])
UpToDate(r) == \A k \in Keys : Fits(k, mem[r][k], Merged(Env, rows)[k])
Disturbs(u, t) == \/ op[u].pc \in {"persist", "fetch"}
                  \/ (op[u].pc \in {"merge", "reload"} /\ Home[u] = Home[t])

(* update_lab_state under the lock: settings are assigned one by one, and  *)
(* a check that fails leaves those assigned before it in place.            *)
Assigned(m, set, S) == [k \in Keys |-> IF k \in DOMAIN set \cap S THEN set[k] ELSE m[k]]

Ordered(m) == m[Silent] >= m[Stale]

Update(t, b) ==
    LET early == Assigned(mem[Home[t]], b.set, Early)
    IN  /\ op[t] = Idle /\ Unlocked(t) /\ patches < MaxPatches
        /\ patches' = patches + 1
        /\ calm' = IF UpToDate(Home[t]) /\ \A u \in Threads \ {t} : ~Disturbs(u, t) THEN {t} ELSE {}
        /\ \/ /\ ~Ordered(early)                    \* 400
              /\ mem' = [mem EXCEPT ![Home[t]] = early]
              /\ op' = op
           \/ /\ Ordered(early)
              /\ mem' = [mem EXCEPT ![Home[t]] = Assigned(early, b.set, Keys)]
              /\ Goto(t, IF b.bad THEN Idle         \* 400
                         ELSE [pc |-> "persist", set |-> b.set])
        /\ UNCHANGED <<rows, lock, fails, crashes>>

(* persist_lab_state takes the lock again: one setting after another is    *)
(* read from the memory and its row fetched. `held` is history.            *)
StartPersist(t) ==
    /\ op[t].pc = "persist" /\ Unlocked(t)
    /\ lock' = [lock EXCEPT ![Home[t]] = t]
    /\ Goto(t, [pc |-> "fetch", set |-> op[t].set, todo |-> KeyOrder,
                row |-> [k \in Keys |-> Null], val |-> Env, held |-> mem[Home[t]]])
    /\ UNCHANGED <<mem, rows, calm, patches, fails, crashes>>

FetchRow(t) ==
    /\ op[t].pc = "fetch" /\ op[t].todo # <<>>
    /\ LET k == Head(op[t].todo)
       IN  op' = [op EXCEPT ![t].todo = Tail(@), ![t].row[k] = rows[k],
                            ![t].val[k] = mem[Home[t]][k]]
    /\ UNCHANGED <<mem, rows, lock, calm, patches, fails, crashes>>

Fetched(t) == op[t].pc = "fetch" /\ op[t].todo = <<>>

(* Two replicas storing a setting for the first time: the second INSERT    *)
(* violates the primary key.                                               *)
Conflict(t) == \E k \in Keys : op[t].row[k] = Null /\ rows[k] # Null

Unlock(t) == lock' = [lock EXCEPT ![Home[t]] = Free]

(* Only rows whose value differs from the one fetched are written.         *)
CommitSettings(t) ==
    /\ Fetched(t) /\ ~Conflict(t)
    /\ rows' = [k \in Keys |-> IF op[t].row[k] # op[t].val[k] THEN op[t].val[k] ELSE rows[k]]
    /\ Unlock(t)
    /\ Goto(t, [pc |-> "reload"])
    /\ UNCHANGED <<mem, calm, patches, fails, crashes>>

(* The commit raises for the conflict, or any query because the database   *)
(* is away: 500, and the memory keeps what was assigned.                   *)
PersistFails(t) ==
    /\ op[t].pc = "fetch"
    /\ \/ Fetched(t) /\ Conflict(t) /\ fails' = fails
       \/ fails < MaxFails /\ fails' = fails + 1
    /\ Unlock(t)
    /\ Goto(t, Idle)
    /\ UNCHANGED <<mem, rows, calm, patches, crashes>>

-----------------------------------------------------------------------------
(* enrich_vt: when the memory has no VT key and the environment has one,   *)
(* the memory gets it. There is no lock, and the write follows whatever    *)
(* the memory has become since the check.                                  *)
StartRefill(t) ==
    /\ op[t] = Idle /\ mem[Home[t]][Vt] = NoKey /\ Env[Vt] # NoKey
    /\ Goto(t, [pc |-> "refill"])
    /\ UNCHANGED <<mem, rows, lock, calm, patches, fails, crashes>>

Refill(t) ==
    /\ op[t].pc = "refill"
    /\ mem' = [mem EXCEPT ![Home[t]][Vt] = Env[Vt]]
    /\ Goto(t, Idle)
    /\ UNCHANGED <<rows, lock, calm, patches, fails, crashes>>

-----------------------------------------------------------------------------
(* A replica goes down, and serves again once lifespan has loaded the      *)
(* table over the environment.                                             *)
Restart(r) ==
    /\ crashes < MaxCrashes
    /\ crashes' = crashes + 1
    /\ mem' = [mem EXCEPT ![r] = Merged(Env, rows)]
    /\ lock' = [lock EXCEPT ![r] = Free]
    /\ op' = [t \in Threads |-> IF Home[t] = r THEN Idle ELSE op[t]]
    /\ UNCHANGED <<rows, calm, patches, fails>>

(* Steps a thread takes once it has begun.                                 *)
Continue(t) ==
    \/ op[t].pc = "reload" /\ LoadRead(t)
    \/ LoadMerge(t)
    \/ StartPersist(t) \/ FetchRow(t) \/ CommitSettings(t) \/ PersistFails(t)
    \/ Refill(t)

Load(t) == LoadRead(t)
Patch(t) == \E b \in Bodies : Update(t, b)

Next ==
    \/ \E t \in Threads : Load(t) \/ Continue(t)
    \/ \E t \in Requests : Patch(t) \/ StartRefill(t)
    \/ \E r \in Replicas : Restart(r)

Spec == Init /\ [][Next]_vars

(* Threads are scheduled, and the loops of a replica that has them load    *)
(* the settings again every rule_interval_sec. Nothing obliges a request   *)
(* to arrive.                                                              *)
FairSpec ==
    /\ Spec
    /\ \A t \in Threads : WF_vars(Continue(t))
    /\ \A t \in Looping : WF_vars(Load(t))

-----------------------------------------------------------------------------
Settings == [Keys -> Nat]

TypeOK ==
    /\ mem \in [Replicas -> Settings]
    /\ rows \in [Keys -> Nat \cup {Null}]
    /\ lock \in [Replicas -> Threads \cup {Free}]
    /\ DOMAIN op = Threads /\ calm \subseteq Threads
    /\ \A t \in Threads : op[t].pc \in {"idle", "merge", "persist", "fetch", "reload", "refill"}
    /\ patches \in 0..MaxPatches /\ fails \in 0..MaxFails /\ crashes \in 0..MaxCrashes

Commits(t) == op[t].pc = "fetch" /\ op'[t].pc = "reload"

(* A PATCH stores the settings its body names and leaves the overrides     *)
(* others have stored alone (docker-compose.ha.yml:5-6: the replicas share *)
(* overrides). Holds for requests one at a time on one replica.            *)
PatchKeepsOthers ==
    [][\A t \in Threads : Commits(t) =>
         \A k \in Keys : rows'[k] # rows[k] =>
            \/ k \in DOMAIN op[t].set
            \/ rows[k] = Null /\ rows'[k] = Env[k]]_vars

(* test_lab_ops.py:32-51: what a PATCH sets is what is then in force. A    *)
(* PATCH that began with its replica's memory up to date, and met no load  *)
(* there and no other PATCH, stores its own values and touches nothing     *)
(* else, whatever was refused, lost or restarted before; but for the VT    *)
(* key, in whose place a lookup may put the environment's                  *)
(* (lab_settings.py:189-298, vt_enrich.py:22-24).                          *)
CalmPatchIsExact ==
    [][\A t \in calm : Commits(t) =>
         \A k \in Keys : Fits(k, rows'[k], IF k \in DOMAIN op[t].set THEN op[t].set[k]
                                           ELSE Merged(Env, rows)[k])]_vars

(* A request that is answered 200 has stored its own values. Holds when no *)
(* load runs beside it.                                                    *)
PatchSticks ==
    [][\A t \in Threads : Commits(t) =>
         \A k \in DOMAIN op[t].set : rows'[k] = op[t].set[k]]_vars

(* The two health thresholds in the table are in order: the check of       *)
(* lab_settings.py:256-257.                                                *)
StoredThresholdsOrdered ==
    (rows[Stale] # Null /\ rows[Silent] # Null) => rows[Silent] >= rows[Stale]

(* The settings are read from the memory one after another while loads,    *)
(* patches and restarts go on, and still what is committed is the memory   *)
(* as it was when the lock was taken: no torn set of settings is stored.   *)
(* The VT key, which is also written without the lock, may be the          *)
(* environment's instead (lab_settings.py:189-208, vt_enrich.py:22-24).    *)
CommitsOneState ==
    [][\A t \in Threads : Commits(t) =>
         \A k \in Keys : rows'[k] = rows[k] \/ Fits(k, rows'[k], op[t].held[k])]_vars

(* Once PATCHes cease, every replica that runs the loops ends up with the  *)
(* stored settings in memory (main.py:274, main.py:293), whatever lookups  *)
(* go on: where a VT key was cleared the environment's may come back       *)
(* between two loads, and one that was set stays.                          *)
Agrees(r) ==
    \A k \in Keys : rows[k] # Null =>
        mem[r][k] = rows[k] \/ (k = Vt /\ rows[k] = NoKey /\ mem[r][k] = Env[Vt])

LoopingConverge == \A t \in Looping : <>[]Agrees(Home[t])

(* README.md:82: overrides are shared. Every replica ends up with them.    *)
OverridesShared == \A r \in Replicas : <>[]Agrees(r)
=============================================================================
