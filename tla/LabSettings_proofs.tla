-------------------------- MODULE LabSettings_proofs --------------------------
(***************************************************************************)
(* What a PATCH stores, for any number of replicas, threads and settings:  *)
(* one state of the memory, because the lock is held from the first value  *)
(* read to the commit; and, when it met no other PATCH and no load of its  *)
(* replica, its own values and nothing else; up to the VT key, which       *)
(* enrich_vt writes without the lock. The invariants describe the memory   *)
(* and what has been read and fetched while such a PATCH is under way.     *)
(***************************************************************************)
EXTENDS LabSettings, TLAPS

OpShape(t) ==
    /\ op[t].pc \in {"persist", "fetch"} => {"pc", "set"} \subseteq DOMAIN op[t]
    /\ op[t].pc = "fetch" => /\ {"todo", "row", "val", "held"} \subseteq DOMAIN op[t]
                             /\ op[t].todo \in Seq(Keys)
                             /\ DOMAIN op[t].row = Keys /\ DOMAIN op[t].val = Keys

(* From StartPersist to the commit the lock is held, and the memory and    *)
(* what has been read of it is as it was when the lock was taken.          *)
Todo(t, k) == \E n \in DOMAIN op[t].todo : op[t].todo[n] = k

Locked(t) ==
    op[t].pc = "fetch" =>
        /\ lock[Home[t]] = t
        /\ \A k \in Keys : Fits(k, mem[Home[t]][k], op[t].held[k])
        /\ \A k \in Keys : Todo(t, k) \/ Fits(k, op[t].val[k], op[t].held[k])

LInv ==
    /\ DOMAIN mem = Replicas /\ \A r \in Replicas : DOMAIN mem[r] = Keys
    /\ DOMAIN lock = Replicas /\ DOMAIN op = Threads
    /\ \A t \in Threads : OpShape(t) /\ Locked(t)

LEMMA LInvInit == Init => LInv
BY SettingsAssumption DEF Init, LInv, OpShape, Locked, Idle

LEMMA KeysInOrder == KeyOrder \in Seq(Keys)
BY KeyOrderAssumption DEF Keys

(* What the head of the settings to store is and leaves to do.             *)
LEMMA HeadOrTail ==
  ASSUME NEW S, NEW s \in Seq(S), s # <<>>, NEW n \in DOMAIN s
  PROVE  s[n] = Head(s) \/ \E m \in DOMAIN Tail(s) : Tail(s)[m] = s[n]
<1>1. CASE n = 1
  BY <1>1
<1>2. CASE n # 1
  <2>1. n - 1 \in DOMAIN Tail(s) /\ Tail(s)[n - 1] = s[n]
    BY <1>2
  <2> QED
    BY <2>1
<1> QED
  BY <1>1, <1>2

(* A thread's own steps, each with what it does to the other threads.      *)
LEMMA LInvStep ==
  ASSUME LInv, [Next]_vars
  PROVE  LInv'
<1> USE ThreadsAssumption, FreeAssumption
<1>0. ASSUME NEW t \in Threads, op'[t] = op[t], lock' = lock,
             \A k \in Keys : \/ mem'[Home[t]][k] = mem[Home[t]][k]
                            \/ (k = Vt /\ mem'[Home[t]][k] = Env[Vt])
      PROVE  OpShape(t)' /\ Locked(t)'
  BY <1>0 DEF LInv, OpShape, Locked, Todo, Fits
<1>1. ASSUME NEW t \in Threads, LoadRead(t) PROVE LInv'
  BY <1>1 DEF LoadRead, Goto, LInv, OpShape, Locked, Todo
<1>2. ASSUME NEW t \in Threads, LoadMerge(t) PROVE LInv'
  BY <1>2 DEF LoadMerge, Goto, Unlocked, LInv, OpShape, Locked, Todo, Idle, Merged
<1>3. ASSUME NEW t \in Requests, NEW b \in Bodies, Update(t, b) PROVE LInv'
  <2>1. /\ op[t] = Idle /\ lock[Home[t]] = Free /\ lock' = lock /\ t \in Threads
        /\ \E m : mem' = [mem EXCEPT ![Home[t]] = m] /\ DOMAIN m = Keys
        /\ \/ op' = op \/ op' = [op EXCEPT ![t] = Idle]
           \/ op' = [op EXCEPT ![t] = [pc |-> "persist", set |-> b.set]]
    BY <1>3 DEF Update, Goto, Unlocked, Assigned
  <2>2. /\ DOMAIN mem' = Replicas /\ \A r \in Replicas \ {Home[t]} : mem'[r] = mem[r]
        /\ \A r \in Replicas : DOMAIN mem'[r] = Keys
    BY <2>1 DEF LInv
  <2>3. ASSUME NEW u \in Threads, op[u].pc = "fetch" PROVE Home[u] # Home[t]
    BY <2>1, <2>3 DEF LInv, Locked, Idle
  <2>4. OpShape(t)' /\ Locked(t)' /\ DOMAIN op' = Threads
    BY <2>1 DEF LInv, OpShape, Locked, Idle
  <2>5. ASSUME NEW u \in Threads \ {t} PROVE OpShape(u)' /\ Locked(u)'
    <3>1. op'[u] = op[u]
      BY <2>1 DEF LInv
    <3> QED
      BY <2>1, <2>2, <2>3, <3>1 DEF LInv, OpShape, Locked, Todo
  <2>6. \A u \in Threads : OpShape(u)' /\ Locked(u)'
    BY <2>4, <2>5
  <2>7. DOMAIN lock' = Replicas
    BY <2>1 DEF LInv
  <2> QED
    BY <2>2, <2>4, <2>6, <2>7 DEF LInv
<1>4. ASSUME NEW t \in Threads, StartPersist(t) PROVE LInv'
  <2>1. /\ op'[t].pc = "fetch" /\ lock'[Home[t]] = t /\ mem' = mem /\ OpShape(t)'
        /\ op'[t].held = mem[Home[t]] /\ op'[t].todo = KeyOrder
        /\ DOMAIN op' = Threads /\ DOMAIN lock' = Replicas
    BY <1>4, KeysInOrder, SettingsAssumption DEF StartPersist, Goto, LInv, OpShape
  <2>2. OpShape(t)' /\ Locked(t)'
    BY <2>1 DEF Locked, Fits, Todo, Keys
  <2>3. ASSUME NEW u \in Threads \ {t} PROVE OpShape(u)' /\ Locked(u)'
    BY <1>4 DEF StartPersist, Goto, Unlocked, LInv, OpShape, Locked, Todo
  <2> QED
    BY <2>1, <2>2, <2>3 DEF LInv
<1>5. ASSUME NEW t \in Threads, FetchRow(t) PROVE LInv'
  <2>1. /\ op[t].pc = "fetch" /\ DOMAIN op' = Threads /\ op'[t].pc = "fetch"
        /\ DOMAIN op'[t] = DOMAIN op[t] /\ op'[t].todo = Tail(op[t].todo)
        /\ op'[t].held = op[t].held /\ DOMAIN op'[t].row = Keys
        /\ op'[t].todo \in Seq(Keys) /\ op[t].todo \in Seq(Keys) /\ op[t].todo # <<>>
        /\ \A u \in Threads \ {t} : op'[u] = op[u]
        /\ lock' = lock /\ mem' = mem /\ DOMAIN op'[t].val = Keys
        /\ \A k \in Keys : op'[t].val[k] = IF k = Head(op[t].todo) THEN mem[Home[t]][k]
                                            ELSE op[t].val[k]
    BY <1>5 DEF FetchRow, LInv, OpShape
  <2>2. OpShape(t)' /\ Locked(t)'
    <3>1. OpShape(t) /\ Locked(t)
      BY DEF LInv
    <3>2. OpShape(t)'
      BY <2>1, <3>1 DEF OpShape
    <3>3. ASSUME NEW k \in Keys PROVE Todo(t, k)' \/ Fits(k, op'[t].val[k], op[t].held[k])
      <4>1. CASE k = Head(op[t].todo)
        BY <2>1, <3>1, <4>1 DEF Locked
      <4>2. ASSUME k # Head(op[t].todo), Todo(t, k) PROVE Todo(t, k)'
        BY <2>1, <4>2, HeadOrTail DEF Todo
      <4> QED
        BY <2>1, <3>1, <4>1, <4>2 DEF Locked
    <3> QED
      BY <2>1, <3>1, <3>2, <3>3 DEF Locked, Fits
  <2>3. ASSUME NEW u \in Threads PROVE OpShape(u)' /\ Locked(u)'
    BY <1>0, <2>1, <2>2
  <2> QED
    BY <2>1, <2>3 DEF LInv
<1>6. ASSUME NEW t \in Threads, CommitSettings(t) PROVE LInv'
  BY <1>6 DEF CommitSettings, Fetched, Unlock, Goto, LInv, OpShape, Locked, Todo
<1>7. ASSUME NEW t \in Threads, PersistFails(t) PROVE LInv'
  BY <1>7 DEF PersistFails, Unlock, Goto, LInv, OpShape, Locked, Todo, Idle
<1>8. ASSUME NEW t \in Threads, StartRefill(t) PROVE LInv'
  BY <1>8 DEF StartRefill, Goto, LInv, OpShape, Locked, Todo
<1>9. ASSUME NEW t \in Threads, Refill(t) PROVE LInv'
  <2>1. /\ DOMAIN mem' = Replicas /\ DOMAIN op' = Threads /\ lock' = lock
        /\ \A r \in Replicas : DOMAIN mem'[r] = Keys
        /\ \A r \in Replicas, k \in Keys : \/ mem'[r][k] = mem[r][k]
                                            \/ (k = Vt /\ mem'[r][k] = Env[Vt])
    BY <1>9 DEF Refill, Goto, LInv
  <2>2. OpShape(t)' /\ Locked(t)'
    BY <1>9 DEF Refill, Goto, LInv, OpShape, Locked, Idle
  <2>3. ASSUME NEW u \in Threads \ {t} PROVE OpShape(u)' /\ Locked(u)'
    BY <1>0, <1>9, <2>1 DEF Refill, Goto, LInv
  <2> QED
    BY <2>1, <2>2, <2>3 DEF LInv
<1>10. ASSUME NEW r \in Replicas, Restart(r) PROVE LInv'
  BY <1>10 DEF Restart, LInv, OpShape, Locked, Todo, Idle, Merged
<1>11. CASE UNCHANGED vars
  BY <1>11 DEF vars, LInv, OpShape, Locked, Todo
<1> QED
  BY <1>1, <1>2, <1>3, <1>4, <1>5, <1>6, <1>7, <1>8, <1>9, <1>10, <1>11
     DEF Next, Load, Continue, Patch

(* The one step by which a thread commits.                                 *)
LEMMA CommitIs ==
  ASSUME LInv, [Next]_vars, NEW t \in Threads, Commits(t)
  PROVE  CommitSettings(t)
<1> USE DEF Commits, LInv
<1>1. ASSUME NEW u \in Threads,
             \/ LoadRead(u) \/ LoadMerge(u) \/ StartPersist(u) \/ PersistFails(u)
             \/ StartRefill(u) \/ Refill(u)
      PROVE  FALSE
  BY <1>1 DEF LoadRead, LoadMerge, StartPersist, PersistFails, StartRefill, Refill, Goto, Idle
<1>2. ASSUME NEW u \in Threads, NEW b \in Bodies, Update(u, b) PROVE FALSE
  BY <1>2 DEF Update, Goto, Idle
<1>3. ASSUME NEW u \in Threads, FetchRow(u) PROVE FALSE
  BY <1>3 DEF FetchRow, OpShape
<1>4. ASSUME NEW u \in Threads \ {t}, CommitSettings(u) PROVE FALSE
  BY <1>4 DEF CommitSettings, Goto
<1>5. ASSUME NEW r \in Replicas, Restart(r) PROVE FALSE
  BY <1>5 DEF Restart, Idle
<1>6. CASE UNCHANGED vars
  BY <1>6 DEF vars
<1> QED
  BY <1>1, <1>2, <1>3, <1>4, <1>5, <1>6, ThreadsAssumption DEF Next, Load, Continue, Patch

(* While a PATCH holds its replica's lock nobody changes the memory, but   *)
(* for the VT key (lab_settings.py:189-208, vt_enrich.py:22-24).           *)
THEOREM InvariantHolds == Spec => []LInv
  BY LInvInit, LInvStep, PTL DEF Spec

(* What a PATCH commits is the memory as it was when the lock was taken,   *)
(* with the environment's VT key in it if a lookup put it there            *)
(* (lab_settings.py:189-208, vt_enrich.py:22-24).                          *)
THEOREM OneStateIsCommitted == Spec => CommitsOneState
<1>1. LInv /\ [Next]_vars =>
        [\A t \in Threads : Commits(t) =>
           \A k \in Keys : rows'[k] = rows[k] \/ Fits(k, rows'[k], op[t].held[k])]_vars
  <2> SUFFICES ASSUME LInv, [Next]_vars, NEW t \in Threads, Commits(t), NEW k \in Keys
               PROVE  rows'[k] = rows[k] \/ Fits(k, rows'[k], op[t].held[k])
    OBVIOUS
  <2>1. CommitSettings(t)
    BY CommitIs
  <2>2. Fits(k, op[t].val[k], op[t].held[k])
    BY <2>1 DEF CommitSettings, Fetched, LInv, Locked, Todo
  <2>3. rows'[k] = rows[k] \/ rows'[k] = op[t].val[k]
    BY <2>1 DEF CommitSettings
  <2> QED
    BY <2>2, <2>3
<1> QED
  BY <1>1, InvariantHolds, PTL DEF Spec, CommitsOneState

-----------------------------------------------------------------------------
(* A calm PATCH under way: nobody else stores or loads where it does, the  *)
(* memory is the table's settings with its own over them (up to the VT     *)
(* key), and so is what it has read of it; the rows it has fetched are     *)
(* still the table's.                                                      *)
Storing(t) == op[t].pc \in {"persist", "fetch"}

Alone(t) == \A u \in Threads \ {t} : ~Disturbs(u, t)

Wanted(t, k) == IF k \in DOMAIN op[t].set THEN op[t].set[k] ELSE Merged(Env, rows)[k]

Exact(t) == \A k \in Keys : Fits(k, mem[Home[t]][k], Wanted(t, k))

RowsKnown(t) ==
    op[t].pc = "fetch" =>
        \A k \in Keys : Todo(t, k) \/ (op[t].row[k] = rows[k] /\ Fits(k, op[t].val[k], Wanted(t, k)))

Undisturbed(t) == Storing(t) => Alone(t) /\ Exact(t) /\ RowsKnown(t)

CalmInv == calm \subseteq Threads /\ \A t \in calm : Undisturbed(t)

(* What others do leaves a calm PATCH so.                                  *)
LEMMA CalmFrame ==
  ASSUME NEW t \in Threads, Undisturbed(t), op'[t] = op[t], UNCHANGED rows,
         Storing(t) => /\ \A k \in Keys : \/ mem'[Home[t]][k] = mem[Home[t]][k]
                                           \/ (k = Vt /\ mem'[Home[t]][k] = Env[Vt])
                       /\ \A u \in Threads \ {t} : op'[u] = op[u] \/ ~Disturbs(u, t)'
  PROVE  Undisturbed(t)'
<1> SUFFICES ASSUME Storing(t)' PROVE Alone(t)' /\ Exact(t)' /\ RowsKnown(t)'
  BY DEF Undisturbed
<1>1. Storing(t) /\ Alone(t) /\ Exact(t) /\ RowsKnown(t)
  BY DEF Storing, Undisturbed
<1>2. Alone(t)'
  BY <1>1 DEF Alone, Disturbs
<1>3. Exact(t)'
  BY <1>1 DEF Exact, Wanted, Merged, Fits
<1>4. RowsKnown(t)'
  BY <1>1 DEF RowsKnown, Todo, Wanted, Merged, Fits
<1> QED
  BY <1>2, <1>3, <1>4

(* A PATCH that begins calm assigns its settings over the table's.         *)
LEMMA UpdateIsExact ==
  ASSUME LInv, NEW t \in Threads, NEW b \in Bodies, Update(t, b), t \in calm'
  PROVE  Undisturbed(t)'
<1> SUFFICES ASSUME Storing(t)' PROVE Alone(t)' /\ Exact(t)' /\ RowsKnown(t)'
  BY DEF Undisturbed
<1>1. /\ op[t] = Idle /\ rows' = rows
      /\ UpToDate(Home[t]) /\ \A u \in Threads \ {t} : ~Disturbs(u, t)
  BY DEF Update
<1>2. /\ op' = [op EXCEPT ![t] = [pc |-> "persist", set |-> b.set]]
      /\ mem' = [mem EXCEPT ![Home[t]] =
                   Assigned(Assigned(mem[Home[t]], b.set, Early), b.set, Keys)]
  BY <1>1 DEF Update, Storing, Goto, Idle, LInv
<1>3. /\ op'[t] = [pc |-> "persist", set |-> b.set]
      /\ \A u \in Threads \ {t} : op'[u] = op[u]
  BY <1>2 DEF LInv
<1>4. Alone(t)'
  BY <1>1, <1>3 DEF Alone, Disturbs
<1>5. Exact(t)'
  <2>1. mem'[Home[t]] = Assigned(Assigned(mem[Home[t]], b.set, Early), b.set, Keys)
    BY <1>2, ThreadsAssumption DEF LInv
  <2>2. \A k \in Keys : mem'[Home[t]][k] = IF k \in DOMAIN b.set THEN b.set[k]
                                           ELSE mem[Home[t]][k]
    BY <2>1 DEF Assigned
  <2>3. \A k \in Keys : Fits(k, mem[Home[t]][k], Merged(Env, rows)[k])
    BY <1>1 DEF UpToDate
  <2> QED
    BY <1>1, <1>3, <2>2, <2>3 DEF Exact, Wanted, Merged, Fits
<1>6. RowsKnown(t)'
  BY <1>3 DEF RowsKnown
<1> QED
  BY <1>4, <1>5, <1>6

(* Fetching the rows, one after another.                                   *)
LEMMA StartIsKnown ==
  ASSUME LInv, NEW t \in Threads, StartPersist(t), Undisturbed(t)
  PROVE  Undisturbed(t)'
<1>1. /\ op[t].pc = "persist" /\ UNCHANGED <<mem, rows>>
      /\ op'[t].pc = "fetch" /\ op'[t].set = op[t].set /\ op'[t].todo = KeyOrder
      /\ \A u \in Threads \ {t} : op'[u] = op[u]
  BY DEF StartPersist, Goto, LInv
<1>2. Alone(t) /\ Exact(t)
  BY <1>1 DEF Undisturbed, Storing
<1>3. Alone(t)'
  BY <1>1, <1>2 DEF Alone, Disturbs
<1>4. Exact(t)'
  BY <1>1, <1>2 DEF Exact, Wanted, Merged, Fits
<1>5. RowsKnown(t)'
  BY <1>1 DEF RowsKnown, Todo, Keys
<1> QED
  BY <1>3, <1>4, <1>5 DEF Undisturbed

LEMMA FetchIsKnown ==
  ASSUME LInv, NEW t \in Threads, FetchRow(t), Undisturbed(t)
  PROVE  Undisturbed(t)'
<1> DEFINE h == Head(op[t].todo)
<1>1. /\ op[t].pc = "fetch" /\ UNCHANGED <<mem, rows>> /\ op[t].todo # <<>>
      /\ op[t].todo \in Seq(Keys) /\ op'[t].todo = Tail(op[t].todo)
      /\ op'[t].pc = "fetch" /\ op'[t].set = op[t].set
      /\ \A k \in Keys : /\ op'[t].row[k] = IF k = h THEN rows[k] ELSE op[t].row[k]
                         /\ op'[t].val[k] = IF k = h THEN mem[Home[t]][k] ELSE op[t].val[k]
      /\ \A u \in Threads \ {t} : op'[u] = op[u]
  BY DEF FetchRow, LInv, OpShape
<1>2. Alone(t) /\ Exact(t) /\ RowsKnown(t)
  BY <1>1 DEF Undisturbed, Storing
<1>3. Alone(t)'
  BY <1>1, <1>2 DEF Alone, Disturbs
<1>4. Exact(t)'
  BY <1>1, <1>2 DEF Exact, Wanted, Merged, Fits
<1>5. ASSUME NEW k \in Keys
      PROVE  Todo(t, k)' \/ (op'[t].row[k] = rows'[k] /\ Fits(k, op'[t].val[k], Wanted(t, k)'))
  <2>1. Wanted(t, k)' = Wanted(t, k)
    BY <1>1 DEF Wanted, Merged
  <2>2. CASE k = h
    <3>1. op'[t].row[k] = rows'[k] /\ op'[t].val[k] = mem[Home[t]][k]
      BY <1>1, <2>2
    <3>2. Fits(k, mem[Home[t]][k], Wanted(t, k))
      BY <1>2 DEF Exact
    <3> QED
      BY <2>1, <3>1, <3>2
  <2>3. ASSUME k # h, Todo(t, k) PROVE Todo(t, k)'
    BY <1>1, <2>3, HeadOrTail DEF Todo
  <2>4. CASE k # h /\ ~Todo(t, k)
    BY <1>1, <1>2, <2>1, <2>4 DEF RowsKnown, Fits
  <2> QED
    BY <2>2, <2>3, <2>4 DEF Fits
<1>6. RowsKnown(t)'
  BY <1>5 DEF RowsKnown, Fits
<1> QED
  BY <1>3, <1>4, <1>6 DEF Undisturbed

LEMMA CalmStep ==
  ASSUME LInv, CalmInv, [Next]_vars
  PROVE  CalmInv'
<1> USE ThreadsAssumption
<1>1. ASSUME NEW u \in Threads, LoadRead(u) PROVE CalmInv'
  <2>1. /\ calm' \subseteq calm /\ UNCHANGED <<mem, rows>>
        /\ \A t \in calm' : t # u /\ Home[u] # Home[t]
        /\ op'[u].pc = "merge" /\ \A t \in Threads \ {u} : op'[t] = op[t]
    BY <1>1 DEF LoadRead, Goto, LInv
  <2>2. ASSUME NEW t \in calm' PROVE Undisturbed(t)'
    <3>1. t \in Threads /\ Undisturbed(t) /\ op'[t] = op[t] /\ mem' = mem
      BY <2>1 DEF CalmInv
    <3>2. \A v \in Threads \ {t} : op'[v] = op[v] \/ ~Disturbs(v, t)'
      BY <2>1 DEF Disturbs
    <3> QED
      BY <2>1, <3>1, <3>2, CalmFrame
  <2> QED
    BY <2>1, <2>2 DEF CalmInv
<1>2. ASSUME NEW u \in Threads, LoadMerge(u) PROVE CalmInv'
  <2>1. /\ calm' = calm /\ rows' = rows /\ op[u].pc = "merge" /\ op'[u] = Idle
        /\ \A t \in Threads \ {u} : op'[t] = op[t]
        /\ \A r \in Replicas \ {Home[u]} : mem'[r] = mem[r]
    BY <1>2 DEF LoadMerge, Goto, LInv
  <2>2. ASSUME NEW t \in calm PROVE Undisturbed(t)'
    <3>1. t \in Threads /\ Undisturbed(t)
      BY DEF CalmInv
    <3>2. CASE t = u
      BY <2>1, <3>2 DEF Undisturbed, Storing, Idle
    <3>3. CASE t # u
      <4>1. Storing(t) => Home[u] # Home[t]
        BY <2>1, <3>1, <3>3 DEF Undisturbed, Alone, Disturbs, Idle
      <4>2. \A v \in Threads \ {t} : op'[v] = op[v] \/ ~Disturbs(v, t)'
        BY <2>1 DEF Disturbs, Idle
      <4> QED
        BY <2>1, <3>1, <3>3, <4>1, <4>2, CalmFrame
    <3> QED
      BY <3>2, <3>3
  <2> QED
    BY <2>1, <2>2 DEF CalmInv
<1>3. ASSUME NEW u \in Requests, NEW b \in Bodies, Update(u, b) PROVE CalmInv'
  <2>1. calm' \in {{u}, {}} /\ u \in Threads
    BY <1>3 DEF Update
  <2> QED
    BY <1>3, <2>1, UpdateIsExact DEF CalmInv
<1>4. ASSUME NEW u \in Threads, UNCHANGED <<mem, rows, calm>>,
             \A t \in Threads \ {u} : op'[t] = op[t],
             op[u].pc \in {"persist", "fetch"}, Undisturbed(u) => Undisturbed(u)'
      PROVE  CalmInv'
  <2>1. ASSUME NEW t \in calm PROVE Undisturbed(t)'
    <3>1. t \in Threads /\ Undisturbed(t)
      BY DEF CalmInv
    <3>2. CASE t # u
      <4>1. ~Storing(t)
        BY <1>4, <3>1, <3>2 DEF Undisturbed, Alone, Disturbs, Idle
      <4> QED
        BY <1>4, <3>1, <3>2, <4>1 DEF Undisturbed, Storing
    <3> QED
      BY <1>4, <3>1, <3>2
  <2> QED
    BY <1>4, <2>1 DEF CalmInv
<1>5. ASSUME NEW u \in Threads, StartPersist(u) PROVE CalmInv'
  <2>1. /\ UNCHANGED <<mem, rows, calm>> /\ op[u].pc = "persist"
        /\ \A t \in Threads \ {u} : op'[t] = op[t]
    BY <1>5 DEF StartPersist, Goto, LInv
  <2> QED
    BY <1>4, <1>5, <2>1, StartIsKnown
<1>6. ASSUME NEW u \in Threads, FetchRow(u) PROVE CalmInv'
  <2>1. /\ UNCHANGED <<mem, rows, calm>> /\ op[u].pc = "fetch"
        /\ \A t \in Threads \ {u} : op'[t] = op[t]
    BY <1>6 DEF FetchRow, LInv
  <2> QED
    BY <1>4, <1>6, <2>1, FetchIsKnown
<1>7. ASSUME NEW u \in Threads, PersistFails(u) PROVE CalmInv'
  <2>1. /\ UNCHANGED <<mem, rows, calm>> /\ op[u].pc = "fetch" /\ op'[u] = Idle
        /\ \A t \in Threads \ {u} : op'[t] = op[t]
    BY <1>7 DEF PersistFails, Goto, LInv
  <2>2. Undisturbed(u)'
    BY <2>1 DEF Undisturbed, Storing, Idle
  <2> QED
    BY <1>4, <2>1, <2>2
<1>8. ASSUME NEW u \in Threads, CommitSettings(u) PROVE CalmInv'
  <2>1. /\ calm' = calm /\ op[u].pc = "fetch" /\ op'[u].pc = "reload"
        /\ \A t \in Threads \ {u} : op'[t] = op[t]
    BY <1>8 DEF CommitSettings, Fetched, Goto, LInv
  <2>2. \A t \in calm : ~Storing(t)'
    BY <2>1 DEF CalmInv, Undisturbed, Alone, Disturbs, Storing, Idle
  <2> QED
    BY <2>1, <2>2 DEF CalmInv, Undisturbed
<1>9. ASSUME NEW r \in Replicas, Restart(r) PROVE CalmInv'
  <2>1. /\ calm' = calm /\ rows' = rows
        /\ \A q \in Replicas \ {r} : mem'[q] = mem[q]
        /\ \A t \in Threads : op'[t] = IF Home[t] = r THEN Idle ELSE op[t]
    BY <1>9 DEF Restart, LInv
  <2>2. ASSUME NEW t \in calm PROVE Undisturbed(t)'
    <3>1. t \in Threads /\ Undisturbed(t)
      BY DEF CalmInv
    <3>2. CASE Home[t] = r
      BY <2>1, <3>1, <3>2 DEF Undisturbed, Storing, Idle
    <3>3. CASE Home[t] # r
      <4>1. \A v \in Threads \ {t} : op'[v] = op[v] \/ ~Disturbs(v, t)'
        BY <2>1 DEF Disturbs, Idle
      <4> QED
        BY <2>1, <3>1, <3>3, <4>1, CalmFrame
    <3> QED
      BY <3>2, <3>3
  <2> QED
    BY <2>1, <2>2 DEF CalmInv
<1>10. ASSUME NEW u \in Threads, StartRefill(u) \/ Refill(u) PROVE CalmInv'
  <2>1. /\ UNCHANGED <<rows, calm>> /\ op'[u].pc \in {"idle", "refill"} /\ ~Storing(u)
        /\ \A t \in Threads \ {u} : op'[t] = op[t]
        /\ \A t \in Threads, k \in Keys : \/ mem'[Home[t]][k] = mem[Home[t]][k]
                                           \/ (k = Vt /\ mem'[Home[t]][k] = Env[Vt])
    BY <1>10 DEF StartRefill, Refill, Goto, LInv, Storing, Idle
  <2>2. ASSUME NEW t \in calm PROVE Undisturbed(t)'
    <3>1. t \in Threads /\ Undisturbed(t)
      BY DEF CalmInv
    <3>2. CASE t = u
      BY <2>1, <3>2 DEF Undisturbed, Storing
    <3>3. CASE t # u
      <4>1. \A v \in Threads \ {t} : op'[v] = op[v] \/ ~Disturbs(v, t)'
        BY <2>1 DEF Disturbs
      <4> QED
        BY <2>1, <3>1, <3>3, <4>1, CalmFrame
    <3> QED
      BY <3>2, <3>3
  <2> QED
    BY <2>1, <2>2 DEF CalmInv
<1>11. CASE UNCHANGED vars
  <2>1. ASSUME NEW t \in calm PROVE Undisturbed(t)'
    BY <1>11, CalmFrame DEF vars, CalmInv
  <2> QED
    BY <1>11, <2>1 DEF vars, CalmInv
<1> QED
  BY <1>1, <1>2, <1>3, <1>5, <1>6, <1>7, <1>8, <1>9, <1>10, <1>11
     DEF Next, Load, Continue, Patch

(* A PATCH that met no other and no load stores its own values and touches *)
(* nothing else; in the place of the VT key there may be the environment's *)
(* (lab_settings.py:189-298, vt_enrich.py:22-24).                          *)
THEOREM CalmPatchesAreExact == Spec => CalmPatchIsExact
<1>1. Init => CalmInv
  BY DEF Init, CalmInv
<1>2. LInv /\ CalmInv /\ [Next]_vars => CalmInv'
  BY CalmStep
<1>3. LInv /\ CalmInv /\ [Next]_vars =>
        [\A t \in calm : Commits(t) =>
           \A k \in Keys : Fits(k, rows'[k], IF k \in DOMAIN op[t].set THEN op[t].set[k]
                                             ELSE Merged(Env, rows)[k])]_vars
  <2> SUFFICES ASSUME LInv, CalmInv, [Next]_vars, NEW t \in calm, Commits(t), NEW k \in Keys
               PROVE  Fits(k, rows'[k], Wanted(t, k))
    BY DEF Wanted
  <2>1. t \in Threads /\ CommitSettings(t) /\ op[t].pc = "fetch" /\ op[t].todo = <<>>
    BY CommitIs DEF CalmInv, CommitSettings, Fetched
  <2>2. Fits(k, op[t].val[k], Wanted(t, k)) /\ op[t].row[k] = rows[k]
    BY <2>1 DEF CalmInv, Undisturbed, Storing, RowsKnown, Todo
  <2>3. rows'[k] = op[t].val[k]
    BY <2>1, <2>2 DEF CommitSettings
  <2> QED
    BY <2>2, <2>3
<1> QED
  BY <1>1, <1>2, <1>3, InvariantHolds, PTL DEF Spec, CalmPatchIsExact
=============================================================================
