-------------------------- MODULE AlertEngine_proofs --------------------------
(***************************************************************************)
(* Proofs about AlertEngine, for any number of passes, requests, rules and *)
(* entities.                                                               *)
(***************************************************************************)
EXTENDS AlertSla, AlertDedup, FiniteSetTheorems, WellFoundedInduction, TLAPS

(* What a commit of a pass does to the table: it grows by the pending      *)
(* alerts, and of an existing row only the evidence changes.               *)
LEMMA CommitSessionEffect ==
    ASSUME AlertTableTypeOK, RunTypeOK, NEW r \in Runners, CommitSession(r)
    PROVE  /\ alerts' \in Seq(AlertRow)
           /\ Len(alerts') = Len(alerts) + Len(fresh[r])
           /\ \A i \in DOMAIN alerts :
                 /\ i \in DOMAIN alerts'
                 /\ alerts'[i].rule = alerts[i].rule
                 /\ alerts'[i].entity = alerts[i].entity
                 /\ alerts'[i].created = alerts[i].created
                 /\ alerts'[i].status = alerts[i].status
                 /\ alerts'[i].acked = alerts[i].acked
                 /\ alerts'[i].closed = alerts[i].closed
           /\ \A i \in DOMAIN alerts' \ DOMAIN alerts :
                 /\ alerts'[i].status = "open"
                 /\ alerts'[i].acked = Null /\ alerts'[i].closed = Null
  <1> DEFINE n == Len(alerts) + Len(fresh[r])
  <1>1. alerts \in Seq(AlertRow) /\ fresh[r] \in Seq(PendingAlert) /\ begun[r] \in Time
    BY DEF AlertTableTypeOK, RunTypeOK
  <1>2. ASSUME NEW i \in DOMAIN alerts PROVE MergedRow(r, i) \in AlertRow
    <2>1. alerts[i] \in AlertRow
      BY <1>1
    <2>2. CASE i \in DOMAIN dirty[r]
      <3>1. dirty[r][i] \in PendingMerge
        BY <2>2 DEF RunTypeOK
      <3>2. dirty[r][i].occurrences \in Nat /\ dirty[r][i].n \in Nat
        BY <3>1 DEF PendingMerge
      <3>3. alerts[i].hits + dirty[r][i].n \in Nat
        BY <2>1, <3>2 DEF AlertRow
      <3> QED BY <2>1, <2>2, <3>2, <3>3 DEF MergedRow, AlertRow
    <2>3. CASE i \notin DOMAIN dirty[r]
      BY <2>1, <2>3 DEF MergedRow
    <2> QED BY <2>2, <2>3
  <1>3. ASSUME NEW i \in 1..Len(fresh[r])
        PROVE  NewAlert(fresh[r][i].rule, fresh[r][i].entity, begun[r]) \in AlertRow
    <2>1. fresh[r][i] \in PendingAlert
      BY <1>1
    <2>2. fresh[r][i].rule \in Rules /\ fresh[r][i].entity \in Entities
      BY <2>1 DEF PendingAlert
    <2> QED BY <1>1, <2>2 DEF NewAlert, AlertRow, ALERT_STATUSES, Stamp, Time, Null
  <1>4. n \in Nat /\ Len(alerts) \in Nat /\ Len(fresh[r]) \in Nat
    BY <1>1
  <1>5. alerts' \in [1..n -> AlertRow]
    BY <1>1, <1>2, <1>3, <1>4 DEF CommitSession
  <1>6. alerts' \in Seq(AlertRow) /\ Len(alerts') = n /\ DOMAIN alerts' = 1..n
    BY <1>4, <1>5
  <1>7. \A i \in DOMAIN alerts : i \in DOMAIN alerts' /\ alerts'[i] = MergedRow(r, i)
    BY <1>1, <1>4, <1>6 DEF CommitSession
  <1>8. ASSUME NEW i \in DOMAIN alerts' \ DOMAIN alerts
        PROVE  /\ alerts'[i].status = "open"
               /\ alerts'[i].acked = Null /\ alerts'[i].closed = Null
    BY <1>1, <1>4, <1>6 DEF CommitSession, NewAlert
  <1>9. ASSUME NEW i \in DOMAIN alerts
        PROVE  /\ MergedRow(r, i).rule = alerts[i].rule
               /\ MergedRow(r, i).entity = alerts[i].entity
               /\ MergedRow(r, i).created = alerts[i].created
               /\ MergedRow(r, i).status = alerts[i].status
               /\ MergedRow(r, i).acked = alerts[i].acked
               /\ MergedRow(r, i).closed = alerts[i].closed
    BY <1>1 DEF MergedRow, AlertRow
  <1> QED BY <1>6, <1>7, <1>8, <1>9

-----------------------------------------------------------------------------
(* What the commit of a request does: the row it read is the only one that *)
(* changes, and only in its workflow columns, with a stamp taken since.    *)
LEMMA CommitStatusEffect ==
    ASSUME AlertTableTypeOK, WorkflowTypeOK, NEW a \in Analysts, CommitStatus(a)
    PROVE  /\ alerts' \in Seq(AlertRow)
           /\ Len(alerts') = Len(alerts)
           /\ req[a] \in Loaded /\ req[a].alert \in DOMAIN alerts
           /\ \E at \in Time :
                 /\ req[a].begun <= at /\ at <= now
                 /\ alerts'[req[a].alert] = ApplyAlertStatus(alerts[req[a].alert], req[a],
                                                             req[a].target, at)
           /\ \A i \in DOMAIN alerts \ {req[a].alert} : alerts'[i] = alerts[i]
  <1>1. req[a] \in Loaded /\ req[a].alert \in DOMAIN alerts
    BY DEF WorkflowTypeOK, CommitStatus
  <1> DEFINE i == req[a].alert
  <1>2. alerts \in Seq(AlertRow) /\ alerts[i] \in AlertRow /\ now \in Time
    BY <1>1 DEF AlertTableTypeOK
  <1>a. PICK at \in req[a].begun..now :
              alerts' = [alerts EXCEPT ![i] = ApplyAlertStatus(@, req[a], req[a].target, at)]
    BY DEF CommitStatus
  <1>b. at \in Time /\ req[a].begun <= at /\ at <= now
    BY <1>1, <1>2, <1>a DEF Loaded, Time
  <1> DEFINE row == ApplyAlertStatus(alerts[i], req[a], req[a].target, at)
  <1>3. row \in AlertRow
    <2>1. /\ req[a].status \in ALERT_STATUSES /\ req[a].target \in ALERT_STATUSES
          /\ req[a].acked \in Stamp /\ req[a].closed \in Stamp
      BY <1>1 DEF Loaded
    <2>2. /\ AckedAfter(req[a], req[a].target, at) \in Stamp
          /\ ClosedAfter(req[a], req[a].target, at) \in Stamp
      BY <1>b, <2>1 DEF AckedAfter, ClosedAfter, Stamp
    <2> QED BY <1>2, <2>1, <2>2 DEF ApplyAlertStatus, AlertRow
  <1>4. alerts' = [alerts EXCEPT ![i] = row]
    BY <1>a
  <1>5. /\ alerts' \in Seq(AlertRow) /\ Len(alerts') = Len(alerts) /\ alerts'[i] = row
        /\ \A j \in DOMAIN alerts \ {i} : alerts'[j] = alerts[j]
    <2> HIDE DEF row
    <2> QED BY <1>1, <1>2, <1>3, <1>4
  <1> QED BY <1>1, <1>b, <1>5

-----------------------------------------------------------------------------
LEMMA NoMergesType == DOMAIN NoMerges = {}
  BY DEF NoMerges

(* A step of a pass keeps the table and the sessions well-typed.            *)
LEMMA RunStepsType ==
    ASSUME AlertTableTypeOK, RunTypeOK, NEW r \in Runners, RunNext(r), now' = now
    PROVE  AlertTableTypeOK' /\ RunTypeOK'
  <1>0. /\ alerts \in Seq(AlertRow) /\ now \in Time /\ Len(alerts) \in Nat
        /\ DOMAIN alerts = 1..Len(alerts)
        /\ Len(RuleFiles) \in Nat
    BY RuleFilesAssumption DEF AlertTableTypeOK
  <1> USE DEF RunTypeOK
  <1>1. CASE StartRun(r)
    BY <1>0, <1>1 DEF StartRun, AlertTableTypeOK
  <1>2. CASE NoHit(r)
    BY <1>0, <1>2 DEF NoHit, NextRule, Evaluating, AlertTableTypeOK
  <1>3. ASSUME NEW e \in Entities, HitNew(r, e) PROVE AlertTableTypeOK' /\ RunTypeOK'
    <2> DEFINE rule == RuleFiles[slot[r]]
               f == [rule |-> rule, entity |-> e, seen |-> Len(alerts),
                     truncated |-> Truncated(rule, now)]
    <2>1. rule \in Rules
      BY <1>0, <1>3, RuleFilesAssumption DEF HitNew, Evaluating
    <2>2. Truncated(rule, now) \in BOOLEAN
      BY DEF Truncated
    <2>3. f \in PendingAlert
      BY <1>0, <2>1, <2>2 DEF PendingAlert
    <2>4. fresh' = [fresh EXCEPT ![r] = Append(@, f)]
      BY <1>3 DEF HitNew
    <2>5. fresh' \in [Runners -> Seq(PendingAlert)]
      <3> HIDE DEF f
      <3> QED BY <2>3, <2>4
    <2>6. slot' \in [Runners -> 1..(Len(RuleFiles) + 1)]
      BY <1>0, <1>3 DEF HitNew, NextRule, Evaluating
    <2> QED BY <1>0, <1>3, <2>5, <2>6 DEF HitNew, NextRule, AlertTableTypeOK
  <1>4. ASSUME NEW e \in Entities, HitMerge(r, e) PROVE AlertTableTypeOK' /\ RunTypeOK'
    <2> DEFINE rule == RuleFiles[slot[r]]
    <2>1. PICK i \in Mergeable(rule, e, now) :
             dirty' = [dirty EXCEPT ![r] = MergeInto(@, i)]
      BY <1>4 DEF HitMerge
    <2>2. i \in DOMAIN alerts
      BY DEF Mergeable, Newest, LiveFor, Live
    <2>3. alerts[i].occurrences \in Nat
      <3>1. alerts[i] \in AlertRow
        BY <1>0, <2>2
      <3> QED BY <3>1 DEF AlertRow
    <2>4. /\ DOMAIN MergeInto(dirty[r], i) \subseteq DOMAIN alerts
          /\ \A j \in DOMAIN MergeInto(dirty[r], i) : MergeInto(dirty[r], i)[j] \in PendingMerge
      BY <2>2, <2>3 DEF MergeInto, PendingMerge
    <2>5. /\ dirty'[r] = MergeInto(dirty[r], i)
          /\ dirty' = [q \in Runners |-> dirty'[q]]
          /\ \A q \in Runners \ {r} : dirty'[q] = dirty[q]
      BY <2>1
    <2>6. slot' \in [Runners -> 1..(Len(RuleFiles) + 1)]
      BY <1>0, <1>4 DEF HitMerge, NextRule, Evaluating
    <2>7. \A q \in Runners : /\ DOMAIN dirty'[q] \subseteq DOMAIN alerts
                             /\ \A j \in DOMAIN dirty'[q] : dirty'[q][j] \in PendingMerge
      BY <2>4, <2>5
    <2> QED BY <1>0, <1>4, <2>5, <2>6, <2>7 DEF HitMerge, NextRule, AlertTableTypeOK
  <1>5. ASSUME CommitSession(r),
               pc' \in [Runners -> {"idle", "eval", "refresh"}],
               begun' \in [Runners -> Time],
               UNCHANGED <<slot, queue, posts, runs, fails, crashes>>
        PROVE  AlertTableTypeOK' /\ RunTypeOK'
    <2>1. /\ alerts' \in Seq(AlertRow)
          /\ Len(alerts') = Len(alerts) + Len(fresh[r])
          /\ DOMAIN alerts \subseteq DOMAIN alerts'
      BY <1>5, CommitSessionEffect
    <2>2. Len(fresh[r]) \in Nat /\ DOMAIN alerts' = 1..(Len(alerts) + Len(fresh[r]))
      BY <2>1
    <2>3. created' \in [Runners -> SUBSET DOMAIN alerts']
      BY <1>0, <1>5, <2>1, <2>2 DEF CommitSession
    <2>4. /\ fresh' \in [Runners -> Seq(PendingAlert)]
          /\ dirty' = [dirty EXCEPT ![r] = NoMerges]
      BY <1>5 DEF CommitSession
    <2>5. /\ dirty' = [q \in Runners |-> dirty'[q]]
          /\ \A q \in Runners : /\ DOMAIN dirty'[q] \subseteq DOMAIN alerts
                                /\ \A i \in DOMAIN dirty'[q] : dirty'[q][i] \in PendingMerge
      BY <2>4, NoMergesType
    <2> QED BY <1>0, <1>5, <2>1, <2>2, <2>3, <2>4, <2>5 DEF AlertTableTypeOK
  <1>6. CASE EnrichCommit(r)
    BY <1>0, <1>5, <1>6 DEF EnrichCommit
  <1>7. CASE CommitRun(r)
    BY <1>5, <1>7 DEF CommitRun
  <1>8. ASSUME NEW i \in created[r], Refresh(r, i) PROVE AlertTableTypeOK' /\ RunTypeOK'
    BY <1>0, <1>8 DEF Refresh, AlertTableTypeOK
  <1>9. ASSUME NEW i \in queue[r], Notify(r, i) PROVE AlertTableTypeOK' /\ RunTypeOK'
    <2>1. i \in DOMAIN alerts /\ i \in Nat
      BY <1>0
    <2>2. posts' \in Seq(Nat) /\ \A n \in DOMAIN posts' : posts'[n] \in DOMAIN alerts
      BY <1>9, <2>1 DEF Notify
    <2> QED BY <1>0, <1>9, <2>2 DEF Notify, AlertTableTypeOK
  <1>10. CASE EndRun(r)
    BY <1>0, <1>10 DEF EndRun, AlertTableTypeOK
  <1>11. ASSUME Discard(r), fails' \in Nat, crashes' \in Nat
         PROVE  AlertTableTypeOK' /\ RunTypeOK'
    <2>1. dirty' = [dirty EXCEPT ![r] = NoMerges]
      BY <1>11 DEF Discard
    <2>2. /\ dirty' = [q \in Runners |-> dirty'[q]]
          /\ \A q \in Runners : /\ DOMAIN dirty'[q] \subseteq DOMAIN alerts
                                /\ \A i \in DOMAIN dirty'[q] : dirty'[q][i] \in PendingMerge
      BY <2>1, NoMergesType
    <2>3. fresh' \in [Runners -> Seq(PendingAlert)]
      BY <1>11 DEF Discard
    <2>4. /\ created' \in [Runners -> SUBSET DOMAIN alerts]
          /\ queue' \in [Runners -> SUBSET DOMAIN alerts]
      BY <1>11 DEF Discard
    <2> QED BY <1>0, <1>11, <2>2, <2>3, <2>4 DEF Discard, AlertTableTypeOK
  <1>12. CASE Fail(r)
    <2>1. Discard(r) /\ fails' \in Nat /\ crashes' \in Nat
      BY <1>12 DEF Fail
    <2> QED BY <1>11, <2>1
  <1>13. CASE Crash(r)
    <2>1. Discard(r) /\ fails' \in Nat /\ crashes' \in Nat
      BY <1>13 DEF Crash
    <2> QED BY <1>11, <2>1
  <1> QED BY <1>1, <1>2, <1>3, <1>4, <1>6, <1>7, <1>8, <1>9, <1>10, <1>12, <1>13
          DEF RunNext, RunStep

(* A step of a pass either leaves the table alone or is a commit.          *)
LEMMA RunStepsTable ==
    ASSUME NEW r \in Runners, RunNext(r)
    PROVE  alerts' = alerts \/ CommitSession(r)
  BY DEF RunNext, RunStep, StartRun, NoHit, HitNew, HitMerge, NextRule, EnrichCommit,
         CommitRun, Refresh, Notify, EndRun, Fail, Crash, Discard

LEMMA RunStepsGrow ==
    ASSUME AlertTableTypeOK, RunTypeOK, NEW r \in Runners, RunNext(r)
    PROVE  DOMAIN alerts \subseteq DOMAIN alerts'
  BY RunStepsTable, CommitSessionEffect

(* So does a step of a request.                                            *)
LEMMA RequestStepsType ==
    ASSUME AlertTableTypeOK, WorkflowTypeOK, NEW a \in Analysts, WorkflowNext(a), now' = now
    PROVE  AlertTableTypeOK' /\ WorkflowTypeOK' /\ DOMAIN alerts' = DOMAIN alerts
  <1>0. /\ alerts \in Seq(AlertRow) /\ now \in Time /\ Len(alerts) \in Nat
        /\ DOMAIN alerts = 1..Len(alerts)
        /\ req \in [Analysts -> Loaded \cup {None}] /\ audit \in Seq(AuditRow)
        /\ patches \in Nat
        /\ \A b \in Analysts : req[b] # None => req[b].alert \in DOMAIN alerts
    BY DEF AlertTableTypeOK, WorkflowTypeOK
  <1>1. ASSUME NEW i \in DOMAIN alerts, NEW to \in Targets, LoadAlert(a, i, to)
        PROVE  AlertTableTypeOK' /\ WorkflowTypeOK' /\ DOMAIN alerts' = DOMAIN alerts
    <2> DEFINE read == [alert |-> i, status |-> alerts[i].status, acked |-> alerts[i].acked,
                        closed |-> alerts[i].closed, target |-> to, begun |-> now]
    <2>1. alerts[i] \in AlertRow /\ i \in Nat \ {0} /\ to \in ALERT_STATUSES
      BY <1>0, TargetsAssumption
    <2>2. /\ alerts[i].status \in ALERT_STATUSES
          /\ alerts[i].acked \in Stamp /\ alerts[i].closed \in Stamp
      BY <2>1 DEF AlertRow
    <2>3. read \in Loaded /\ read.alert = i
      BY <1>0, <2>1, <2>2 DEF Loaded
    <2>4. req' = [req EXCEPT ![a] = read] /\ patches' \in Nat /\ UNCHANGED <<alerts, audit>>
      BY <1>0, <1>1 DEF LoadAlert
    <2> HIDE DEF read
    <2> QED BY <1>0, <2>3, <2>4 DEF AlertTableTypeOK, WorkflowTypeOK
  <1>2. CASE CommitStatus(a)
    <2>1. /\ alerts' \in Seq(AlertRow) /\ Len(alerts') = Len(alerts)
          /\ req[a] \in Loaded /\ req[a].alert \in DOMAIN alerts
      BY <1>2, CommitStatusEffect
    <2>2. DOMAIN alerts' = DOMAIN alerts
      BY <1>0, <2>1
    <2>3. [alert |-> req[a].alert, from |-> req[a].status, to |-> req[a].target] \in AuditRow
      BY <2>1 DEF Loaded, AuditRow
    <2>4. audit' \in Seq(AuditRow)
      BY <1>0, <1>2, <2>3 DEF CommitStatus
    <2>5. req' = [req EXCEPT ![a] = None] /\ patches' = patches
      BY <1>2 DEF CommitStatus
    <2> HIDE DEF None
    <2> QED BY <1>0, <2>1, <2>2, <2>4, <2>5 DEF AlertTableTypeOK, WorkflowTypeOK
  <1>3. CASE DropRequest(a)
    BY <1>0, <1>3 DEF DropRequest, AlertTableTypeOK, WorkflowTypeOK
  <1> QED BY <1>1, <1>2, <1>3 DEF WorkflowNext

(* Types are what the comments on the variables say, in every reachable    *)
(* state.                                                                  *)
THEOREM TypeCorrect == Spec => []TypeOK
  <1>1. Init => TypeOK
    BY DEF Init, RunInit, WorkflowInit, TypeOK, AlertTableTypeOK, RunTypeOK, WorkflowTypeOK,
           NoMerges, Time
  <1>2. TypeOK /\ [Next]_vars => TypeOK'
    <2> SUFFICES ASSUME TypeOK, [Next]_vars PROVE TypeOK'
      OBVIOUS
    <2>0. AlertTableTypeOK /\ RunTypeOK /\ WorkflowTypeOK
      BY DEF TypeOK
    <2>1. ASSUME NEW r \in Runners, Detect(r) PROVE TypeOK'
      <3>1. RunNext(r) /\ now' = now /\ UNCHANGED workflowVars
        BY <2>1 DEF Detect
      <3>2. AlertTableTypeOK' /\ RunTypeOK'
        BY <2>0, <3>1, RunStepsType
      <3>3. DOMAIN alerts \subseteq DOMAIN alerts'
        BY <2>0, <3>1, RunStepsGrow
      <3>4. WorkflowTypeOK'
        BY <2>0, <3>1, <3>3 DEF WorkflowTypeOK, workflowVars
      <3> QED BY <3>2, <3>4 DEF TypeOK
    <2>2. ASSUME NEW a \in Analysts, Respond(a) PROVE TypeOK'
      <3>1. WorkflowNext(a) /\ now' = now /\ UNCHANGED runVars
        BY <2>2 DEF Respond
      <3>2. AlertTableTypeOK' /\ WorkflowTypeOK' /\ DOMAIN alerts' = DOMAIN alerts
        BY <2>0, <3>1, RequestStepsType
      <3>3. RunTypeOK'
        BY <2>0, <3>1, <3>2 DEF RunTypeOK, runVars
      <3> QED BY <3>2, <3>3 DEF TypeOK
    <2>3. CASE Tick
      BY <2>0, <2>3 DEF Tick, TypeOK, AlertTableTypeOK, RunTypeOK, WorkflowTypeOK,
                        runVars, workflowVars, Time
    <2>4. CASE UNCHANGED vars
      BY <2>0, <2>4 DEF vars, TypeOK, AlertTableTypeOK, RunTypeOK, WorkflowTypeOK,
                        runVars, workflowVars
    <2> QED BY <2>1, <2>2, <2>3, <2>4 DEF Next
  <1> QED BY <1>1, <1>2, PTL DEF Spec

-----------------------------------------------------------------------------
(* The query finds nothing to merge into: then, if it was not cut at its   *)
(* LIMIT, there is no open recent alert of the rule and entity.            *)
LEMMA NoMergeableMeansNone ==
    ASSUME alerts \in Seq(AlertRow), NEW r \in Rules, NEW e \in Entities, NEW t \in Time,
           NoMergeable(r, e, t), ~Truncated(r, t)
    PROVE  LiveFor(r, e, t) = {}
  <1> SUFFICES ASSUME NEW i \in LiveFor(r, e, t) PROVE FALSE
    OBVIOUS
  <1> DEFINE ahead == { j \in Live(r, t) \ LiveFor(r, e, t) :
                          alerts[j].created >= alerts[i].created }
  <1>1. IsFiniteSet(Live(r, t))
    <2>1. IsFiniteSet(1..Len(alerts))
      BY FS_Interval
    <2>2. Live(r, t) \in SUBSET (1..Len(alerts))
      BY DEF Live
    <2> QED BY <2>1, <2>2, FS_Subset
  <1>2. i \in Live(r, t) /\ ahead \in SUBSET (Live(r, t) \ {i})
    BY DEF LiveFor
  <1>3. /\ IsFiniteSet(Live(r, t) \ {i})
        /\ Cardinality(Live(r, t) \ {i}) = Cardinality(Live(r, t)) - 1
    BY <1>1, <1>2, FS_RemoveElement
  <1>4. Cardinality(ahead) <= Cardinality(Live(r, t)) - 1 /\ IsFiniteSet(ahead)
    BY <1>2, <1>3, FS_Subset
  <1>5. Cardinality(ahead) >= ScanLimit
    BY DEF NoMergeable
  <1>6. Cardinality(Live(r, t)) <= ScanLimit
    <2>1. Cardinality(Live(r, t)) \in Nat
      BY <1>1, FS_CardinalityType
    <2> QED BY <2>1, ScanLimitAssumption DEF Truncated
  <1>7. Cardinality(ahead) \in Nat /\ Cardinality(Live(r, t)) \in Nat
    BY <1>1, <1>4, FS_CardinalityType
  <1> QED BY <1>4, <1>5, <1>6, <1>7, ScanLimitAssumption

-----------------------------------------------------------------------------
(* The inductive invariant, one lemma for each of its parts and each       *)
(* writer of the table.                                                    *)

(* Workflow columns: commits of passes bring new open rows and change none *)
(* of the old ones.                                                        *)
LEMMA StampsAcrossCommit ==
    ASSUME TypeOK, IInv, NEW r \in Runners, RunNext(r), UNCHANGED <<now, workflowVars>>
    PROVE  StatusIsStamped' /\ ReadsAreOld'
  <1>0. AlertTableTypeOK /\ RunTypeOK /\ WorkflowTypeOK
    BY DEF TypeOK
  <1>1. CASE alerts' = alerts
    BY <1>1 DEF IInv, StatusIsStamped, ReadsAreOld, workflowVars
  <1>2. CASE CommitSession(r)
    <2>1. /\ \A i \in DOMAIN alerts :
                /\ i \in DOMAIN alerts'
                /\ alerts'[i].status = alerts[i].status
                /\ alerts'[i].acked = alerts[i].acked
                /\ alerts'[i].closed = alerts[i].closed
          /\ \A i \in DOMAIN alerts' \ DOMAIN alerts : alerts'[i].status = "open"
      BY <1>0, <1>2, CommitSessionEffect
    <2>2. StatusIsStamped'
      BY <2>1 DEF IInv, StatusIsStamped
    <2>3. ReadsAreOld'
      BY <1>0, <2>1 DEF IInv, ReadsAreOld, WorkflowTypeOK, workflowVars
    <2> QED BY <2>2, <2>3
  <1> QED BY <1>1, <1>2, RunStepsTable

(* The columns a request writes, from what it read: stamps are only added. *)
LEMMA StampsWritten ==
    ASSUME NEW row \in AlertRow, NEW read \in Loaded, NEW t \in Time,
           row.status # "open" => row.acked # Null,
           row.status = "closed" => row.closed # Null,
           read.status # "open" => read.acked # Null,
           read.status = "closed" => read.closed # Null,
           read.acked # Null => row.acked # Null,
           read.closed # Null => row.closed # Null
    PROVE  LET new == ApplyAlertStatus(row, read, read.target, t)
           IN  /\ new.status # "open" => new.acked # Null
               /\ new.status = "closed" => new.closed # Null
               /\ row.acked # Null => new.acked # Null
               /\ row.closed # Null => new.closed # Null
               /\ new.rule = row.rule /\ new.entity = row.entity /\ new.created = row.created
  <1> DEFINE new == ApplyAlertStatus(row, read, read.target, t)
  <1>1. t # Null
    BY DEF Time, Null
  <1>2. /\ new.status = IF read.target = read.status THEN row.status ELSE read.target
        /\ new.acked = IF AckedAfter(read, read.target, t) = read.acked THEN row.acked
                       ELSE AckedAfter(read, read.target, t)
        /\ new.closed = IF ClosedAfter(read, read.target, t) = read.closed THEN row.closed
                        ELSE ClosedAfter(read, read.target, t)
        /\ new.rule = row.rule /\ new.entity = row.entity /\ new.created = row.created
    BY DEF ApplyAlertStatus, AlertRow
  <1> HIDE DEF new
  <1>3. /\ row.acked # Null => new.acked # Null
        /\ row.closed # Null => new.closed # Null
    BY <1>1, <1>2 DEF AckedAfter, ClosedAfter
  <1>4. new.status # "open" => new.acked # Null
    BY <1>1, <1>2 DEF AckedAfter
  <1>5. new.status = "closed" => new.closed # Null
    BY <1>1, <1>2 DEF ClosedAfter
  <1> QED BY <1>2, <1>3, <1>4, <1>5 DEF new

LEMMA StampsAcrossRequest ==
    ASSUME TypeOK, IInv, NEW a \in Analysts, WorkflowNext(a), UNCHANGED now
    PROVE  /\ StatusIsStamped' /\ ReadsAreOld'
           /\ \A i \in DOMAIN alerts :
                 /\ alerts[i].acked # Null => alerts'[i].acked # Null
                 /\ alerts[i].closed # Null => alerts'[i].closed # Null
                 /\ alerts'[i].rule = alerts[i].rule /\ alerts'[i].entity = alerts[i].entity
                 /\ alerts'[i].created = alerts[i].created
  <1>0. /\ AlertTableTypeOK /\ WorkflowTypeOK
        /\ alerts \in Seq(AlertRow) /\ now \in Time
        /\ req \in [Analysts -> Loaded \cup {None}]
    BY DEF TypeOK, AlertTableTypeOK, WorkflowTypeOK
  <1>1. ASSUME NEW i \in DOMAIN alerts, NEW to \in Targets, LoadAlert(a, i, to)
        PROVE  StatusIsStamped' /\ ReadsAreOld' /\ alerts' = alerts
    <2>1. alerts' = alerts /\ StatusIsStamped'
      BY <1>1 DEF LoadAlert, IInv, StatusIsStamped
    <2>2. \A b \in Analysts \ {a} : req'[b] = req[b]
      BY <1>0, <1>1 DEF LoadAlert
    <2>3. /\ req'[a].alert = i /\ req'[a].status = alerts[i].status
          /\ req'[a].acked = alerts[i].acked /\ req'[a].closed = alerts[i].closed
      BY <1>0, <1>1 DEF LoadAlert
    <2>4. /\ alerts[i].status # "open" => alerts[i].acked # Null
          /\ alerts[i].status = "closed" => alerts[i].closed # Null
      BY DEF IInv, StatusIsStamped
    <2>5. ReadsAreOld'
      BY <2>1, <2>2, <2>3, <2>4 DEF IInv, ReadsAreOld
    <2> QED BY <2>1, <2>5
  <1>2. CASE CommitStatus(a)
    <2> DEFINE i == req[a].alert
    <2>a. PICK at \in Time : alerts'[i] = ApplyAlertStatus(alerts[i], req[a], req[a].target, at)
      BY <1>0, <1>2, CommitStatusEffect
    <2> DEFINE new == ApplyAlertStatus(alerts[i], req[a], req[a].target, at)
    <2>1. /\ Len(alerts') = Len(alerts) /\ alerts' \in Seq(AlertRow)
          /\ req[a] \in Loaded /\ i \in DOMAIN alerts
          /\ alerts'[i] = new
          /\ \A j \in DOMAIN alerts \ {i} : alerts'[j] = alerts[j]
      BY <1>0, <1>2, <2>a, CommitStatusEffect
    <2>2. DOMAIN alerts' = DOMAIN alerts /\ alerts[i] \in AlertRow
      BY <1>0, <2>1
    <2>3. req[a] # None
      BY <1>2 DEF CommitStatus
    <2>4. /\ alerts[i].status # "open" => alerts[i].acked # Null
          /\ alerts[i].status = "closed" => alerts[i].closed # Null
          /\ req[a].status # "open" => req[a].acked # Null
          /\ req[a].status = "closed" => req[a].closed # Null
          /\ req[a].acked # Null => alerts[i].acked # Null
          /\ req[a].closed # Null => alerts[i].closed # Null
      BY <2>1, <2>3 DEF IInv, StatusIsStamped, ReadsAreOld
    <2>5. /\ new.status # "open" => new.acked # Null
          /\ new.status = "closed" => new.closed # Null
          /\ alerts[i].acked # Null => new.acked # Null
          /\ alerts[i].closed # Null => new.closed # Null
          /\ new.rule = alerts[i].rule /\ new.entity = alerts[i].entity
          /\ new.created = alerts[i].created
      BY <1>0, <2>1, <2>2, <2>4, StampsWritten
    <2>6. \A b \in Analysts : req'[b] # None => req'[b] = req[b]
      BY <1>0, <1>2 DEF CommitStatus
    <2> HIDE DEF new
    <2>7. StatusIsStamped'
      BY <2>1, <2>2, <2>5 DEF IInv, StatusIsStamped
    <2>8. \A j \in DOMAIN alerts :
             /\ alerts[j].acked # Null => alerts'[j].acked # Null
             /\ alerts[j].closed # Null => alerts'[j].closed # Null
             /\ alerts'[j].rule = alerts[j].rule /\ alerts'[j].entity = alerts[j].entity
             /\ alerts'[j].created = alerts[j].created
      BY <2>1, <2>5
    <2>9. ReadsAreOld'
      BY <1>0, <2>6, <2>8 DEF IInv, ReadsAreOld, WorkflowTypeOK
    <2> QED BY <2>7, <2>8, <2>9
  <1>3. CASE DropRequest(a)
    BY <1>0, <1>3 DEF DropRequest, IInv, StatusIsStamped, ReadsAreOld
  <1>4. alerts' = alerts =>
          \A i \in DOMAIN alerts :
             /\ alerts[i].acked # Null => alerts'[i].acked # Null
             /\ alerts[i].closed # Null => alerts'[i].closed # Null
             /\ alerts'[i].rule = alerts[i].rule /\ alerts'[i].entity = alerts[i].entity
             /\ alerts'[i].created = alerts[i].created
    OBVIOUS
  <1>5. DropRequest(a) => alerts' = alerts
    BY DEF DropRequest
  <1> QED BY <1>1, <1>2, <1>3, <1>4, <1>5 DEF WorkflowNext

-----------------------------------------------------------------------------
(* Pending alerts: a repeat among the committed rows stays none, because   *)
(* stamps stay, keys and creation times are fixed and the clock advances.  *)
LEMMA NewsStaysNews ==
    ASSUME TypeOK, PendingIsNews, SeenIsCommitted,
           fresh' \in [Runners -> Seq(PendingAlert)],
           \A r \in Runners : fresh'[r] = fresh[r] \/ fresh'[r] = <<>>,
           now' \in Time, now <= now',
           Len(alerts) <= Len(alerts'), Len(alerts') \in Nat,
           \A i \in DOMAIN alerts :
              /\ alerts[i].closed # Null => alerts'[i].closed # Null
              /\ alerts'[i].rule = alerts[i].rule /\ alerts'[i].entity = alerts[i].entity
              /\ alerts'[i].created = alerts[i].created
    PROVE  PendingIsNews' /\ SeenIsCommitted'
  <1>0. /\ alerts \in Seq(AlertRow) /\ now \in Time /\ fresh \in [Runners -> Seq(PendingAlert)]
        /\ Len(alerts) \in Nat /\ DOMAIN alerts = 1..Len(alerts)
    BY DEF TypeOK, AlertTableTypeOK, RunTypeOK
  <1> SUFFICES ASSUME NEW r \in Runners, NEW k \in DOMAIN fresh'[r]
               PROVE  /\ fresh'[r][k].seen <= Len(alerts')
                      /\ \/ fresh'[r][k].truncated
                         \/ \A i \in 1..fresh'[r][k].seen : ~IsRepeat(i, fresh[r][k], now)'
    BY DEF PendingIsNews, SeenIsCommitted, IsRepeat
  <1> DEFINE f == fresh[r][k]
  <1>1. fresh'[r] = fresh[r] /\ k \in DOMAIN fresh[r]
    OBVIOUS
  <1>2. f \in PendingAlert
    BY <1>0, <1>1
  <1>3. f.rule \in Rules /\ f.seen \in Nat
    BY <1>2 DEF PendingAlert
  <1>4. f.seen <= Len(alerts)
    BY <1>1 DEF SeenIsCommitted
  <1>5. Cooldown[f.rule] \in Nat
    BY <1>3, CooldownAssumption
  <1>6. ASSUME NEW i \in 1..f.seen, ~IsRepeat(i, f, now) PROVE ~IsRepeat(i, f, now)'
    <2>1. i \in DOMAIN alerts /\ alerts[i] \in AlertRow
      BY <1>0, <1>3, <1>4
    <2>2. alerts[i].created \in Nat
      BY <2>1 DEF AlertRow, Time
    <2>3. now \in Nat /\ now' \in Nat
      BY <1>0 DEF Time
    <2>4. CASE alerts[i].created < now - Cooldown[f.rule]
      <3>1. ~(alerts[i].created >= now' - Cooldown[f.rule])
        BY <1>5, <2>2, <2>3, <2>4
      <3> QED BY <1>1, <2>1, <3>1 DEF IsRepeat
    <2>5. CASE ~(alerts[i].created < now - Cooldown[f.rule])
      <3>1. alerts[i].created >= now - Cooldown[f.rule]
        BY <1>5, <2>2, <2>3, <2>5
      <3> QED BY <1>1, <1>6, <2>1, <3>1 DEF IsRepeat
    <2> QED BY <2>4, <2>5
  <1>7. \/ f.truncated
        \/ \A i \in 1..f.seen : ~IsRepeat(i, f, now)
    BY <1>1 DEF PendingIsNews
  <1> QED BY <1>0, <1>1, <1>3, <1>4, <1>6, <1>7

(* An alert enters a session only when the query found nothing to merge    *)
(* into among the rows committed by then.                                  *)
LEMMA HitIsNews ==
    ASSUME TypeOK, IInv, NEW r \in Runners, NEW e \in Entities, HitNew(r, e), now' = now
    PROVE  PendingIsNews' /\ SeenIsCommitted'
  <1>0. /\ alerts \in Seq(AlertRow) /\ now \in Time /\ fresh \in [Runners -> Seq(PendingAlert)]
        /\ Len(alerts) \in Nat /\ DOMAIN alerts = 1..Len(alerts)
        /\ slot \in [Runners -> 1..(Len(RuleFiles) + 1)]
    BY DEF TypeOK, AlertTableTypeOK, RunTypeOK
  <1> DEFINE rule == RuleFiles[slot[r]]
             f == [rule |-> rule, entity |-> e, seen |-> Len(alerts),
                   truncated |-> Truncated(rule, now)]
  <1>1. rule \in Rules
    BY <1>0, RuleFilesAssumption DEF HitNew, Evaluating
  <1>2. /\ alerts' = alerts /\ NoMergeable(rule, e, now)
        /\ fresh' = [fresh EXCEPT ![r] = Append(@, f)]
    BY DEF HitNew, NextRule
  <1>3. ASSUME ~Truncated(rule, now), NEW i \in 1..Len(alerts)
        PROVE  ~IsRepeat(i, f, now)
    <2>1. LiveFor(rule, e, now) = {}
      BY <1>0, <1>1, <1>2, <1>3, NoMergeableMeansNone
    <2>2. alerts[i].closed = Null => alerts[i].status # "closed"
      BY <1>0 DEF IInv, StatusIsStamped
    <2> QED BY <1>0, <2>1, <2>2 DEF IsRepeat, LiveFor, Live
  <1>4. f.seen = Len(alerts) /\ f.truncated = Truncated(rule, now)
    OBVIOUS
  <1>5. f.truncated \/ \A i \in 1..f.seen : ~IsRepeat(i, f, now)
    BY <1>3, <1>4
  <1> HIDE DEF f
  <1>6. ASSUME NEW q \in Runners, NEW k \in DOMAIN fresh'[q]
        PROVE  fresh'[q][k] = f \/ (k \in DOMAIN fresh[q] /\ fresh'[q][k] = fresh[q][k])
    BY <1>0, <1>2
  <1>7. ASSUME NEW q \in Runners, NEW k \in DOMAIN fresh'[q]
        PROVE  /\ fresh'[q][k].seen <= Len(alerts)
               /\ \/ fresh'[q][k].truncated
                  \/ \A i \in 1..fresh'[q][k].seen : ~IsRepeat(i, fresh'[q][k], now)
    <2>1. CASE fresh'[q][k] = f
      BY <1>0, <1>4, <1>5, <2>1
    <2>2. CASE k \in DOMAIN fresh[q] /\ fresh'[q][k] = fresh[q][k]
      BY <2>2 DEF IInv, PendingIsNews, SeenIsCommitted
    <2> QED BY <1>6, <2>1, <2>2
  <1> QED BY <1>2, <1>7 DEF PendingIsNews, SeenIsCommitted, IsRepeat

LEMMA NewsAcrossRun ==
    ASSUME TypeOK, TypeOK', IInv, NEW r \in Runners, RunNext(r), now' = now
    PROVE  PendingIsNews' /\ SeenIsCommitted'
  <1>0. /\ AlertTableTypeOK /\ RunTypeOK /\ fresh' \in [Runners -> Seq(PendingAlert)]
        /\ fresh \in [Runners -> Seq(PendingAlert)] /\ now \in Time /\ now' \in Time
        /\ PendingIsNews /\ SeenIsCommitted
        /\ alerts \in Seq(AlertRow) /\ alerts' \in Seq(AlertRow)
    BY DEF TypeOK, AlertTableTypeOK, RunTypeOK, IInv
  <1>1. CASE \E e \in Entities : HitNew(r, e)
    BY <1>1, HitIsNews
  <1>2. CASE ~ \E e \in Entities : HitNew(r, e)
    <2>1. \A q \in Runners : fresh'[q] = fresh[q] \/ fresh'[q] = <<>>
      BY <1>0, <1>2 DEF RunNext, RunStep, StartRun, NoHit, HitMerge, NextRule, EnrichCommit,
             CommitRun, CommitSession, Refresh, Notify, EndRun, Fail, Crash, Discard
    <2>2. /\ Len(alerts) <= Len(alerts')
          /\ \A i \in DOMAIN alerts :
                /\ alerts[i].closed # Null => alerts'[i].closed # Null
                /\ alerts'[i].rule = alerts[i].rule /\ alerts'[i].entity = alerts[i].entity
                /\ alerts'[i].created = alerts[i].created
      <3>1. CASE alerts' = alerts
        BY <1>0, <3>1
      <3>2. CASE CommitSession(r)
        <4>1. Len(alerts') = Len(alerts) + Len(fresh[r]) /\ Len(fresh[r]) \in Nat
          BY <1>0, <3>2, CommitSessionEffect
        <4> QED BY <1>0, <3>2, <4>1, CommitSessionEffect
      <3> QED BY <3>1, <3>2, RunStepsTable
    <2>3. now <= now' /\ Len(alerts') \in Nat
      BY <1>0 DEF Time
    <2> QED BY <1>0, <2>1, <2>2, <2>3, NewsStaysNews
  <1> QED BY <1>1, <1>2

-----------------------------------------------------------------------------
(* Announcements: a commit hands out ids no pass has and no webhook call   *)
(* has used, and an id leaves its owner when it is posted.                 *)
LEMMA AnnouncementsAcrossCommit ==
    ASSUME TypeOK, IInv, NEW r \in Runners, CommitSession(r), UNCHANGED <<queue, posts>>
    PROVE  NotifiedOnce' /\ AnnouncementsAreOwned'
  <1>0. /\ alerts \in Seq(AlertRow) /\ fresh[r] \in Seq(PendingAlert)
        /\ DOMAIN alerts = 1..Len(alerts)
        /\ created \in [Runners -> SUBSET DOMAIN alerts]
        /\ queue \in [Runners -> SUBSET DOMAIN alerts]
        /\ \A n \in DOMAIN posts : posts[n] \in DOMAIN alerts
    BY DEF TypeOK, AlertTableTypeOK, RunTypeOK
  <1> DEFINE new == (Len(alerts) + 1)..(Len(alerts) + Len(fresh[r]))
  <1>1. new \cap DOMAIN alerts = {}
    BY <1>0
  <1>2. /\ created'[r] = created[r] \cup new
        /\ \A q \in Runners \ {r} : created'[q] = created[q]
    BY <1>0 DEF CommitSession
  <1> HIDE DEF new
  <1>3. \A q \in Runners : ToAnnounce(q) \subseteq DOMAIN alerts
    BY <1>0 DEF ToAnnounce
  <1>4. /\ ToAnnounce(r)' = ToAnnounce(r) \cup new
        /\ \A q \in Runners \ {r} : ToAnnounce(q)' = ToAnnounce(q)
    BY <1>2 DEF ToAnnounce
  <1>5. AnnouncementsAreOwned
    BY DEF IInv
  <1>6. AnnouncementsAreOwned'
    <2>1. \A q \in Runners : created'[q] \cap queue'[q] = {}
      BY <1>0, <1>1, <1>2, <1>5 DEF AnnouncementsAreOwned
    <2>2. \A q \in Runners : \A n \in DOMAIN posts' : posts'[n] \notin ToAnnounce(q)'
      BY <1>0, <1>1, <1>4, <1>5 DEF AnnouncementsAreOwned
    <2>3. \A p \in Runners : \A q \in Runners \ {p} : ToAnnounce(p)' \cap ToAnnounce(q)' = {}
      BY <1>1, <1>3, <1>4, <1>5 DEF AnnouncementsAreOwned
    <2> QED BY <2>1, <2>2, <2>3 DEF AnnouncementsAreOwned
  <1> QED BY <1>6 DEF IInv, NotifiedOnce

LEMMA AnnouncementsAcrossRun ==
    ASSUME TypeOK, IInv, NEW r \in Runners, RunNext(r)
    PROVE  NotifiedOnce' /\ AnnouncementsAreOwned'
  <1>0. /\ alerts \in Seq(AlertRow) /\ DOMAIN alerts = 1..Len(alerts)
        /\ created \in [Runners -> SUBSET DOMAIN alerts]
        /\ queue \in [Runners -> SUBSET DOMAIN alerts]
        /\ posts \in Seq(Nat) /\ \A n \in DOMAIN posts : posts[n] \in DOMAIN alerts
    BY DEF TypeOK, AlertTableTypeOK, RunTypeOK
  <1>1. NotifiedOnce /\ AnnouncementsAreOwned
    BY DEF IInv
  <1>2. CASE EnrichCommit(r) \/ CommitRun(r)
    BY <1>2, AnnouncementsAcrossCommit DEF EnrichCommit, CommitRun
  <1>3. ASSUME NEW i \in created[r], Refresh(r, i)
        PROVE  NotifiedOnce' /\ AnnouncementsAreOwned'
    <2>1. /\ created'[r] = created[r] \ {i} /\ queue'[r] \subseteq queue[r] \cup {i}
          /\ \A q \in Runners \ {r} : created'[q] = created[q] /\ queue'[q] = queue[q]
          /\ posts' = posts
      BY <1>0, <1>3 DEF Refresh
    <2>2. \A q \in Runners : ToAnnounce(q)' \subseteq ToAnnounce(q)
      BY <2>1 DEF ToAnnounce
    <2>3. \A q \in Runners : created'[q] \cap queue'[q] = {}
      BY <1>1, <2>1 DEF AnnouncementsAreOwned
    <2> QED BY <1>1, <2>1, <2>2, <2>3 DEF NotifiedOnce, AnnouncementsAreOwned
  <1>4. ASSUME NEW i \in queue[r], Notify(r, i)
        PROVE  NotifiedOnce' /\ AnnouncementsAreOwned'
    <2>1. /\ created' = created /\ queue'[r] = queue[r] \ {i}
          /\ \A q \in Runners \ {r} : queue'[q] = queue[q]
          /\ posts' = posts \/ posts' = Append(posts, i)
      BY <1>0, <1>4 DEF Notify
    <2>2. /\ \A q \in Runners : ToAnnounce(q)' \subseteq ToAnnounce(q)
          /\ \A q \in Runners : i \notin ToAnnounce(q)'
          /\ \A n \in DOMAIN posts : posts[n] # i
      BY <1>1, <2>1 DEF ToAnnounce, AnnouncementsAreOwned
    <2>3. i \in Nat
      BY <1>0
    <2>4. \A n \in DOMAIN posts' :
             posts'[n] = i \/ (n \in DOMAIN posts /\ posts'[n] = posts[n])
      <3>1. CASE posts' = posts
        BY <3>1
      <3>2. CASE posts' = Append(posts, i)
        BY <1>0, <2>3, <3>2
      <3> QED BY <2>1, <3>1, <3>2
    <2>5. NotifiedOnce'
      <3>1. CASE posts' = posts
        BY <1>1, <3>1 DEF NotifiedOnce
      <3>2. CASE posts' = Append(posts, i)
        <4>1. DOMAIN posts' = 1..(Len(posts) + 1) /\ DOMAIN posts = 1..Len(posts)
          BY <1>0, <2>3, <3>2
        <4>2. /\ posts'[Len(posts) + 1] = i
              /\ \A n \in DOMAIN posts : posts'[n] = posts[n]
          BY <1>0, <2>3, <3>2
        <4> QED BY <1>0, <1>1, <2>2, <4>1, <4>2 DEF NotifiedOnce
      <3> QED BY <2>1, <3>1, <3>2
    <2>6. \A q \in Runners : created'[q] \cap queue'[q] = {}
      BY <1>1, <2>1 DEF AnnouncementsAreOwned
    <2>7. \A q \in Runners : \A n \in DOMAIN posts' : posts'[n] \notin ToAnnounce(q)'
      BY <1>1, <2>2, <2>4 DEF AnnouncementsAreOwned
    <2> QED BY <1>1, <2>2, <2>5, <2>6, <2>7 DEF AnnouncementsAreOwned
  <1>5. ASSUME Discard(r) PROVE NotifiedOnce' /\ AnnouncementsAreOwned'
    <2>1. /\ created'[r] = {} /\ queue'[r] = {} /\ posts' = posts
          /\ \A q \in Runners \ {r} : created'[q] = created[q] /\ queue'[q] = queue[q]
      BY <1>0, <1>5 DEF Discard
    <2>2. \A q \in Runners : ToAnnounce(q)' \subseteq ToAnnounce(q)
      BY <2>1 DEF ToAnnounce
    <2> QED BY <1>1, <2>1, <2>2 DEF NotifiedOnce, AnnouncementsAreOwned
  <1>6. CASE UNCHANGED <<created, queue, posts>>
    BY <1>1, <1>6 DEF NotifiedOnce, AnnouncementsAreOwned, ToAnnounce
  <1> QED BY <1>2, <1>3, <1>4, <1>5, <1>6 DEF RunNext, RunStep, StartRun, NoHit, HitNew,
             HitMerge, NextRule, EndRun, Fail, Crash

-----------------------------------------------------------------------------
LEMMA IInvInit == Init => IInv
  BY DEF Init, RunInit, WorkflowInit, IInv, StatusIsStamped, ReadsAreOld, PendingIsNews,
         SeenIsCommitted, NotifiedOnce, AnnouncementsAreOwned, ToAnnounce

LEMMA IInvStep == TypeOK /\ TypeOK' /\ IInv /\ [Next]_vars => IInv'
  <1> SUFFICES ASSUME TypeOK, TypeOK', IInv, [Next]_vars PROVE IInv'
    OBVIOUS
  <1>0. /\ alerts \in Seq(AlertRow) /\ alerts' \in Seq(AlertRow)
        /\ now \in Time /\ now' \in Time
        /\ fresh \in [Runners -> Seq(PendingAlert)] /\ fresh' \in [Runners -> Seq(PendingAlert)]
    BY DEF TypeOK, AlertTableTypeOK, RunTypeOK
  <1>1. ASSUME NEW r \in Runners, Detect(r) PROVE IInv'
    <2>1. RunNext(r) /\ UNCHANGED <<now, workflowVars>>
      BY <1>1 DEF Detect
    <2> QED BY <2>1, StampsAcrossCommit, NewsAcrossRun, AnnouncementsAcrossRun DEF IInv
  <1>2. ASSUME NEW a \in Analysts, Respond(a) PROVE IInv'
    <2>1. WorkflowNext(a) /\ now' = now /\ UNCHANGED runVars
      BY <1>2 DEF Respond
    <2>2. /\ StatusIsStamped' /\ ReadsAreOld'
          /\ \A i \in DOMAIN alerts :
                /\ alerts[i].closed # Null => alerts'[i].closed # Null
                /\ alerts'[i].rule = alerts[i].rule /\ alerts'[i].entity = alerts[i].entity
                /\ alerts'[i].created = alerts[i].created
      BY <2>1, StampsAcrossRequest
    <2>3. DOMAIN alerts' = DOMAIN alerts
      BY <2>1, RequestStepsType DEF TypeOK
    <2>4. PendingIsNews' /\ SeenIsCommitted'
      <3>1. Len(alerts') = Len(alerts) /\ Len(alerts) \in Nat
        BY <1>0, <2>3
      <3>2. now <= now' /\ fresh' = fresh
        BY <1>0, <2>1 DEF Time, runVars
      <3>3. PendingIsNews /\ SeenIsCommitted
        BY DEF IInv
      <3> QED BY <1>0, <2>2, <3>1, <3>2, <3>3, NewsStaysNews
    <2>5. NotifiedOnce' /\ AnnouncementsAreOwned'
      BY <2>1 DEF runVars, IInv, NotifiedOnce, AnnouncementsAreOwned, ToAnnounce
    <2> QED BY <2>2, <2>4, <2>5 DEF IInv
  <1>3. CASE Tick
    <2>1. UNCHANGED <<alerts, runVars, workflowVars>> /\ now <= now'
      BY <1>0, <1>3 DEF Tick, Time
    <2>2. PendingIsNews' /\ SeenIsCommitted'
      <3>1. fresh' = fresh /\ alerts' = alerts /\ Len(alerts') \in Nat
        BY <1>0, <2>1 DEF runVars
      <3>2. PendingIsNews /\ SeenIsCommitted /\ Len(alerts) <= Len(alerts')
        BY <1>0, <3>1 DEF IInv
      <3> QED BY <1>0, <2>1, <3>1, <3>2, NewsStaysNews
    <2> QED BY <2>1, <2>2 DEF IInv, StatusIsStamped, ReadsAreOld, NotifiedOnce,
                AnnouncementsAreOwned, ToAnnounce, runVars, workflowVars
  <1>4. CASE UNCHANGED vars
    BY <1>4 DEF vars, IInv, StatusIsStamped, ReadsAreOld, PendingIsNews, IsRepeat,
                SeenIsCommitted, NotifiedOnce, AnnouncementsAreOwned, ToAnnounce, runVars,
                workflowVars
  <1> QED BY <1>1, <1>2, <1>3, <1>4 DEF Next

(* Stamps, readings, pending alerts and announcements keep each other      *)
(* right, whatever passes and requests interleave.                         *)
THEOREM InvariantHolds == Spec => [](TypeOK /\ IInv)
  <1>1. TypeOK /\ IInv /\ TypeOK' /\ [Next]_vars => IInv'
    BY IInvStep
  <1> QED BY <1>1, IInvInit, TypeCorrect, PTL DEF Spec

(* However requests race, an alert that is not open has its acked_at, and  *)
(* a closed one its closed_at.                                             *)
THEOREM StampedAlways == Spec => []StatusIsStamped
  <1>1. IInv => StatusIsStamped
    BY DEF IInv
  <1> QED BY <1>1, InvariantHolds, PTL

(* However passes overlap, a pass inserts an alert only if no committed    *)
(* one should have absorbed the detection.                                 *)
THEOREM InsertedIsNews == Spec => []PendingIsNews
  <1>1. IInv => PendingIsNews
    BY DEF IInv
  <1> QED BY <1>1, InvariantHolds, PTL

(* However passes overlap, fail or crash, no alert is announced twice.     *)
THEOREM AnnouncedOnce == Spec => []NotifiedOnce
  <1>1. IInv => NotifiedOnce
    BY DEF IInv
  <1> QED BY <1>1, InvariantHolds, PTL

-----------------------------------------------------------------------------
(* No commit, of a pass or of a request that read an older row, clears a   *)
(* workflow timestamp.                                                     *)
THEOREM StampsAreKept == Spec => StampsStay
  <1> DEFINE Kept == \A i \in DOMAIN alerts :
                        /\ alerts[i].acked # Null => alerts'[i].acked # Null
                        /\ alerts[i].closed # Null => alerts'[i].closed # Null
  <1>1. TypeOK /\ IInv /\ [Next]_vars => [Kept]_vars
    <2> SUFFICES ASSUME TypeOK, IInv, Next PROVE Kept
      OBVIOUS
    <2>1. alerts' = alerts => Kept
      OBVIOUS
    <2>2. ASSUME NEW r \in Runners, Detect(r) PROVE Kept
      <3>1. RunNext(r) /\ AlertTableTypeOK /\ RunTypeOK
        BY <2>2 DEF Detect, TypeOK
      <3>2. CommitSession(r) => Kept
        BY <3>1, CommitSessionEffect
      <3> QED BY <2>1, <3>1, <3>2, RunStepsTable
    <2>3. ASSUME NEW a \in Analysts, Respond(a) PROVE Kept
      <3>1. WorkflowNext(a) /\ UNCHANGED now
        BY <2>3 DEF Respond
      <3> QED BY <3>1, StampsAcrossRequest
    <2>4. Tick => alerts' = alerts
      BY DEF Tick
    <2> QED BY <2>1, <2>2, <2>3, <2>4 DEF Next
  <1> QED BY <1>1, InvariantHolds, PTL DEF Spec, StampsStay

(* A merge never undoes an analyst's request, committed before or after.   *)
THEOREM MergesKeepWorkflow == Spec => MergeKeepsWorkflow
  <1> DEFINE Kept == workflowVars' = workflowVars =>
                        \A i \in DOMAIN alerts :
                           /\ alerts'[i].status = alerts[i].status
                           /\ alerts'[i].acked = alerts[i].acked
                           /\ alerts'[i].closed = alerts[i].closed
  <1>1. TypeOK /\ IInv /\ [Next]_vars => [Kept]_vars
    <2> SUFFICES ASSUME TypeOK, IInv, Next PROVE Kept
      OBVIOUS
    <2>1. alerts' = alerts => Kept
      OBVIOUS
    <2>2. ASSUME NEW r \in Runners, Detect(r) PROVE Kept
      <3>1. RunNext(r) /\ AlertTableTypeOK /\ RunTypeOK
        BY <2>2 DEF Detect, TypeOK
      <3>2. CommitSession(r) => Kept
        BY <3>1, CommitSessionEffect
      <3> QED BY <2>1, <3>1, <3>2, RunStepsTable
    <2>3. ASSUME NEW a \in Analysts, Respond(a) PROVE Kept
      <3>1. CommitStatus(a) => req' # req
        BY DEF CommitStatus, TypeOK, WorkflowTypeOK
      <3>2. CommitStatus(a) \/ alerts' = alerts
        BY <2>3 DEF Respond, WorkflowNext, LoadAlert, DropRequest
      <3> QED BY <2>1, <3>1, <3>2 DEF workflowVars
    <2>4. Tick => alerts' = alerts
      BY DEF Tick
    <2> QED BY <2>1, <2>2, <2>3, <2>4 DEF Next
  <1> QED BY <1>1, InvariantHolds, PTL DEF Spec, MergeKeepsWorkflow

-----------------------------------------------------------------------------
(* A status is only ever written together with its audit row.              *)
LEMMA AuditedAcrossRun ==
    ASSUME TypeOK, StatusIsAudited, NEW r \in Runners, Detect(r)
    PROVE  StatusIsAudited'
  <1>1. /\ audit' = audit /\ RunNext(r)
    BY DEF Detect, workflowVars
  <1>2. CASE alerts' = alerts
    BY <1>1, <1>2 DEF StatusIsAudited
  <1>3. CASE CommitSession(r)
    <2>1. /\ \A i \in DOMAIN alerts : alerts'[i].status = alerts[i].status
          /\ \A i \in DOMAIN alerts' \ DOMAIN alerts : alerts'[i].status = "open"
      BY <1>3, CommitSessionEffect DEF TypeOK
    <2> QED BY <1>1, <2>1 DEF StatusIsAudited
  <1> QED BY <1>1, <1>2, <1>3, RunStepsTable

LEMMA AuditedAcrossRequest ==
    ASSUME TypeOK, StatusIsAudited, NEW a \in Analysts, Respond(a)
    PROVE  StatusIsAudited'
  <1>1. ASSUME UNCHANGED <<alerts, audit>> PROVE StatusIsAudited'
    BY <1>1 DEF StatusIsAudited
  <1>2. CASE CommitStatus(a)
    <2> DEFINE read == req[a]
    <2>1. /\ read \in Loaded /\ read.alert \in DOMAIN alerts
          /\ DOMAIN alerts' = DOMAIN alerts /\ alerts[read.alert] \in AlertRow
          /\ \E at \in Time : alerts'[read.alert] =
                                  ApplyAlertStatus(alerts[read.alert], read, read.target, at)
          /\ \A i \in DOMAIN alerts \ {read.alert} : alerts'[i] = alerts[i]
      BY <1>2, CommitStatusEffect DEF TypeOK, AlertTableTypeOK
    <2>2. alerts'[read.alert].status = IF read.target = read.status
                                       THEN alerts[read.alert].status ELSE read.target
      BY <2>1 DEF ApplyAlertStatus, AlertRow
    <2>3. /\ audit \in Seq(AuditRow)
          /\ audit' = IF read.status = read.target THEN audit
                      ELSE Append(audit, [alert |-> read.alert, from |-> read.status,
                                          to |-> read.target])
      BY <1>2 DEF CommitStatus, TypeOK, WorkflowTypeOK
    <2> HIDE DEF read
    <2>4. [alert |-> read.alert, from |-> read.status, to |-> read.target] \in AuditRow
      BY <2>1 DEF Loaded, AuditRow
    <2>5. \A n \in DOMAIN audit : n \in DOMAIN audit' /\ audit'[n] = audit[n]
      BY <2>3, <2>4
    <2>6. ASSUME read.status # read.target
          PROVE  \E n \in DOMAIN audit' : audit'[n].alert = read.alert /\ audit'[n].to = read.target
      BY <2>3, <2>4, <2>6
    <2>7. ASSUME NEW i \in DOMAIN alerts', alerts'[i].status # "open"
          PROVE  \E n \in DOMAIN audit' : audit'[n].alert = i /\ audit'[n].to = alerts'[i].status
      <3>1. CASE alerts'[i].status = alerts[i].status
        BY <2>1, <2>5, <2>7, <3>1 DEF StatusIsAudited
      <3>2. CASE i = read.alert /\ read.status # read.target
        BY <2>2, <2>6, <3>2
      <3> QED BY <2>1, <2>2, <3>1, <3>2
    <2> QED BY <2>7 DEF StatusIsAudited
  <1> QED BY <1>1, <1>2 DEF Respond, WorkflowNext, LoadAlert, DropRequest

(* Every status an alert has taken is explained by an audit row            *)
(* (main.py:229-239).                                                      *)
THEOREM StatusesAreAudited == Spec => []StatusIsAudited
  <1>1. Init => StatusIsAudited
    BY DEF Init, StatusIsAudited
  <1>2. TypeOK /\ StatusIsAudited /\ [Next]_vars => StatusIsAudited'
    <2>1. CASE Tick \/ UNCHANGED vars
      BY <2>1 DEF Tick, vars, workflowVars, StatusIsAudited
    <2> QED BY <2>1, AuditedAcrossRun, AuditedAcrossRequest DEF Next
  <1> QED BY <1>1, <1>2, TypeCorrect, PTL DEF Spec

-----------------------------------------------------------------------------
(* The rows a commit leaves behind, one by one.                            *)
LEMMA CommitSessionRows ==
    ASSUME AlertTableTypeOK, RunTypeOK, NEW r \in Runners, CommitSession(r)
    PROVE  /\ Len(alerts) \in Nat /\ DOMAIN alerts = 1..Len(alerts)
           /\ DOMAIN alerts' = 1..(Len(alerts) + Len(fresh[r]))
           /\ \A i \in DOMAIN alerts : alerts'[i] = MergedRow(r, i)
           /\ \A j \in DOMAIN alerts' \ DOMAIN alerts :
                 /\ j - Len(alerts) \in DOMAIN fresh[r]
                 /\ alerts'[j] = NewAlert(fresh[r][j - Len(alerts)].rule,
                                         fresh[r][j - Len(alerts)].entity, begun[r])
           /\ fresh' = [fresh EXCEPT ![r] = <<>>]
           /\ dirty' = [dirty EXCEPT ![r] = NoMerges]
  <1>1. /\ alerts \in Seq(AlertRow) /\ fresh[r] \in Seq(PendingAlert)
        /\ Len(alerts) \in Nat /\ DOMAIN alerts = 1..Len(alerts)
        /\ Len(fresh[r]) \in Nat /\ DOMAIN fresh[r] = 1..Len(fresh[r])
    BY DEF AlertTableTypeOK, RunTypeOK
  <1>2. DOMAIN alerts' = 1..(Len(alerts) + Len(fresh[r]))
    BY <1>1 DEF CommitSession
  <1>3. ASSUME NEW j \in DOMAIN alerts' \ DOMAIN alerts
        PROVE  /\ j - Len(alerts) \in DOMAIN fresh[r]
               /\ alerts'[j] = NewAlert(fresh[r][j - Len(alerts)].rule,
                                       fresh[r][j - Len(alerts)].entity, begun[r])
    BY <1>1, <1>2, <1>3 DEF CommitSession
  <1>4. ASSUME NEW i \in DOMAIN alerts PROVE alerts'[i] = MergedRow(r, i)
    BY <1>1, <1>2, <1>4 DEF CommitSession
  <1> QED BY <1>1, <1>2, <1>3, <1>4 DEF CommitSession

(* The steps of a pass, by what they do to its session.                    *)
LEMMA SessionSteps ==
    ASSUME NEW r \in Runners, RunNext(r)
    PROVE  \/ CommitSession(r)
           \/ \E e \in Entities : HitNew(r, e) \/ HitMerge(r, e)
           \/ Discard(r)
           \/ UNCHANGED <<alerts, fresh, dirty>>
  BY DEF RunNext, RunStep, StartRun, NoHit, NextRule, EnrichCommit, CommitRun, Refresh,
         Notify, EndRun, Fail, Crash

(* A request leaves the evidence of every alert alone.                     *)
LEMMA RequestsKeepEvidence ==
    ASSUME TypeOK, NEW a \in Analysts, Respond(a)
    PROVE  /\ UNCHANGED runVars /\ DOMAIN alerts' = DOMAIN alerts
           /\ \A i \in DOMAIN alerts : /\ alerts'[i].occurrences = alerts[i].occurrences
                                      /\ alerts'[i].hits = alerts[i].hits
  <1>1. UNCHANGED runVars /\ (alerts' = alerts \/ CommitStatus(a))
    BY DEF Respond, WorkflowNext, LoadAlert, DropRequest
  <1>2. CASE CommitStatus(a)
    <2>1. /\ req[a].alert \in DOMAIN alerts /\ alerts[req[a].alert] \in AlertRow
          /\ DOMAIN alerts' = DOMAIN alerts
          /\ \E at \in Time : alerts'[req[a].alert] =
                 ApplyAlertStatus(alerts[req[a].alert], req[a], req[a].target, at)
          /\ \A i \in DOMAIN alerts \ {req[a].alert} : alerts'[i] = alerts[i]
      BY <1>2, CommitStatusEffect DEF TypeOK, AlertTableTypeOK
    <2>2. /\ alerts'[req[a].alert].occurrences = alerts[req[a].alert].occurrences
          /\ alerts'[req[a].alert].hits = alerts[req[a].alert].hits
      BY <2>1 DEF ApplyAlertStatus, AlertRow
    <2> QED BY <1>1, <2>1, <2>2
  <1> QED BY <1>1, <1>2

CountInv == OccurrencesCounted /\ MergesAreCounted

LEMMA CountsAcrossRun ==
    ASSUME OnePassAtATime, TypeOK, CountInv, NEW r \in Runners, RunNext(r)
    PROVE  CountInv'
  <1>0. /\ AlertTableTypeOK /\ RunTypeOK /\ alerts \in Seq(AlertRow)
        /\ DOMAIN dirty = Runners
    BY DEF TypeOK, AlertTableTypeOK, RunTypeOK
  <1>1. CASE CommitSession(r)
    <2>1. \A i \in DOMAIN alerts : alerts'[i] = MergedRow(r, i)
      BY <1>0, <1>1, CommitSessionRows
    <2>2. dirty'[r] = NoMerges
      BY <1>0, <1>1, CommitSessionRows
    <2>3. MergesAreCounted'
      BY <2>2, NoMergesType DEF OnePassAtATime, MergesAreCounted
    <2>4. ASSUME NEW i \in DOMAIN alerts PROVE alerts'[i].occurrences = alerts'[i].hits
      <3>1. alerts[i] \in AlertRow /\ alerts[i].occurrences = alerts[i].hits
        BY <1>0 DEF CountInv, OccurrencesCounted
      <3>2. CASE i \in DOMAIN dirty[r]
        <4>1. dirty[r][i].occurrences = alerts[i].occurrences + dirty[r][i].n
          BY <3>2 DEF CountInv, MergesAreCounted
        <4>2. /\ MergedRow(r, i).occurrences = dirty[r][i].occurrences
              /\ MergedRow(r, i).hits = alerts[i].hits + dirty[r][i].n
          BY <3>1, <3>2 DEF MergedRow, AlertRow
        <4> QED BY <2>1, <3>1, <4>1, <4>2
      <3>3. CASE i \notin DOMAIN dirty[r]
        BY <2>1, <3>1, <3>3 DEF MergedRow
      <3> QED BY <3>2, <3>3
    <2>5. ASSUME NEW j \in DOMAIN alerts' \ DOMAIN alerts
          PROVE  alerts'[j].occurrences = alerts'[j].hits
      <3>1. alerts'[j] = NewAlert(fresh[r][j - Len(alerts)].rule,
                                  fresh[r][j - Len(alerts)].entity, begun[r])
        BY <1>0, <1>1, CommitSessionRows
      <3> QED BY <3>1 DEF NewAlert
    <2> QED BY <2>3, <2>4, <2>5 DEF CountInv, OccurrencesCounted
  <1>2. ASSUME NEW e \in Entities, HitMerge(r, e) PROVE CountInv'
    <2>1. PICK i \in Mergeable(RuleFiles[slot[r]], e, now) :
             dirty' = [dirty EXCEPT ![r] = MergeInto(@, i)]
      BY <1>2 DEF HitMerge
    <2>2. i \in DOMAIN alerts /\ alerts' = alerts
      BY <1>2 DEF Mergeable, Newest, LiveFor, Live, HitMerge, NextRule
    <2>3. dirty'[r] = MergeInto(dirty[r], i)
      BY <1>0, <2>1
    <2>4. alerts[i].occurrences \in Nat
      <3>1. alerts[i] \in AlertRow
        BY <1>0, <2>2
      <3> QED BY <3>1 DEF AlertRow
    <2>5. ASSUME NEW j \in DOMAIN dirty[r]
          PROVE  /\ dirty[r][j].occurrences = alerts[j].occurrences + dirty[r][j].n
                 /\ dirty[r][j].n \in Nat /\ j \in DOMAIN alerts
                 /\ alerts[j].occurrences \in Nat
      <3>1. dirty[r][j] \in PendingMerge /\ j \in DOMAIN alerts
        BY <1>0 DEF RunTypeOK
      <3>2. alerts[j] \in AlertRow
        BY <1>0, <3>1
      <3> QED BY <3>1, <3>2 DEF CountInv, MergesAreCounted, PendingMerge, AlertRow
    <2>6. ASSUME NEW j \in DOMAIN MergeInto(dirty[r], i)
          PROVE  MergeInto(dirty[r], i)[j].occurrences
                    = alerts[j].occurrences + MergeInto(dirty[r], i)[j].n
      BY <2>4, <2>5 DEF MergeInto
    <2>7. MergesAreCounted'
      BY <2>2, <2>3, <2>6 DEF OnePassAtATime, MergesAreCounted
    <2> QED BY <2>2, <2>7 DEF CountInv, OccurrencesCounted
  <1>3. CASE Discard(r)
    <2>1. dirty'[r] = NoMerges /\ alerts' = alerts
      BY <1>0, <1>3 DEF Discard
    <2> QED BY <2>1, NoMergesType DEF OnePassAtATime, CountInv, MergesAreCounted, OccurrencesCounted
  <1>4. CASE UNCHANGED <<alerts, dirty>>
    BY <1>4 DEF CountInv, MergesAreCounted, OccurrencesCounted
  <1> QED BY <1>1, <1>2, <1>3, <1>4, SessionSteps DEF HitNew, NextRule

(* With one pass at a time, the count of an alert is the number of its     *)
(* detections: nothing is lost, whatever pass fails or analyst interferes  *)
(* (rules_engine.py:124-127).                                              *)
THEOREM OccurrencesAreCounted ==
    ASSUME OnePassAtATime PROVE Spec => []OccurrencesCounted
  <1>1. Init => CountInv
    BY DEF Init, RunInit, NoMerges, CountInv, OccurrencesCounted, MergesAreCounted
  <1>2. TypeOK /\ CountInv /\ [Next]_vars => CountInv'
    <2> SUFFICES ASSUME TypeOK, CountInv, [Next]_vars PROVE CountInv'
      OBVIOUS
    <2>1. ASSUME NEW r \in Runners, Detect(r) PROVE CountInv'
      BY <2>1, CountsAcrossRun DEF Detect
    <2>2. ASSUME NEW a \in Analysts, Respond(a) PROVE CountInv'
      <3>1. /\ dirty' = dirty /\ DOMAIN alerts' = DOMAIN alerts
            /\ \A i \in DOMAIN alerts : /\ alerts'[i].occurrences = alerts[i].occurrences
                                       /\ alerts'[i].hits = alerts[i].hits
        BY <2>2, RequestsKeepEvidence DEF runVars
      <3>2. \A r \in Runners : DOMAIN dirty[r] \subseteq DOMAIN alerts
        BY DEF TypeOK, RunTypeOK
      <3> QED BY <3>1, <3>2 DEF CountInv, OccurrencesCounted, MergesAreCounted
    <2>3. CASE Tick \/ UNCHANGED vars
      BY <2>3 DEF Tick, vars, runVars, CountInv, OccurrencesCounted, MergesAreCounted
    <2> QED BY <2>1, <2>2, <2>3 DEF Next
  <1>3. CountInv => OccurrencesCounted
    BY DEF CountInv
  <1> QED BY <1>1, <1>2, <1>3, TypeCorrect, PTL DEF Spec

-----------------------------------------------------------------------------
LEMMA OrderAcrossRun ==
    ASSUME OnePassAtATime, DistinctRules, TypeOK, PendingIsOrdered, NEW r \in Runners, RunNext(r)
    PROVE  PendingIsOrdered'
  <1>0. /\ AlertTableTypeOK /\ RunTypeOK /\ alerts \in Seq(AlertRow) /\ Len(alerts) \in Nat
        /\ DOMAIN fresh = Runners /\ DOMAIN pc = Runners /\ DOMAIN slot = Runners
        /\ fresh[r] \in Seq(PendingAlert) /\ slot[r] \in 1..(Len(RuleFiles) + 1)
        /\ Len(RuleFiles) \in Nat /\ DOMAIN RuleFiles = 1..Len(RuleFiles)
    BY RuleFilesAssumption DEF TypeOK, AlertTableTypeOK, RunTypeOK
  <1>00. ASSUME pc'[r] # "eval" => fresh'[r] = <<>>,
                \A k \in DOMAIN fresh'[r] :
                   /\ fresh'[r][k].seen = Len(alerts')
                   /\ \E n \in 1..(slot'[r] - 1) : fresh'[r][k].rule = RuleFiles[n]
                   /\ \A l \in DOMAIN fresh'[r] : fresh'[r][k].rule = fresh'[r][l].rule => k = l
         PROVE  PendingIsOrdered'
    BY <1>00 DEF OnePassAtATime, PendingIsOrdered
  <1>1. CASE fresh'[r] = <<>>
    BY <1>1, <1>00
  <1>2. CASE NoHit(r) \/ \E e \in Entities : HitMerge(r, e)
    <2>1. /\ fresh' = fresh /\ alerts' = alerts /\ pc' = pc /\ pc[r] = "eval"
          /\ slot'[r] = slot[r] + 1
      BY <1>0, <1>2 DEF NoHit, HitMerge, Evaluating, NextRule
    <2>2. 1..(slot[r] - 1) \subseteq 1..(slot'[r] - 1)
      BY <1>0, <2>1
    <2> QED BY <2>1, <2>2, <1>00 DEF PendingIsOrdered
  <1>3. ASSUME NEW e \in Entities, HitNew(r, e) PROVE PendingIsOrdered'
    <2> DEFINE f == [rule |-> RuleFiles[slot[r]], entity |-> e, seen |-> Len(alerts),
                     truncated |-> Truncated(RuleFiles[slot[r]], now)]
               m == Len(fresh[r])
    <2>1. /\ fresh'[r] = Append(fresh[r], f) /\ alerts' = alerts /\ pc' = pc /\ pc[r] = "eval"
          /\ slot'[r] = slot[r] + 1 /\ slot[r] \in DOMAIN RuleFiles
      BY <1>0, <1>3 DEF HitNew, Evaluating, NextRule
    <2>2. f.rule = RuleFiles[slot[r]] /\ f.seen = Len(alerts)
      OBVIOUS
    <2> HIDE DEF f
    <2>3. /\ m \in Nat /\ DOMAIN fresh[r] = 1..m /\ DOMAIN fresh'[r] = 1..(m + 1)
          /\ fresh'[r][m + 1] = f /\ \A k \in 1..m : fresh'[r][k] = fresh[r][k]
      <3>1. fresh[r] \in Seq(PendingAlert \cup {f}) /\ f \in PendingAlert \cup {f}
        BY <1>0
      <3> QED BY <2>1, <3>1
    <2> HIDE DEF m
    <2>4. ASSUME NEW k \in 1..m
          PROVE  /\ fresh'[r][k].seen = Len(alerts)
                 /\ \E n \in 1..(slot[r] - 1) : fresh'[r][k].rule = RuleFiles[n]
                 /\ \A l \in 1..m : fresh'[r][k].rule = fresh'[r][l].rule => k = l
      <3>1. k \in DOMAIN fresh[r] /\ fresh'[r][k] = fresh[r][k]
        BY <2>3
      <3>2. /\ fresh[r][k].seen = Len(alerts)
            /\ \E n \in 1..(slot[r] - 1) : fresh[r][k].rule = RuleFiles[n]
            /\ \A l \in DOMAIN fresh[r] : fresh[r][k].rule = fresh[r][l].rule => k = l
        BY <3>1 DEF PendingIsOrdered
      <3>3. ASSUME NEW l \in 1..m, fresh'[r][k].rule = fresh'[r][l].rule PROVE k = l
        <4>1. l \in DOMAIN fresh[r] /\ fresh'[r][l] = fresh[r][l]
          BY <2>3
        <4> QED BY <3>1, <3>2, <3>3, <4>1
      <3> QED BY <3>1, <3>2, <3>3
    <2>5. ASSUME NEW k \in 1..m PROVE fresh'[r][k].rule # RuleFiles[slot[r]]
      <3>1. PICK n \in 1..(slot[r] - 1) : fresh'[r][k].rule = RuleFiles[n]
        BY <2>4
      <3>2. n \in DOMAIN RuleFiles /\ n # slot[r]
        BY <1>0, <2>1
      <3> QED BY <2>1, <3>1, <3>2 DEF DistinctRules
    <2>6. ASSUME NEW k \in 1..(m + 1)
          PROVE  /\ fresh'[r][k].seen = Len(alerts)
                 /\ \E n \in 1..slot[r] : fresh'[r][k].rule = RuleFiles[n]
                 /\ \A l \in 1..(m + 1) : fresh'[r][k].rule = fresh'[r][l].rule => k = l
      <3>1. CASE k \in 1..m
        <4>1. \E n \in 1..slot[r] : fresh'[r][k].rule = RuleFiles[n]
          <5>1. PICK n \in 1..(slot[r] - 1) : fresh'[r][k].rule = RuleFiles[n]
            BY <2>4, <3>1
          <5>2. n \in 1..slot[r]
            BY <1>0
          <5> QED BY <5>1, <5>2
        <4>2. fresh'[r][m + 1].rule # fresh'[r][k].rule
          BY <2>2, <2>3, <2>5, <3>1
        <4> QED BY <2>3, <2>4, <3>1, <4>1, <4>2
      <3>2. CASE k = m + 1
        <4>1. \A l \in 1..m : fresh'[r][k].rule # fresh'[r][l].rule
          BY <2>2, <2>3, <2>5, <3>2
        <4>2. slot[r] \in 1..slot[r]
          BY <1>0
        <4> QED BY <2>2, <2>3, <3>2, <4>1, <4>2
      <3> QED BY <2>3, <3>1, <3>2
    <2>7. slot'[r] - 1 = slot[r]
      BY <1>0, <2>1
    <2> QED BY <1>00, <2>1, <2>3, <2>6, <2>7
  <1>4. CASE StartRun(r) \/ (\E i \in created[r] : Refresh(r, i))
             \/ (\E i \in queue[r] : Notify(r, i)) \/ EndRun(r)
    <2>1. fresh' = fresh /\ pc[r] # "eval"
      BY <1>4 DEF StartRun, Refresh, Notify, EndRun
    <2> QED BY <1>1, <2>1 DEF PendingIsOrdered
  <1>5. CASE EnrichCommit(r) \/ CommitRun(r) \/ Fail(r) \/ Crash(r)
    BY <1>0, <1>1, <1>5 DEF EnrichCommit, CommitRun, Fail, Crash, CommitSession, Discard
  <1> QED BY <1>2, <1>3, <1>4, <1>5 DEF RunNext, RunStep

(* What a commit inserts has no open, recent namesake.                     *)
LEMMA CommitInsertsNews ==
    ASSUME OnePassAtATime, TypeOK, PendingIsNews, PendingIsOrdered, NeverCut,
           NEW r \in Runners, CommitSession(r),
           NEW j \in DOMAIN alerts' \ DOMAIN alerts, NEW i \in 1..(j - 1)
    PROVE  ~ /\ alerts'[i].rule = alerts'[j].rule
             /\ alerts'[i].entity = alerts'[j].entity
             /\ alerts'[i].closed = Null
             /\ alerts'[i].created >= now - Cooldown[alerts'[j].rule]
  <1> DEFINE n == Len(alerts)
             f == fresh[r][j - n]
  <1>1. AlertTableTypeOK /\ RunTypeOK
    BY DEF TypeOK
  <1>2. /\ n \in Nat /\ DOMAIN alerts = 1..n /\ DOMAIN alerts' = 1..(n + Len(fresh[r]))
        /\ j - n \in DOMAIN fresh[r] /\ alerts'[j] = NewAlert(f.rule, f.entity, begun[r])
        /\ Len(fresh[r]) \in Nat
    BY <1>1, CommitSessionRows DEF RunTypeOK
  <1>3. alerts'[j].rule = f.rule /\ alerts'[j].entity = f.entity
    BY <1>2 DEF NewAlert
  <1>4. /\ ~f.truncated /\ f.seen = n
        /\ \A l \in DOMAIN fresh[r] : f.rule = fresh[r][l].rule => j - n = l
    BY <1>2 DEF NeverCut, PendingIsOrdered
  <1>5. CASE i \in DOMAIN alerts
    <2>1. /\ alerts'[i].rule = alerts[i].rule /\ alerts'[i].entity = alerts[i].entity
          /\ alerts'[i].closed = alerts[i].closed /\ alerts'[i].created = alerts[i].created
      BY <1>1, <1>5, CommitSessionEffect
    <2>2. ~IsRepeat(i, f, now)
      BY <1>2, <1>4, <1>5 DEF PendingIsNews
    <2> HIDE DEF f
    <2> QED BY <1>3, <2>1, <2>2 DEF IsRepeat
  <1>6. CASE i \notin DOMAIN alerts
    <2>1. i \in DOMAIN alerts' \ DOMAIN alerts
      BY <1>2, <1>6
    <2>2. /\ i - n \in DOMAIN fresh[r]
          /\ alerts'[i] = NewAlert(fresh[r][i - n].rule, fresh[r][i - n].entity, begun[r])
      BY <1>1, <2>1, CommitSessionRows
    <2>3. alerts'[i].rule = fresh[r][i - n].rule
      BY <2>2 DEF NewAlert
    <2>4. i - n # j - n
      BY <1>2
    <2> HIDE DEF f
    <2> QED BY <1>3, <1>4, <2>2, <2>3, <2>4
  <1> QED BY <1>5, <1>6

(* While passes follow one another, what a session holds is decided on the *)
(* table as it still is.                                                   *)
LEMMA OrderHolds ==
    ASSUME OnePassAtATime, DistinctRules PROVE Spec => []PendingIsOrdered
  <1>1. Init => PendingIsOrdered
    BY DEF Init, RunInit, PendingIsOrdered
  <1>2. TypeOK /\ PendingIsOrdered /\ [Next]_vars => PendingIsOrdered'
    <2> SUFFICES ASSUME TypeOK, PendingIsOrdered, [Next]_vars PROVE PendingIsOrdered'
      OBVIOUS
    <2>1. ASSUME NEW r \in Runners, Detect(r) PROVE PendingIsOrdered'
      BY <2>1, OrderAcrossRun DEF Detect
    <2>2. ASSUME NEW a \in Analysts, Respond(a) PROVE PendingIsOrdered'
      <3>1. UNCHANGED <<pc, fresh, slot>>
        BY <2>2 DEF Respond, runVars
      <3>2. Len(alerts') = Len(alerts)
        <4>1. alerts' = alerts \/ CommitStatus(a)
          BY <2>2 DEF Respond, WorkflowNext, LoadAlert, DropRequest
        <4> QED BY <4>1, CommitStatusEffect DEF TypeOK
      <3> QED BY <3>1, <3>2 DEF PendingIsOrdered
    <2>3. CASE Tick \/ UNCHANGED vars
      BY <2>3 DEF Tick, vars, runVars, PendingIsOrdered
    <2> QED BY <2>1, <2>2, <2>3 DEF Next
  <1> QED BY <1>1, <1>2, TypeCorrect, PTL DEF Spec

(* README.md:142 of passes that follow one another, over rules declared    *)
(* once and queries that are not cut: a detection within the cooldown of   *)
(* an open alert is never a new alert, whatever analysts do in between     *)
(* (rules_engine.py:93-177).                                               *)
THEOREM RepeatsAreMerged ==
    ASSUME OnePassAtATime, DistinctRules
    PROVE  Spec /\ []NeverCut => NoDuplicateAlert
  <1> DEFINE News == \A j \in DOMAIN alerts' \ DOMAIN alerts :
                        \A i \in 1..(j - 1) :
                           ~ /\ alerts'[i].rule = alerts'[j].rule
                             /\ alerts'[i].entity = alerts'[j].entity
                             /\ alerts'[i].closed = Null
                             /\ alerts'[i].created >= now - Cooldown[alerts'[j].rule]
  <1>1. TypeOK /\ IInv /\ PendingIsOrdered /\ NeverCut /\ [Next]_vars => [News]_vars
    <2> SUFFICES ASSUME TypeOK, IInv, PendingIsOrdered, NeverCut, Next PROVE News
      OBVIOUS
    <2>1. CASE DOMAIN alerts' = DOMAIN alerts
      BY <2>1
    <2>2. ASSUME NEW r \in Runners, CommitSession(r) PROVE News
      BY <2>2, CommitInsertsNews DEF IInv
    <2>3. ASSUME NEW r \in Runners, Detect(r) PROVE News
      BY <2>1, <2>2, <2>3, RunStepsTable DEF Detect
    <2>4. ASSUME NEW a \in Analysts, Respond(a) PROVE News
      BY <2>1, <2>4, RequestsKeepEvidence
    <2>5. CASE Tick
      BY <2>1, <2>5 DEF Tick
    <2> QED BY <2>3, <2>4, <2>5 DEF Next
  <1> QED BY <1>1, InvariantHolds, OrderHolds, PTL DEF Spec, NoDuplicateAlert

-----------------------------------------------------------------------------
(* AlertDedup: the refinement. A session holds at most one detection of a  *)
(* rule, so that a commit changes the alerts of a key at most once.        *)
LEMMA OnceAcrossRun ==
    ASSUME OnePassAtATime, DistinctRules, TypeOK, PendingIsOrdered, MergesAreOnce,
           NEW r \in Runners, RunNext(r), now' = now
    PROVE  MergesAreOnce'
  <1>0. /\ AlertTableTypeOK /\ RunTypeOK /\ alerts \in Seq(AlertRow) /\ now \in Nat
        /\ DOMAIN fresh = Runners /\ DOMAIN pc = Runners /\ DOMAIN slot = Runners
        /\ DOMAIN dirty = Runners /\ begun \in [Runners -> Nat]
        /\ fresh[r] \in Seq(PendingAlert) /\ slot[r] \in 1..(Len(RuleFiles) + 1)
        /\ Len(RuleFiles) \in Nat /\ DOMAIN RuleFiles = 1..Len(RuleFiles)
    BY RuleFilesAssumption DEF TypeOK, AlertTableTypeOK, RunTypeOK, Time
  <1>1. ASSUME begun'[r] <= now', pc'[r] # "eval" => DOMAIN dirty'[r] = {},
               \A i \in DOMAIN dirty'[r] :
                  /\ dirty'[r][i].occurrences = alerts'[i].occurrences + 1
                  /\ \E n \in 1..(slot'[r] - 1) : alerts'[i].rule = RuleFiles[n]
                  /\ \A j \in DOMAIN dirty'[r] : alerts'[i].rule = alerts'[j].rule => i = j
                  /\ \A k \in DOMAIN fresh'[r] : fresh'[r][k].rule # alerts'[i].rule
        PROVE  MergesAreOnce'
    <2> SUFFICES ASSUME NEW q \in Runners
                 PROVE  /\ begun'[q] <= now'
                        /\ pc'[q] # "eval" => DOMAIN dirty'[q] = {}
                        /\ \A i \in DOMAIN dirty'[q] :
                              /\ dirty'[q][i].occurrences = alerts'[i].occurrences + 1
                              /\ \E n \in 1..(slot'[q] - 1) : alerts'[i].rule = RuleFiles[n]
                              /\ \A j \in DOMAIN dirty'[q] : alerts'[i].rule = alerts'[j].rule => i = j
                              /\ \A k \in DOMAIN fresh'[q] : fresh'[q][k].rule # alerts'[i].rule
      BY DEF MergesAreOnce
    <2>1. q = r
      BY DEF OnePassAtATime
    <2> QED BY <1>1, <2>1
  <1>2. begun'[r] <= now'
    <2>1. begun' = begun \/ begun' = [begun EXCEPT ![r] = now]
      BY DEF RunNext, RunStep, StartRun, NoHit, HitNew, HitMerge, NextRule, EnrichCommit,
             CommitRun, Refresh, Notify, EndRun, Fail, Crash, Discard
    <2>2. begun[r] <= now
      BY DEF MergesAreOnce
    <2> QED BY <1>0, <2>1, <2>2
  <1>3. \A i \in DOMAIN dirty[r] :
           /\ dirty[r][i].occurrences = alerts[i].occurrences + 1
           /\ \E n \in 1..(slot[r] - 1) : alerts[i].rule = RuleFiles[n]
           /\ \A j \in DOMAIN dirty[r] : alerts[i].rule = alerts[j].rule => i = j
           /\ \A k \in DOMAIN fresh[r] : fresh[r][k].rule # alerts[i].rule
    BY DEF MergesAreOnce
  <1>4. ASSUME Evaluating(r), NextRule(r)
        PROVE  /\ pc'[r] = "eval" /\ alerts' = alerts /\ slot'[r] = slot[r] + 1
               /\ slot[r] \in DOMAIN RuleFiles
               /\ \A i \in DOMAIN dirty[r] : \E n \in 1..(slot'[r] - 1) : alerts[i].rule = RuleFiles[n]
               /\ \A i \in DOMAIN dirty[r] : alerts[i].rule # RuleFiles[slot[r]]
               /\ \A k \in DOMAIN fresh[r] : fresh[r][k].rule # RuleFiles[slot[r]]
    <2>1. /\ pc'[r] = "eval" /\ alerts' = alerts /\ slot'[r] = slot[r] + 1 /\ slot[r] \in DOMAIN RuleFiles
      BY <1>0, <1>4 DEF Evaluating, NextRule
    <2>2. 1..(slot[r] - 1) \subseteq 1..(slot'[r] - 1)
      BY <1>0, <2>1
    <2>3. \A n \in 1..(slot[r] - 1) : n \in DOMAIN RuleFiles /\ n # slot[r]
      BY <1>0
    <2>4. \A n \in 1..(slot[r] - 1) : RuleFiles[n] # RuleFiles[slot[r]]
      BY <2>1, <2>3 DEF DistinctRules
    <2>5. \A k \in DOMAIN fresh[r] : \E n \in 1..(slot[r] - 1) : fresh[r][k].rule = RuleFiles[n]
      BY DEF PendingIsOrdered
    <2> QED BY <1>3, <2>1, <2>2, <2>4, <2>5
  <1>5. CASE NoHit(r)
    <2>1. Evaluating(r) /\ NextRule(r) /\ UNCHANGED <<fresh, dirty>>
      BY <1>5 DEF NoHit
    <2> QED BY <1>1, <1>2, <1>3, <1>4, <2>1
  <1>6. ASSUME NEW e \in Entities, HitNew(r, e) PROVE MergesAreOnce'
    <2> DEFINE f == [rule |-> RuleFiles[slot[r]], entity |-> e, seen |-> Len(alerts),
                     truncated |-> Truncated(RuleFiles[slot[r]], now)]
    <2>1. /\ Evaluating(r) /\ NextRule(r) /\ UNCHANGED dirty /\ fresh'[r] = Append(fresh[r], f)
      BY <1>0, <1>6 DEF HitNew
    <2>2. f.rule = RuleFiles[slot[r]]
      OBVIOUS
    <2> HIDE DEF f
    <2>3. \A k \in DOMAIN fresh'[r] : fresh'[r][k] = f \/ (k \in DOMAIN fresh[r] /\ fresh'[r][k] = fresh[r][k])
      <3>1. fresh[r] \in Seq(PendingAlert \cup {f}) /\ f \in PendingAlert \cup {f}
        BY <1>0
      <3> QED BY <2>1, <3>1
    <2> QED BY <1>1, <1>2, <1>3, <1>4, <2>1, <2>2, <2>3
  <1>7. ASSUME NEW e \in Entities, HitMerge(r, e) PROVE MergesAreOnce'
    <2>1. /\ Evaluating(r) /\ NextRule(r) /\ UNCHANGED fresh
      BY <1>7 DEF HitMerge
    <2>2. PICK i \in Mergeable(RuleFiles[slot[r]], e, now) :
             dirty' = [dirty EXCEPT ![r] = MergeInto(@, i)]
      BY <1>7 DEF HitMerge
    <2>3. i \in DOMAIN alerts /\ alerts[i].rule = RuleFiles[slot[r]]
      BY DEF Mergeable, Newest, LiveFor, Live
    <2>4. i \notin DOMAIN dirty[r]
      BY <1>4, <2>1, <2>3
    <2>5. /\ DOMAIN dirty'[r] = DOMAIN dirty[r] \cup {i}
          /\ \A j \in DOMAIN dirty[r] : dirty'[r][j] = dirty[r][j]
          /\ dirty'[r][i].occurrences = alerts[i].occurrences + 1
      BY <1>0, <2>2, <2>4 DEF MergeInto
    <2>6. \E n \in 1..(slot'[r] - 1) : alerts[i].rule = RuleFiles[n]
      <3>1. slot[r] \in 1..(slot'[r] - 1)
        BY <1>0, <1>4, <2>1
      <3> QED BY <2>3, <3>1
    <2> QED BY <1>1, <1>2, <1>3, <1>4, <2>1, <2>3, <2>5, <2>6
  <1>8. CASE StartRun(r) \/ (\E i \in created[r] : Refresh(r, i))
             \/ (\E i \in queue[r] : Notify(r, i)) \/ EndRun(r)
    <2>1. dirty' = dirty /\ pc[r] # "eval"
      BY <1>8 DEF StartRun, Refresh, Notify, EndRun
    <2>2. DOMAIN dirty'[r] = {}
      BY <2>1 DEF MergesAreOnce
    <2> QED BY <1>1, <1>2, <2>2
  <1>9. CASE EnrichCommit(r) \/ CommitRun(r) \/ Fail(r) \/ Crash(r)
    <2>1. dirty'[r] = NoMerges
      BY <1>0, <1>9 DEF EnrichCommit, CommitRun, Fail, Crash, CommitSession, Discard
    <2>2. DOMAIN dirty'[r] = {}
      BY <2>1, NoMergesType
    <2> QED BY <1>1, <1>2, <2>2
  <1> QED BY <1>5, <1>6, <1>7, <1>8, <1>9 DEF RunNext, RunStep

(* What a request does to the rows the book lists: it closes one, or       *)
(* nothing the book shows.                                                 *)
LEMMA RequestOnBook ==
    ASSUME TypeOK, NEW a \in Analysts, Respond(a)
    PROVE  /\ now' = now /\ DOMAIN alerts' = DOMAIN alerts
           /\ \A i \in DOMAIN alerts :
                 /\ alerts'[i].rule = alerts[i].rule /\ alerts'[i].entity = alerts[i].entity
                 /\ alerts'[i].created = alerts[i].created
                 /\ alerts'[i].occurrences = alerts[i].occurrences
           /\ \/ \A i \in DOMAIN alerts : alerts'[i].closed = alerts[i].closed
              \/ \E i \in DOMAIN alerts, t \in 0..now :
                    /\ alerts'[i].closed = t
                    /\ \A j \in DOMAIN alerts \ {i} : alerts'[j] = alerts[j]
  <1>1. now' = now /\ (alerts' = alerts \/ CommitStatus(a))
    BY DEF Respond, WorkflowNext, LoadAlert, DropRequest
  <1>2. CASE CommitStatus(a)
    <2> DEFINE i == req[a].alert
    <2>a. PICK at \in Time :
                /\ at <= now
                /\ alerts'[i] = ApplyAlertStatus(alerts[i], req[a], req[a].target, at)
      BY <1>2, CommitStatusEffect DEF TypeOK
    <2>1. /\ i \in DOMAIN alerts /\ alerts[i] \in AlertRow /\ req[a] \in Loaded /\ now \in Nat
          /\ DOMAIN alerts' = DOMAIN alerts /\ at \in 0..now
          /\ \A j \in DOMAIN alerts \ {i} : alerts'[j] = alerts[j]
      BY <1>2, <2>a, CommitStatusEffect DEF TypeOK, AlertTableTypeOK, Time
    <2>2. /\ alerts'[i].rule = alerts[i].rule /\ alerts'[i].entity = alerts[i].entity
          /\ alerts'[i].created = alerts[i].created /\ alerts'[i].occurrences = alerts[i].occurrences
          /\ alerts'[i].closed = IF ClosedAfter(req[a], req[a].target, at) = req[a].closed
                                 THEN alerts[i].closed ELSE ClosedAfter(req[a], req[a].target, at)
      BY <2>1, <2>a DEF ApplyAlertStatus, AlertRow
    <2>3. alerts'[i].closed = alerts[i].closed \/ alerts'[i].closed = at
      BY <2>2 DEF ClosedAfter
    <2> HIDE DEF i
    <2> QED BY <1>1, <2>1, <2>2, <2>3
  <1> QED BY <1>1, <1>2

LEMMA OnceStep ==
    ASSUME OnePassAtATime, DistinctRules
    PROVE  TypeOK /\ PendingIsOrdered /\ MergesAreOnce /\ [Next]_vars => MergesAreOnce'
  <1> SUFFICES ASSUME TypeOK, PendingIsOrdered, MergesAreOnce, [Next]_vars PROVE MergesAreOnce'
    OBVIOUS
  <1>0. now \in Nat /\ begun \in [Runners -> Nat]
    BY DEF TypeOK, AlertTableTypeOK, RunTypeOK, Time
  <1>1. ASSUME NEW r \in Runners, Detect(r) PROVE MergesAreOnce'
    BY <1>1, OnceAcrossRun DEF Detect
  <1>2. ASSUME NEW a \in Analysts, Respond(a) PROVE MergesAreOnce'
    <2>1. UNCHANGED <<pc, slot, begun, fresh, dirty, now>>
      BY <1>2 DEF Respond, runVars
    <2>2. \A i \in DOMAIN alerts : alerts'[i].occurrences = alerts[i].occurrences
      BY <1>2, RequestsKeepEvidence
    <2>3. \A i \in DOMAIN alerts : alerts'[i].rule = alerts[i].rule
      BY <1>2, RequestOnBook
    <2>4. \A r \in Runners : DOMAIN dirty[r] \subseteq DOMAIN alerts
      BY DEF TypeOK, RunTypeOK
    <2> QED BY <2>1, <2>2, <2>3, <2>4 DEF MergesAreOnce
  <1>3. CASE Tick
    <2>1. now' >= now /\ now' \in Nat
      BY <1>0, <1>3 DEF Tick
    <2>2. \A r \in Runners : begun[r] <= now'
      BY <1>0, <2>1 DEF MergesAreOnce
    <2> QED BY <1>3, <2>2 DEF Tick, runVars, MergesAreOnce
  <1>4. CASE UNCHANGED vars
    BY <1>4 DEF vars, runVars, MergesAreOnce
  <1> QED BY <1>1, <1>2, <1>3, <1>4 DEF Next

(* An entry of the book and its alert.                                     *)
LEMMA BookEntries ==
    ASSUME NEW k \in Rules \X Entities
    PROVE  /\ Books[k] = BookOf(k) /\ DOMAIN Books[k] = IdsOf(k)
           /\ \A i \in IdsOf(k) :
                 /\ Books[k][i] = [opened |-> alerts[i].created, closed |-> alerts[i].closed,
                                   occurrences |-> alerts[i].occurrences]
                 /\ i \in DOMAIN alerts /\ alerts[i].rule = k[1] /\ alerts[i].entity = k[2]
  BY DEF Books, BookOf, IdsOf

(* One key, at the commit of a pass: an alert is opened, one absorbs the   *)
(* detection, or nothing changes.                                          *)
LEMMA CommitOpens ==
    ASSUME OnePassAtATime, TypeOK, IInv, PendingIsOrdered, MergesAreOnce, NeverCut,
           NEW r \in Runners, CommitSession(r), now' = now,
           NEW k \in Rules \X Entities, NEW j \in IdsOf(k)', j \notin DOMAIN alerts
    PROVE  Book!OpensAlert(k)
  <1>0. AlertTableTypeOK /\ RunTypeOK /\ PendingIsNews
    BY DEF TypeOK, IInv
  <1>1. /\ Len(alerts) \in Nat /\ DOMAIN alerts = 1..Len(alerts)
        /\ DOMAIN alerts' = 1..(Len(alerts) + Len(fresh[r])) /\ Len(fresh[r]) \in Nat
        /\ \A i \in DOMAIN alerts' \ DOMAIN alerts :
              /\ i - Len(alerts) \in DOMAIN fresh[r]
              /\ alerts'[i] = NewAlert(fresh[r][i - Len(alerts)].rule,
                                       fresh[r][i - Len(alerts)].entity, begun[r])
        /\ \A i \in DOMAIN alerts : alerts'[i] = MergedRow(r, i)
    BY <1>0, CommitSessionRows DEF RunTypeOK
  <1>2. j \in DOMAIN alerts' \ DOMAIN alerts /\ alerts'[j].rule = k[1] /\ alerts'[j].entity = k[2]
    BY DEF IdsOf
  <1> DEFINE f == fresh[r][j - Len(alerts)]
  <1>3. /\ j - Len(alerts) \in DOMAIN fresh[r]
        /\ alerts'[j] = NewAlert(f.rule, f.entity, begun[r]) /\ f.rule = k[1]
    BY <1>1, <1>2 DEF NewAlert
  <1>4. Books'[k][j] = Book!Entry(begun[r])
    <2>1. alerts'[j].created = begun[r] /\ alerts'[j].closed = Null /\ alerts'[j].occurrences = 1
      BY <1>3 DEF NewAlert
    <2>2. Books'[k][j] = [opened |-> alerts'[j].created, closed |-> alerts'[j].closed,
                          occurrences |-> alerts'[j].occurrences]
      BY DEF Books, BookOf
    <2> QED BY <2>1, <2>2 DEF Book!Entry
  <1>5. ASSUME NEW i \in IdsOf(k)', i \notin DOMAIN alerts PROVE i = j
    <2>1. i \in DOMAIN alerts' \ DOMAIN alerts /\ alerts'[i].rule = k[1]
      BY <1>5 DEF IdsOf
    <2>2. /\ i - Len(alerts) \in DOMAIN fresh[r] /\ fresh[r][i - Len(alerts)].rule = k[1]
      <3> DEFINE g == fresh[r][i - Len(alerts)]
      <3>1. /\ i - Len(alerts) \in DOMAIN fresh[r]
            /\ alerts'[i] = NewAlert(g.rule, g.entity, begun[r])
        BY <1>1, <2>1
      <3>2. NewAlert(g.rule, g.entity, begun[r]).rule = g.rule
        BY DEF NewAlert
      <3> QED BY <2>1, <3>1, <3>2
    <2>3. i - Len(alerts) = j - Len(alerts)
      BY <1>3, <2>2 DEF PendingIsOrdered
    <2> QED BY <1>1, <1>2, <2>1, <2>3
  <1>6. ASSUME NEW i \in DOMAIN alerts
        PROVE  /\ i \in DOMAIN alerts' /\ alerts'[i].rule = alerts[i].rule
               /\ alerts'[i].entity = alerts[i].entity /\ alerts'[i].created = alerts[i].created
               /\ alerts'[i].closed = alerts[i].closed
               /\ alerts[i].rule = k[1] => alerts'[i] = alerts[i]
    <2>1. alerts[i].rule = k[1] => i \notin DOMAIN dirty[r]
      BY <1>3 DEF MergesAreOnce
    <2> QED BY <1>0, <1>1, <2>1, CommitSessionEffect DEF MergedRow
  <1>7. IdsOf(k)' = IdsOf(k) \cup {j}
    BY <1>2, <1>5, <1>6 DEF IdsOf
  <1>8. \A i \in IdsOf(k) : Books'[k][i] = Books[k][i] /\ i \in DOMAIN alerts /\ alerts'[i] = alerts[i]
    BY <1>6 DEF IdsOf, Books, BookOf
  <1>9. ASSUME NEW i \in IdsOf(k) PROVE ~Book!Recent(k, Books[k][i]) /\ i < j
    <2>1. i \in DOMAIN alerts /\ alerts[i].rule = k[1] /\ alerts[i].entity = k[2] /\ i \in 1..(j - 1)
      BY <1>1, <1>2 DEF IdsOf
    <2>2. ~ /\ alerts'[i].rule = alerts'[j].rule /\ alerts'[i].entity = alerts'[j].entity
            /\ alerts'[i].closed = Null /\ alerts'[i].created >= now - Cooldown[alerts'[j].rule]
      BY <1>0, <1>2, <2>1, CommitInsertsNews
    <2>3. ~(alerts[i].closed = Null /\ alerts[i].created >= now - Cooldown[k[1]])
      BY <1>2, <1>6, <2>1, <2>2
    <2>4. Books[k][i] = [opened |-> alerts[i].created, closed |-> alerts[i].closed,
                         occurrences |-> alerts[i].occurrences]
      BY BookEntries
    <2>5. Books[k][i].opened = alerts[i].created /\ Books[k][i].closed = alerts[i].closed
      BY <2>4
    <2>6. ~Book!Recent(k, Books[k][i])
      BY <2>3, <2>5 DEF Book!Recent
    <2>7. i < j
      BY <1>1, <1>2, <2>1
    <2> QED BY <2>6, <2>7
  <1>10. begun[r] \in 0..now
    BY DEF MergesAreOnce, TypeOK, RunTypeOK, AlertTableTypeOK, Time
  <1>11. /\ DOMAIN Books[k] = IdsOf(k) /\ DOMAIN Books'[k] = IdsOf(k) \cup {j}
         /\ Books'[k] = [i \in IdsOf(k) \cup {j} |-> Books'[k][i]]
    BY <1>7 DEF Books, BookOf
  <1>12. j \notin IdsOf(k)
    BY DEF IdsOf
  <1>13. Books'[k] = [i \in DOMAIN Books[k] \cup {j} |-> IF i = j THEN Book!Entry(begun[r]) ELSE Books[k][i]]
    BY <1>4, <1>8, <1>11, <1>12
  <1> QED BY <1>9, <1>10, <1>11, <1>13 DEF Book!OpensAlert

LEMMA CommitAbsorbs ==
    ASSUME OnePassAtATime, TypeOK, MergesAreOnce, NEW r \in Runners, CommitSession(r),
           NEW k \in Rules \X Entities, IdsOf(k)' \subseteq DOMAIN alerts
    PROVE  Books'[k] = Books[k] \/ Book!Absorbs(k)
  <1>0. AlertTableTypeOK /\ RunTypeOK
    BY DEF TypeOK
  <1>1. \A i \in DOMAIN alerts :
           /\ i \in DOMAIN alerts' /\ alerts[i] \in AlertRow /\ alerts'[i] = MergedRow(r, i)
           /\ alerts'[i].rule = alerts[i].rule /\ alerts'[i].entity = alerts[i].entity
           /\ alerts'[i].created = alerts[i].created /\ alerts'[i].closed = alerts[i].closed
    BY <1>0, CommitSessionRows, CommitSessionEffect DEF AlertTableTypeOK
  <1>2. IdsOf(k)' = IdsOf(k)
    BY <1>1 DEF IdsOf
  <1>3. /\ DOMAIN Books[k] = IdsOf(k) /\ Books[k] = [i \in IdsOf(k) |-> Books[k][i]]
        /\ DOMAIN Books'[k] = IdsOf(k) /\ Books'[k] = [i \in IdsOf(k) |-> Books'[k][i]]
    BY <1>2 DEF Books, BookOf
  <1>4. ASSUME NEW i \in IdsOf(k)
        PROVE  /\ i \notin DOMAIN dirty[r] => Books'[k][i] = Books[k][i]
               /\ i \in DOMAIN dirty[r] =>
                     Books'[k][i] = [Books[k][i] EXCEPT !.occurrences = @ + 1]
    <2>1. i \in DOMAIN alerts /\ i \in IdsOf(k)'
      BY <1>2 DEF IdsOf
    <2>2. /\ Books[k][i] = [opened |-> alerts[i].created, closed |-> alerts[i].closed,
                            occurrences |-> alerts[i].occurrences]
          /\ Books'[k][i] = [opened |-> alerts'[i].created, closed |-> alerts'[i].closed,
                             occurrences |-> alerts'[i].occurrences]
      BY <2>1 DEF Books, BookOf
    <2>3. i \notin DOMAIN dirty[r] => alerts'[i].occurrences = alerts[i].occurrences
      BY <1>1, <2>1 DEF MergedRow
    <2>4. i \in DOMAIN dirty[r] => alerts'[i].occurrences = alerts[i].occurrences + 1
      <3> SUFFICES ASSUME i \in DOMAIN dirty[r] PROVE alerts'[i].occurrences = alerts[i].occurrences + 1
        OBVIOUS
      <3>1. dirty[r][i].occurrences = alerts[i].occurrences + 1
        BY DEF MergesAreOnce
      <3>2. MergedRow(r, i).occurrences = dirty[r][i].occurrences
        BY <1>1, <2>1 DEF MergedRow, AlertRow
      <3> QED BY <1>1, <2>1, <3>1, <3>2
    <2> QED BY <1>1, <2>1, <2>2, <2>3, <2>4
  <1>5. ASSUME NEW i \in IdsOf(k) \cap DOMAIN dirty[r] PROVE Book!Absorbs(k)
    <2>1. \A h \in IdsOf(k) \ {i} : h \notin DOMAIN dirty[r]
      BY DEF MergesAreOnce, IdsOf
    <2>2. Books'[k] = [Books[k] EXCEPT ![i] = [Books[k][i] EXCEPT !.occurrences = @ + 1]]
      BY <1>3, <1>4, <2>1
    <2> QED BY <1>3, <2>2 DEF Book!Absorbs
  <1>6. CASE IdsOf(k) \cap DOMAIN dirty[r] = {}
    BY <1>3, <1>4, <1>6
  <1> QED BY <1>5, <1>6

LEMMA RefineCommit ==
    ASSUME OnePassAtATime, TypeOK, IInv, PendingIsOrdered, MergesAreOnce, NeverCut,
           NEW r \in Runners, CommitSession(r), now' = now
    PROVE  Book!Next
  <1>1. ASSUME NEW k \in Rules \X Entities
        PROVE  Books'[k] = Books[k] \/ Book!OpensAlert(k) \/ Book!Absorbs(k)
    BY CommitOpens, CommitAbsorbs
  <1>2. DOMAIN Books' = Book!Keys
    BY DEF Books, Book!Keys
  <1> QED BY <1>1, <1>2 DEF Book!Next, Book!Report, Book!Keys

LEMMA RefineRequest ==
    ASSUME TypeOK, NEW a \in Analysts, Respond(a)
    PROVE  [Book!Next]_Book!vars
  <1>1. /\ now' = now /\ DOMAIN alerts' = DOMAIN alerts
        /\ \A i \in DOMAIN alerts :
              /\ alerts'[i].rule = alerts[i].rule /\ alerts'[i].entity = alerts[i].entity
              /\ alerts'[i].created = alerts[i].created
              /\ alerts'[i].occurrences = alerts[i].occurrences
    BY RequestOnBook
  <1>2. \A k \in Rules \X Entities : IdsOf(k)' = IdsOf(k)
    BY <1>1 DEF IdsOf
  <1>3. CASE \A i \in DOMAIN alerts : alerts'[i].closed = alerts[i].closed
    <2>1. \A k \in Rules \X Entities : BookOf(k)' = BookOf(k)
      BY <1>1, <1>2, <1>3 DEF BookOf, IdsOf
    <2>2. Books' = Books
      BY <2>1 DEF Books
    <2> QED BY <1>1, <2>2 DEF Book!vars
  <1>4. ASSUME NEW i \in DOMAIN alerts, NEW t \in 0..now, alerts'[i].closed = t,
               \A j \in DOMAIN alerts \ {i} : alerts'[j] = alerts[j]
        PROVE  Book!Close
    <2> DEFINE key == <<alerts[i].rule, alerts[i].entity>>
    <2>1. alerts[i] \in AlertRow
      BY DEF TypeOK, AlertTableTypeOK
    <2>2. key \in Rules \X Entities /\ key[1] = alerts[i].rule /\ key[2] = alerts[i].entity
      BY <2>1 DEF AlertRow
    <2>3. i \in IdsOf(key)
      BY <2>2 DEF IdsOf
    <2> HIDE DEF key
    <2>4. \A k \in Rules \X Entities : k # key => i \notin IdsOf(k)
      <3>1. \A k \in Rules \X Entities : k = <<k[1], k[2]>>
        OBVIOUS
      <3> QED BY <2>2, <3>1 DEF IdsOf, key
    <2>5. \A k \in Rules \X Entities : k # key => Books'[k] = Books[k]
      BY <1>2, <1>4, <2>4 DEF Books, BookOf, IdsOf
    <2>6. /\ Books[key] = [n \in IdsOf(key) |-> Books[key][n]]
          /\ Books'[key] = [n \in IdsOf(key) |-> Books'[key][n]]
          /\ \A n \in IdsOf(key) \ {i} : Books'[key][n] = Books[key][n]
      BY <1>2, <1>4, <2>2 DEF Books, BookOf, IdsOf
    <2>7. Books'[key][i] = [Books[key][i] EXCEPT !.closed = t]
      <3>1. /\ Books[key][i] = [opened |-> alerts[i].created, closed |-> alerts[i].closed,
                                occurrences |-> alerts[i].occurrences]
            /\ Books'[key][i] = [opened |-> alerts'[i].created, closed |-> alerts'[i].closed,
                                 occurrences |-> alerts'[i].occurrences]
        BY <1>2, <2>2, <2>3 DEF Books, BookOf
      <3> QED BY <1>1, <1>4, <3>1
    <2>8. Books'[key] = [Books[key] EXCEPT ![i] = [Books[key][i] EXCEPT !.closed = t]]
      BY <2>3, <2>6, <2>7
    <2>9. Books' = [Books EXCEPT ![key] = [Books[key] EXCEPT ![i] = [Books[key][i] EXCEPT !.closed = t]]]
      BY <2>2, <2>5, <2>8 DEF Books
    <2>10. i \in DOMAIN Books[key]
      BY <2>3, <2>6
    <2> QED BY <1>1, <2>2, <2>9, <2>10 DEF Book!Close, Book!Keys
  <1> QED BY <1>3, <1>4, RequestOnBook DEF Book!Next

LEMMA RefineStep ==
    ASSUME OnePassAtATime, TypeOK, IInv, PendingIsOrdered, MergesAreOnce, NeverCut, [Next]_vars
    PROVE  [Book!Next]_Book!vars
  <1>1. alerts' = alerts => Books' = Books
    BY DEF Books, BookOf, IdsOf
  <1>2. ASSUME NEW r \in Runners, Detect(r) PROVE [Book!Next]_Book!vars
    <2>1. now' = now /\ (alerts' = alerts \/ CommitSession(r))
      BY <1>2, RunStepsTable DEF Detect
    <2> QED BY <1>1, <2>1, RefineCommit DEF Book!vars
  <1>3. CASE \E a \in Analysts : Respond(a)
    BY <1>3, RefineRequest
  <1>4. CASE Tick
    <2>1. now' = now + 1 /\ Books' = Books
      BY <1>1, <1>4 DEF Tick
    <2> QED BY <2>1 DEF Book!Next, Book!Tick
  <1>5. CASE UNCHANGED vars
    BY <1>1, <1>5 DEF vars, Book!vars
  <1> QED BY <1>2, <1>3, <1>4, <1>5 DEF Next

(* README.md:142 as a specification of its own: passes that follow one     *)
(* another, over rules declared once and queries that are not cut,         *)
(* implement the book, with sessions, failures, crashes and analysts.      *)
THEOREM BookIsImplemented ==
    ASSUME OnePassAtATime, DistinctRules
    PROVE  Spec /\ []NeverCut => ImplementsBook
  <1>1. Init => Book!Init /\ MergesAreOnce
    <2> SUFFICES ASSUME Init PROVE Book!Init /\ MergesAreOnce
      OBVIOUS
    <2>1. DOMAIN alerts = {} /\ now = 0
      BY DEF Init
    <2>2. Book!Init
      BY <2>1 DEF Book!Init, Book!Keys, Books, BookOf, IdsOf
    <2>3. \A r \in Runners : DOMAIN dirty[r] = {} /\ begun[r] <= now
      BY NoMergesType DEF Init, RunInit
    <2> QED BY <2>2, <2>3 DEF MergesAreOnce
  <1>2. TypeOK /\ PendingIsOrdered /\ MergesAreOnce /\ [Next]_vars => MergesAreOnce'
    BY OnceStep
  <1>3. TypeOK /\ IInv /\ PendingIsOrdered /\ MergesAreOnce /\ NeverCut /\ [Next]_vars
           => [Book!Next]_Book!vars
    BY RefineStep
  <1> QED BY <1>1, <1>2, <1>3, InvariantHolds, OrderHolds, PTL DEF Spec, ImplementsBook, Book!Spec

-----------------------------------------------------------------------------
(***************************************************************************)
(* AlertSla: a "met" badge is earned, for any number of passes, requests,  *)
(* alerts and targets. The alerts behave as AlertEngine, whose theorems    *)
(* carry over; the invariant added here compares the stamps, which a       *)
(* request computes from a row it read earlier, with the requests that     *)
(* moved the alert out of "open" and closed it.                            *)
(***************************************************************************)
SlaTypeOK ==
    /\ sla.ack \in [SLA_SEVERITIES -> 0..MAX_SLA_MINUTES]
    /\ sla.close \in [SLA_SEVERITIES -> 0..MAX_SLA_MINUTES]
    /\ DOMAIN left = DOMAIN alerts /\ DOMAIN shut = DOMAIN alerts

(* The history is no later than the stamps.                                *)
StampedNoEarlier ==
    \A i \in DOMAIN alerts :
        /\ left[i] \in Stamp /\ shut[i] \in Stamp
        /\ alerts[i].acked # Null => left[i] # Null /\ left[i] <= alerts[i].acked
        /\ alerts[i].closed # Null => shut[i] # Null /\ shut[i] <= alerts[i].closed

SlaInv == SlaTypeOK /\ StampedNoEarlier

(* The targets aside, the system is AlertEngine.                           *)
THEOREM SlaIsEngine == SlaSpec => Spec
  <1>1. SlaInit => Init
    BY DEF SlaInit
  <1>2. [SlaNext]_<<vars, slaVars>> => [Next]_vars
    BY DEF SlaNext, PatchSla
  <1> QED BY <1>1, <1>2, PTL DEF SlaSpec, Spec

LEMMA SlaInvInit == SlaInit => SlaInv
  BY TargetMinutesAssumption
     DEF SlaInit, Init, SlaInv, SlaTypeOK, StampedNoEarlier

LEMMA PatchKeepsRange ==
    ASSUME NEW raw, NEW base \in [SLA_SEVERITIES -> 0..MAX_SLA_MINUTES], Acceptable(raw)
    PROVE  Normalized(raw, base) \in [SLA_SEVERITIES -> 0..MAX_SLA_MINUTES]
  BY DEF Acceptable, Normalized

LEMMA PatchStep ==
    ASSUME SlaInv, NEW ack \in SlaBodies, NEW close \in SlaBodies, PatchSla(ack, close)
    PROVE  SlaInv'
  <1>1. /\ UNCHANGED <<alerts, now, left, shut>>
        /\ sla' = IF ~Acceptable(ack) THEN sla
                  ELSE [ack |-> Normalized(ack, sla.ack),
                        close |-> IF Acceptable(close) THEN Normalized(close, sla.close)
                                  ELSE sla.close]
    BY DEF PatchSla, vars
  <1>2. /\ sla'.ack \in [SLA_SEVERITIES -> 0..MAX_SLA_MINUTES]
        /\ sla'.close \in [SLA_SEVERITIES -> 0..MAX_SLA_MINUTES]
    BY <1>1, PatchKeepsRange DEF SlaInv, SlaTypeOK
  <1> QED BY <1>1, <1>2 DEF SlaInv, SlaTypeOK, StampedNoEarlier

LEMMA LeastOf ==
    ASSUME NEW S \in SUBSET Nat, S # {}
    PROVE  LET least == CHOOSE t \in S : \A u \in S : t <= u
           IN  least \in S /\ \A u \in S : least <= u
  <1> DEFINE R == { ss \in Nat \X Nat : ss[1] < ss[2] }
  <1>1. \A t, u \in S : u < t => <<u, t>> \in R
    OBVIOUS
  <1>2. IsWellFoundedOn(R, Nat)
    BY NatLessThanWellFounded DEF OpToRel
  <1> HIDE DEF R
  <1>3. PICK t \in S : \A u \in S : ~(<<u, t>> \in R)
    BY <1>2, WFMin
  <1>4. \A u \in S : ~(u < t)
    BY <1>1, <1>3
  <1>5. \A u \in S : t \in Nat /\ u \in Nat
    OBVIOUS
  <1>6. \A u \in S : t <= u
    BY <1>4, <1>5
  <1> QED BY <1>6

(* What the history becomes: it goes back to every request that counts.    *)
LEMMA HistoryIs ==
    ASSUME TypeOK, NEW statuses, NEW asked,
           \A i \in DOMAIN asked : asked[i] \in Stamp, NEW i \in DOMAIN alerts'
    PROVE  /\ FirstAsked(asked, statuses)[i] \in Stamp
           /\ i \in DOMAIN asked /\ asked[i] # Null =>
                 FirstAsked(asked, statuses)[i] # Null /\ FirstAsked(asked, statuses)[i] <= asked[i]
           /\ \A a \in Served(i) : req[a].target \in statuses =>
                 /\ FirstAsked(asked, statuses)[i] # Null
                 /\ FirstAsked(asked, statuses)[i] <= req[a].begun
  <1> DEFINE by == { a \in Served(i) : req[a].target \in statuses }
             before == { asked[j] : j \in {i} \cap DOMAIN asked } \ {Null}
             times == { req[a].begun : a \in by } \cup before
             first == FirstAsked(asked, statuses)[i]
  <1>1. \A a \in Served(i) : req[a].begun \in Nat
    BY DEF Served, TypeOK, WorkflowTypeOK, Loaded, Time
  <1>2. times \in SUBSET Nat
    BY <1>1 DEF Stamp, Time
  <1>3. first = IF times = {} THEN Null ELSE CHOOSE t \in times : \A u \in times : t <= u
    BY DEF FirstAsked
  <1>4. /\ \A a \in by : req[a].begun \in times
        /\ i \in DOMAIN asked /\ asked[i] # Null => asked[i] \in times
    OBVIOUS
  <1> HIDE DEF times, first
  <1>5. CASE times = {}
    BY <1>3, <1>4, <1>5 DEF first, Stamp
  <1>6. CASE times # {}
    <2>1. first \in times /\ \A u \in times : first <= u
      BY <1>2, <1>3, <1>6, LeastOf
    <2>2. first \in Stamp /\ first # Null
      BY <1>2, <2>1 DEF Stamp, Time, Null
    <2> QED BY <1>4, <2>1, <2>2 DEF first
  <1> QED BY <1>5, <1>6

(* What a step of the engine does to a row: a stamp that changes is one    *)
(* taken by a request since it began, which moves the alert out of "open", *)
(* or closes it.                                                           *)
RowStep(i) ==
    /\ i \in DOMAIN alerts' /\ alerts'[i].rule = alerts[i].rule
    /\ alerts'[i].created = alerts[i].created
    /\ \/ alerts'[i].acked = alerts[i].acked
       \/ \E a \in Served(i) : /\ req[a].target \in ALERT_STATUSES \ {"open"}
                               /\ alerts'[i].acked \in Nat /\ req[a].begun <= alerts'[i].acked
    /\ \/ alerts'[i].closed = alerts[i].closed
       \/ \E a \in Served(i) : /\ req[a].target \in {"closed"}
                               /\ alerts'[i].closed \in Nat /\ req[a].begun <= alerts'[i].closed

NewRow(i) ==
    alerts'[i].status = "open" /\ alerts'[i].acked = Null /\ alerts'[i].closed = Null

LEMMA EngineRows ==
    ASSUME TypeOK, IInv, Next
    PROVE  /\ now' \in Nat /\ now <= now' /\ now \in Nat
           /\ \A i \in DOMAIN alerts : RowStep(i)
           /\ \A i \in DOMAIN alerts' \ DOMAIN alerts : NewRow(i)
  <1>0. now \in Nat /\ AlertTableTypeOK /\ RunTypeOK /\ WorkflowTypeOK
    BY DEF TypeOK, AlertTableTypeOK, Time
  <1>1. ASSUME alerts' = alerts
        PROVE  /\ \A i \in DOMAIN alerts : RowStep(i)
               /\ \A i \in DOMAIN alerts' \ DOMAIN alerts : NewRow(i)
    BY <1>1 DEF RowStep
  <1>2. ASSUME NEW r \in Runners, CommitSession(r)
        PROVE  /\ \A i \in DOMAIN alerts : RowStep(i)
               /\ \A i \in DOMAIN alerts' \ DOMAIN alerts : NewRow(i)
    BY <1>0, <1>2, CommitSessionEffect DEF RowStep, NewRow
  <1>3. ASSUME NEW a \in Analysts, CommitStatus(a)
        PROVE  /\ \A i \in DOMAIN alerts : RowStep(i)
               /\ \A i \in DOMAIN alerts' \ DOMAIN alerts : NewRow(i)
    <2> DEFINE read == req[a]
               i == read.alert
    <2>a. PICK at \in Time :
                /\ read.begun <= at /\ at <= now
                /\ alerts'[i] = ApplyAlertStatus(alerts[i], read, read.target, at)
      BY <1>0, <1>3, CommitStatusEffect
    <2>1. /\ read \in Loaded /\ i \in DOMAIN alerts /\ alerts[i] \in AlertRow
          /\ DOMAIN alerts' = DOMAIN alerts
          /\ \A j \in DOMAIN alerts \ {i} : alerts'[j] = alerts[j]
      BY <1>0, <1>3, CommitStatusEffect DEF AlertTableTypeOK
    <2>2. alerts' # alerts => a \in Served(i)
      BY <1>0, <1>3 DEF CommitStatus, Served, WorkflowTypeOK
    <2> HIDE DEF read
    <2>3. /\ alerts'[i].rule = alerts[i].rule /\ alerts'[i].created = alerts[i].created
          /\ alerts'[i].status = IF read.target = read.status THEN alerts[i].status ELSE read.target
          /\ alerts'[i].acked = IF AckedAfter(read, read.target, at) = read.acked
                                THEN alerts[i].acked ELSE AckedAfter(read, read.target, at)
          /\ alerts'[i].closed = IF ClosedAfter(read, read.target, at) = read.closed
                                 THEN alerts[i].closed ELSE ClosedAfter(read, read.target, at)
      BY <2>a, <2>1 DEF ApplyAlertStatus, AlertRow
    <2>4. /\ alerts'[i].acked # alerts[i].acked =>
                alerts'[i].acked = at /\ read.target \in ALERT_STATUSES \ {"open"}
          /\ alerts'[i].closed # alerts[i].closed =>
                alerts'[i].closed = at /\ read.target = "closed"
      BY <2>1, <2>3 DEF AckedAfter, ClosedAfter, Loaded
    <2>6. RowStep(i)
      BY <2>a, <2>1, <2>2, <2>3, <2>4 DEF RowStep, Time, read
    <2>5. \A j \in DOMAIN alerts \ {i} : RowStep(j)
      BY <2>1 DEF RowStep
    <2> QED BY <2>1, <2>5, <2>6
  <1>4. ASSUME NEW r \in Runners, Detect(r)
        PROVE  now' = now /\ (alerts' = alerts \/ CommitSession(r))
    BY <1>4, RunStepsTable DEF Detect
  <1>5. ASSUME NEW a \in Analysts, Respond(a)
        PROVE  now' = now /\ (alerts' = alerts \/ CommitStatus(a))
    BY <1>5 DEF Respond, WorkflowNext, LoadAlert, DropRequest
  <1>6. CASE Tick
    BY <1>0, <1>1, <1>6 DEF Tick
  <1> QED BY <1>0, <1>1, <1>2, <1>3, <1>4, <1>5, <1>6 DEF Next

LEMMA EngineStep ==
    ASSUME TypeOK, TypeOK', IInv, SlaInv, Next,
           left' = FirstAsked(left, ALERT_STATUSES \ {"open"}),
           shut' = FirstAsked(shut, {"closed"}), sla' = sla
    PROVE  SlaInv'
  <1>1. /\ now' \in Nat /\ now <= now' /\ now \in Nat
        /\ \A i \in DOMAIN alerts : RowStep(i)
        /\ \A i \in DOMAIN alerts' \ DOMAIN alerts : NewRow(i)
    BY EngineRows
  <1>2. /\ DOMAIN left' = DOMAIN alerts' /\ DOMAIN shut' = DOMAIN alerts'
        /\ \A i \in DOMAIN alerts : left[i] \in Stamp /\ shut[i] \in Stamp
        /\ DOMAIN left = DOMAIN alerts /\ DOMAIN shut = DOMAIN alerts
    BY DEF FirstAsked, SlaInv, SlaTypeOK, StampedNoEarlier
  <1>3. SlaTypeOK'
    BY <1>2 DEF SlaInv, SlaTypeOK
  <1>4. ASSUME NEW i \in DOMAIN alerts' \ DOMAIN alerts
        PROVE  /\ left'[i] \in Stamp /\ shut'[i] \in Stamp
               /\ alerts'[i].acked = Null /\ alerts'[i].closed = Null
    BY <1>1, <1>2, <1>4, HistoryIs DEF NewRow
  <1>5. ASSUME NEW i \in DOMAIN alerts
        PROVE  /\ left'[i] \in Stamp /\ shut'[i] \in Stamp
               /\ alerts'[i].acked # Null => left'[i] # Null /\ left'[i] <= alerts'[i].acked
               /\ alerts'[i].closed # Null => shut'[i] # Null /\ shut'[i] <= alerts'[i].closed
    <2>0. alerts[i] \in AlertRow
      BY DEF TypeOK, AlertTableTypeOK
    <2>1. /\ alerts[i].acked \in Stamp /\ alerts[i].closed \in Stamp
          /\ alerts[i].acked # Null => left[i] # Null /\ left[i] <= alerts[i].acked
          /\ alerts[i].closed # Null => shut[i] # Null /\ shut[i] <= alerts[i].closed
      BY <2>0 DEF SlaInv, StampedNoEarlier, AlertRow
    <2>2. /\ RowStep(i) /\ i \in DOMAIN alerts'
          /\ \A a \in Served(i) : req[a].begun \in Nat
      BY <1>1 DEF RowStep, Served, TypeOK, WorkflowTypeOK, Loaded, Time
    <2>3. /\ left'[i] \in Stamp /\ shut'[i] \in Stamp
          /\ left[i] # Null => left'[i] # Null /\ left'[i] <= left[i]
          /\ shut[i] # Null => shut'[i] # Null /\ shut'[i] <= shut[i]
          /\ \A a \in Served(i) : req[a].target \in ALERT_STATUSES \ {"open"} =>
                left'[i] # Null /\ left'[i] <= req[a].begun
          /\ \A a \in Served(i) : req[a].target \in {"closed"} =>
                shut'[i] # Null /\ shut'[i] <= req[a].begun
      BY <1>2, <2>2, HistoryIs
    <2>4. alerts'[i].acked # Null => left'[i] # Null /\ left'[i] <= alerts'[i].acked
      <3>1. CASE alerts'[i].acked = alerts[i].acked
        BY <1>2, <2>1, <2>3, <3>1 DEF Stamp, Time, Null
      <3>2. ASSUME NEW a \in Served(i), req[a].target \in ALERT_STATUSES \ {"open"},
                   alerts'[i].acked \in Nat, req[a].begun <= alerts'[i].acked
            PROVE  left'[i] # Null /\ left'[i] <= alerts'[i].acked
        BY <2>2, <2>3, <3>2 DEF Stamp, Time, Null
      <3> QED BY <2>2, <3>1, <3>2 DEF RowStep
    <2>5. alerts'[i].closed # Null => shut'[i] # Null /\ shut'[i] <= alerts'[i].closed
      BY <1>2, <2>1, <2>2, <2>3 DEF RowStep, Stamp, Time, Null
    <2> QED BY <2>3, <2>4, <2>5
  <1>6. StampedNoEarlier'
    BY <1>4, <1>5 DEF StampedNoEarlier
  <1> QED BY <1>3, <1>6 DEF SlaInv

LEMMA SlaInvStep == TypeOK /\ TypeOK' /\ IInv /\ SlaInv /\ [SlaNext]_<<vars, slaVars>> => SlaInv'
  <1>1. CASE UNCHANGED <<vars, slaVars>>
    BY <1>1 DEF vars, slaVars, SlaInv, SlaTypeOK, StampedNoEarlier
  <1> QED BY <1>1, PatchStep, EngineStep DEF SlaNext

-----------------------------------------------------------------------------
LEMMA BadgeIsEarned ==
    ASSUME NEW target \in Nat, NEW start \in Nat, NEW done \in Stamp, NEW t \in Nat,
           StatusFor(target, start, done, t) = "met"
    PROVE  done # Null /\ done <= start + target
  BY DEF StatusFor, Stamp, Time, Null

(* A badge that says "met" is earned (sla.py:97-98, 140-148).              *)
THEOREM MetIsEarned == SlaSpec => []MetWasInTime
  <1>1. TypeOK /\ IInv /\ SlaInv => MetWasInTime
    <2> SUFFICES ASSUME TypeOK, IInv, SlaInv, NEW i \in DOMAIN alerts
                 PROVE  /\ SlaAck(i) = "met" => left[i] # Null /\ left[i] <= AckDue(i)
                        /\ SlaClose(i) = "met" => shut[i] # Null /\ shut[i] <= CloseDue(i)
      BY DEF MetWasInTime
    <2>1. alerts[i] \in AlertRow /\ now \in Nat /\ Sev(i) \in SLA_SEVERITIES
      BY DEF TypeOK, AlertTableTypeOK, Time, Sev, SLA_SEVERITIES
    <2>2. /\ alerts[i].created \in Nat /\ alerts[i].acked \in Stamp /\ alerts[i].closed \in Stamp
          /\ sla.ack[Sev(i)] \in Nat /\ sla.close[Sev(i)] \in Nat
      BY <2>1, TargetMinutesAssumption DEF AlertRow, Time, SlaInv, SlaTypeOK
    <2>3. /\ alerts[i].status # "open" => alerts[i].acked # Null
          /\ alerts[i].status = "closed" => alerts[i].closed # Null
          /\ left[i] \in Stamp /\ shut[i] \in Stamp
          /\ alerts[i].acked # Null => left[i] # Null /\ left[i] <= alerts[i].acked
          /\ alerts[i].closed # Null => shut[i] # Null /\ shut[i] <= alerts[i].closed
      BY DEF IInv, StatusIsStamped, SlaInv, StampedNoEarlier
    <2>4. ASSUME SlaAck(i) = "met" PROVE left[i] # Null /\ left[i] <= AckDue(i)
      <3>1. AckDone(i) \in Stamp /\ (AckDone(i) # Null => AckDone(i) = alerts[i].acked)
        BY <2>2, <2>3 DEF AckDone, Stamp
      <3>2. AckDone(i) # Null /\ AckDone(i) <= AckDue(i)
        BY <2>1, <2>2, <2>4, <3>1, BadgeIsEarned DEF SlaAck, AckDue
      <3> QED BY <2>2, <2>3, <3>1, <3>2 DEF AckDue, Stamp, Time, Null
    <2>5. ASSUME SlaClose(i) = "met" PROVE shut[i] # Null /\ shut[i] <= CloseDue(i)
      <3>1. CloseDone(i) \in Stamp /\ (CloseDone(i) # Null => CloseDone(i) = alerts[i].closed)
        BY <2>2, <2>3 DEF CloseDone, Stamp
      <3>2. CloseDone(i) # Null /\ CloseDone(i) <= CloseDue(i)
        BY <2>1, <2>2, <2>5, <3>1, BadgeIsEarned DEF SlaClose, CloseDue
      <3> QED BY <2>2, <2>3, <3>1, <3>2 DEF CloseDue, Stamp, Time, Null
    <2> QED BY <2>4, <2>5
  <1> QED BY <1>1, SlaInvInit, SlaInvStep, SlaIsEngine, InvariantHolds, PTL DEF SlaSpec

(* No step makes "met" of what was past due, except the commit of a        *)
(* request that was there by then and one that acknowledges or closes      *)
(* again what had been in time (sla.py:97-101, 140-148, main.py:240, 951). *)
THEOREM BreachesStand == SlaSpec => BreachStands
  <1> DEFINE Stands(i) ==
        /\ SlaAck(i) = "breached" /\ now > AckDue(i) /\ SlaAck(i)' = "met" =>
               \/ alerts[i].acked # Null /\ alerts[i].acked <= AckDue(i)
               \/ LateCommit(i, AckDue(i))
        /\ SlaClose(i) = "breached" /\ now > CloseDue(i) /\ SlaClose(i)' = "met" =>
               \/ alerts[i].closed # Null /\ alerts[i].closed <= CloseDue(i)
               \/ LateCommit(i, CloseDue(i))
      Stand == sla' = sla => \A i \in DOMAIN alerts : Stands(i)
  <1>1. ASSUME TypeOK, IInv, SlaInv, TypeOK', IInv', SlaInv', Next, sla' = sla,
               NEW i \in DOMAIN alerts
        PROVE  Stands(i)
    <2>1. RowStep(i) /\ now \in Nat /\ now' \in Nat
      BY <1>1, EngineRows
    <2>2. i \in DOMAIN alerts' /\ Sev(i)' = Sev(i) /\ AckDue(i)' = AckDue(i) /\ CloseDue(i)' = CloseDue(i)
      BY <1>1, <2>1 DEF RowStep, Sev, AckDue, CloseDue
    <2>3. alerts[i] \in AlertRow /\ alerts'[i] \in AlertRow /\ Sev(i) \in SLA_SEVERITIES
      BY <1>1, <2>2 DEF TypeOK, AlertTableTypeOK, Sev, SLA_SEVERITIES
    <2>4. /\ alerts'[i].created \in Nat /\ alerts'[i].acked \in Stamp /\ alerts'[i].closed \in Stamp
          /\ alerts[i].acked \in Stamp /\ alerts[i].closed \in Stamp /\ alerts[i].created \in Nat
          /\ sla.ack[Sev(i)] \in Nat /\ sla.close[Sev(i)] \in Nat
      BY <1>1, <2>3, TargetMinutesAssumption DEF AlertRow, Time, SlaInv, SlaTypeOK
    <2>5. /\ alerts'[i].status # "open" => alerts'[i].acked # Null
          /\ alerts'[i].status = "closed" => alerts'[i].closed # Null
      BY <1>1, <2>2 DEF IInv, StatusIsStamped
    <2>6. ASSUME now > AckDue(i), SlaAck(i)' = "met"
          PROVE  \/ alerts[i].acked # Null /\ alerts[i].acked <= AckDue(i)
                 \/ LateCommit(i, AckDue(i))
      <3>1. AckDone(i)' \in Stamp /\ (AckDone(i)' # Null => AckDone(i)' = alerts'[i].acked)
        BY <2>4, <2>5 DEF AckDone, Stamp
      <3>2. StatusFor(sla.ack[Sev(i)], alerts'[i].created, AckDone(i)', now') = "met"
        BY <1>1, <2>2, <2>6 DEF SlaAck
      <3>3. AckDone(i)' # Null /\ AckDone(i)' <= alerts'[i].created + sla.ack[Sev(i)]
        BY <2>1, <2>4, <3>1, <3>2, BadgeIsEarned
      <3>4. AckDue(i) = alerts'[i].created + sla.ack[Sev(i)] /\ AckDue(i) \in Nat
        BY <2>1, <2>4 DEF AckDue, RowStep
      <3>5. \A a \in Served(i) : req[a].begun \in Nat
        BY <1>1 DEF Served, TypeOK, WorkflowTypeOK, Loaded, Time
      <3> QED BY <2>1, <3>1, <3>3, <3>4, <3>5 DEF RowStep, LateCommit
    <2>7. ASSUME now > CloseDue(i), SlaClose(i)' = "met"
          PROVE  \/ alerts[i].closed # Null /\ alerts[i].closed <= CloseDue(i)
                 \/ LateCommit(i, CloseDue(i))
      <3>1. CloseDone(i)' \in Stamp /\ (CloseDone(i)' # Null => CloseDone(i)' = alerts'[i].closed)
        BY <2>4, <2>5 DEF CloseDone, Stamp
      <3>2. StatusFor(sla.close[Sev(i)], alerts'[i].created, CloseDone(i)', now') = "met"
        BY <1>1, <2>2, <2>7 DEF SlaClose
      <3>3. CloseDone(i)' # Null /\ CloseDone(i)' <= alerts'[i].created + sla.close[Sev(i)]
        BY <2>1, <2>4, <3>1, <3>2, BadgeIsEarned
      <3>4. CloseDue(i) = alerts'[i].created + sla.close[Sev(i)] /\ CloseDue(i) \in Nat
        BY <2>1, <2>4 DEF CloseDue, RowStep
      <3>5. \A a \in Served(i) : req[a].begun \in Nat
        BY <1>1 DEF Served, TypeOK, WorkflowTypeOK, Loaded, Time
      <3> QED BY <2>1, <3>1, <3>3, <3>4, <3>5 DEF RowStep, LateCommit
    <2> QED BY <2>6, <2>7
  <1>2. ASSUME NEW ack \in SlaBodies, NEW close \in SlaBodies, PatchSla(ack, close)
        PROVE  Stand
    <2>1. alerts' = alerts /\ now' = now
      BY <1>2 DEF PatchSla, vars
    <2> SUFFICES ASSUME sla' = sla, NEW i \in DOMAIN alerts PROVE Stands(i)
      OBVIOUS
    <2>2. SlaAck(i)' = SlaAck(i) /\ SlaClose(i)' = SlaClose(i)
      BY <2>1 DEF SlaAck, SlaClose, Sev, AckDone, CloseDone
    <2> QED BY <2>2
  <1>3. TypeOK /\ IInv /\ SlaInv /\ (TypeOK /\ IInv /\ SlaInv)' /\ [SlaNext]_<<vars, slaVars>>
           => [Stand]_<<vars, slaVars>>
    <2> HIDE DEF Stands
    <2> QED BY <1>1, <1>2 DEF SlaNext
  <1> QED BY <1>3, SlaInvInit, SlaInvStep, SlaIsEngine, InvariantHolds, PTL DEF SlaSpec, BreachStands
=============================================================================
