----------------------------- MODULE AlertEngine -----------------------------
(***************************************************************************)
(* The alerts of the SIEM under all their writers: detection passes        *)
(* (RuleRuns) and analysts' requests (AlertWorkflow) over one table        *)
(* (AlertTable), with the clock running in between.                        *)
(***************************************************************************)
EXTENDS RuleRuns, AlertWorkflow

CONSTANT MaxTime    \* bound: minutes the clock advances

ASSUME MaxTimeAssumption == MaxTime \in Nat

vars == <<alerts, now, runVars, workflowVars>>

Init ==
    /\ alerts = <<>> /\ now = 0
    /\ RunInit
    /\ WorkflowInit

Detect(r) == RunNext(r) /\ UNCHANGED <<now, workflowVars>>
Respond(a) == WorkflowNext(a) /\ UNCHANGED <<now, runVars>>
Tick == now < MaxTime /\ now' = now + 1 /\ UNCHANGED <<alerts, runVars, workflowVars>>

Next ==
    \/ \E r \in Runners : Detect(r)
    \/ \E a \in Analysts : Respond(a)
    \/ Tick

Spec == Init /\ [][Next]_vars

(* A pass that started runs to its end: the loop is a task of the event    *)
(* loop and the endpoint a thread, both always scheduled. Nothing obliges  *)
(* a pass to start, a request to arrive or a rule to match.                *)
FairSpec == Spec /\ \A r \in Runners :
                WF_vars(RunStep(r) /\ UNCHANGED <<now, workflowVars>>)

-----------------------------------------------------------------------------
TypeOK ==
    /\ AlertTableTypeOK
    /\ RunTypeOK
    /\ WorkflowTypeOK

(* An alert that has left "open" at least once has its acked_at and one    *)
(* that is closed its closed_at, whatever requests interleave on stale     *)
(* reads: compute_alert_sla falls back to created_at and to the current    *)
(* time when they are missing (main.py:241-244, sla.py:140-148).           *)
StatusIsStamped ==
    \A i \in DOMAIN alerts :
        /\ alerts[i].status # "open" => alerts[i].acked # Null
        /\ alerts[i].status = "closed" => alerts[i].closed # Null

(* Every status an alert has left its initial "open" for is explained by   *)
(* an audit row, committed with it (main.py:229-239).                      *)
StatusIsAudited ==
    \A i \in DOMAIN alerts :
        alerts[i].status # "open" =>
            \E n \in DOMAIN audit : audit[n].alert = i /\ audit[n].to = alerts[i].status

(* The webhook is called at most once for an alert, however many passes    *)
(* merge into it, and only for one that is in the table: a rolled-back     *)
(* alert was never announced (rules_engine.py:514-520).                    *)
NotifiedOnce ==
    \A m, n \in DOMAIN posts : posts[m] = posts[n] => m = n

(* An alert waiting in a session to be inserted has no committed namesake  *)
(* in its cooldown that the pass could have merged it into, unless an      *)
(* analyst closed that one or the query was cut at its LIMIT; it stays so  *)
(* while other passes commit and analysts reopen alerts                    *)
(* (rules_engine.py:93-121).                                               *)
IsRepeat(i, f, t) ==
    /\ alerts[i].rule = f.rule /\ alerts[i].entity = f.entity
    /\ alerts[i].closed = Null
    /\ alerts[i].created >= t - Cooldown[f.rule]

PendingIsNews ==
    \A r \in Runners : \A k \in DOMAIN fresh[r] :
        LET f == fresh[r][k]
        IN  f.truncated \/ \A i \in 1..f.seen : ~IsRepeat(i, f, now)

(* The count an analyst reads in evidence.occurrences is the number of     *)
(* detections committed into the alert (rules_engine.py:124-127). Holds    *)
(* when passes do not overlap.                                             *)
OccurrencesCounted ==
    \A i \in DOMAIN alerts : alerts[i].occurrences = alerts[i].hits

-----------------------------------------------------------------------------
(* What makes the invariants above inductive: what a request has read is   *)
(* consistent and no more stamped than the row is by now; the alerts the   *)
(* passes still have to announce are theirs alone and not announced yet.   *)
ReadsAreOld ==
    \A a \in Analysts : req[a] # None =>
        /\ req[a].status # "open" => req[a].acked # Null
        /\ req[a].status = "closed" => req[a].closed # Null
        /\ req[a].acked # Null => alerts[req[a].alert].acked # Null
        /\ req[a].closed # Null => alerts[req[a].alert].closed # Null

SeenIsCommitted ==
    \A r \in Runners : \A k \in DOMAIN fresh[r] : fresh[r][k].seen <= Len(alerts)

ToAnnounce(r) == created[r] \cup queue[r]

AnnouncementsAreOwned ==
    \A r \in Runners :
        /\ created[r] \cap queue[r] = {}
        /\ \A q \in Runners \ {r} : ToAnnounce(r) \cap ToAnnounce(q) = {}
        /\ \A n \in DOMAIN posts : posts[n] \notin ToAnnounce(r)

IInv ==
    /\ StatusIsStamped /\ ReadsAreOld
    /\ PendingIsNews /\ SeenIsCommitted
    /\ NotifiedOnce /\ AnnouncementsAreOwned

(* When passes follow one another, a merged count is that of the row and   *)
(* the merges of the session, and the pending alerts are those of earlier  *)
(* rules, decided on the table as it still is.                             *)
OnePassAtATime == \A q, r \in Runners : q = r
DistinctRules == \A m, n \in DOMAIN RuleFiles : RuleFiles[m] = RuleFiles[n] => m = n

MergesAreCounted ==
    \A r \in Runners : \A i \in DOMAIN dirty[r] :
        dirty[r][i].occurrences = alerts[i].occurrences + dirty[r][i].n

PendingIsOrdered ==
    \A r \in Runners :
        /\ pc[r] # "eval" => fresh[r] = <<>>
        /\ \A k \in DOMAIN fresh[r] :
              /\ fresh[r][k].seen = Len(alerts)
              /\ \E n \in 1..(slot[r] - 1) : fresh[r][k].rule = RuleFiles[n]
              /\ \A l \in DOMAIN fresh[r] : fresh[r][k].rule = fresh[r][l].rule => k = l

(* No query of a pass has been cut at its LIMIT.                           *)
NeverCut == \A r \in Runners : \A k \in DOMAIN fresh[r] : ~fresh[r][k].truncated

-----------------------------------------------------------------------------
(* A detection pass changes nothing of an existing alert but its evidence; *)
(* a merge decided before an analyst's request commits does not undo it    *)
(* (rules_engine.py:124-140, UPDATE of changed columns only).              *)
MergeKeepsWorkflow ==
    [][workflowVars' = workflowVars =>
         \A i \in DOMAIN alerts :
            /\ alerts'[i].status = alerts[i].status
            /\ alerts'[i].acked = alerts[i].acked
            /\ alerts'[i].closed = alerts[i].closed]_vars

(* A timestamp of the workflow, once set, is never cleared: SLA accounting *)
(* survives requests that read the row before it was set                   *)
(* (main.py:241-244).                                                      *)
StampsStay ==
    [][\A i \in DOMAIN alerts :
         /\ alerts[i].acked # Null => alerts'[i].acked # Null
         /\ alerts[i].closed # Null => alerts'[i].closed # Null]_vars

(* README.md:142: a detection of the same rule and entity within           *)
(* cooldown_minutes is merged, not a new alert. Every row a commit inserts *)
(* has no open, recent namesake, in the table or in the same commit.       *)
NoDuplicateAlert ==
    [][\A j \in DOMAIN alerts' \ DOMAIN alerts :
         \A i \in 1..(j - 1) :
            ~ /\ alerts'[i].rule = alerts'[j].rule
              /\ alerts'[i].entity = alerts'[j].entity
              /\ alerts'[i].closed = Null
              /\ alerts'[i].created >= now - Cooldown[alerts'[j].rule]]_vars

(* docs/architecture.md:78: closed_at is set when the alert is closed, by  *)
(* the request that does it.                                               *)
ClosedAtStampsClose ==
    [][\A i \in DOMAIN alerts :
         alerts[i].status # "closed" /\ alerts'[i].status = "closed" =>
            \E a \in Analysts : /\ req[a] # None /\ req'[a] = None
                               /\ alerts'[i].closed \in req[a].begun..now]_vars

(* An alert severe enough for the webhook is announced, unless an analyst  *)
(* takes it up first; only a pass that fails or is lost in a crash can     *)
(* leave one unannounced (rules_engine.py:514-520).                        *)
Announced(i) == \E n \in DOMAIN posts : posts[n] = i
TakenUp(i) == i \in DOMAIN alerts /\ alerts[i].acked # Null
IsLoud(i) == i \in DOMAIN alerts /\ alerts[i].rule \in Loud

LoudAlertIsAnnounced ==
    \A i \in 1..(MaxRuns * Len(RuleFiles)) :
        IsLoud(i) ~> Announced(i) \/ TakenUp(i) \/ fails + crashes > 0

(* README.md:113 makes no exception for failures: the webhook is called    *)
(* for each alert opened at or above the threshold.                        *)
EveryLoudAlertIsAnnounced ==
    \A i \in 1..(MaxRuns * Len(RuleFiles)) : IsLoud(i) ~> Announced(i) \/ TakenUp(i)
=============================================================================
