---------------------------- MODULE AlertWorkflow ----------------------------
(***************************************************************************)
(* The analysts' side of an alert: PATCH /api/alerts/{id}/status and       *)
(* POST /api/alerts/{id}/ack. Each request runs in a thread of the API     *)
(* with its own session: it loads the row (db.get), computes the columns   *)
(* to write from what it read, and commits them with an audit row. No row  *)
(* lock or version column is used, so requests on one alert interleave.    *)
(***************************************************************************)
EXTENDS AlertTable

CONSTANTS
    Analysts,       \* concurrent requests
    Targets,        \* the statuses requests ask for
    MaxPatches      \* bound: requests served

ASSUME TargetsAssumption == Targets \subseteq ALERT_STATUSES
ASSUME MaxPatchesAssumption == MaxPatches \in Nat

VARIABLES
    req,            \* what each request has read, None when it is not running
    audit,          \* alert_audits
    patches

workflowVars == <<req, audit, patches>>

None == [alert |-> 0]
Loaded == [alert : Nat \ {0}, status : ALERT_STATUSES, acked : Stamp, closed : Stamp,
           target : ALERT_STATUSES, begun : Time]
AuditRow == [alert : Nat, from : ALERT_STATUSES, to : ALERT_STATUSES]

WorkflowInit ==
    /\ req = [a \in Analysts |-> None]
    /\ audit = <<>>
    /\ patches = 0

-----------------------------------------------------------------------------
(* db.get in the endpoint; an unknown id is answered 404, an unknown       *)
(* status 400, and neither changes anything.                               *)
LoadAlert(a, i, to) ==
    /\ req[a] = None /\ patches < MaxPatches
    /\ patches' = patches + 1
    /\ req' = [req EXCEPT ![a] =
                 [alert |-> i, status |-> alerts[i].status, acked |-> alerts[i].acked,
                  closed |-> alerts[i].closed, target |-> to, begun |-> now]]
    /\ UNCHANGED <<alerts, audit>>

(* Mutant: the first move of an alert is not audited.                      *)
CommitUnaudited(a) ==
    LET read == req[a]
        i == read.alert
    IN  /\ read # None
        /\ \E at \in read.begun..now :
              alerts' = [alerts EXCEPT ![i] = ApplyAlertStatus(@, read, read.target, at)]
        /\ audit' = IF read.status \in {read.target, "open"} THEN audit
                    ELSE Append(audit, [alert |-> i, from |-> read.status,
                                        to |-> read.target])
        /\ req' = [req EXCEPT ![a] = None]
        /\ UNCHANGED patches

(* apply_alert_status and the commit of the endpoint. The stamp is taken   *)
(* between the two, at any time since the row was read: what was done by   *)
(* then becomes visible later.                                             *)
CommitStatus(a) ==
    LET read == req[a]
        i == read.alert
    IN  /\ read # None
        /\ \E at \in read.begun..now :
              alerts' = [alerts EXCEPT ![i] = ApplyAlertStatus(@, read, read.target, at)]
        /\ audit' = IF read.status = read.target THEN audit
                    ELSE Append(audit, [alert |-> i, from |-> read.status,
                                        to |-> read.target])
        /\ req' = [req EXCEPT ![a] = None]
        /\ UNCHANGED patches

(* The request dies before its commit.                                     *)
DropRequest(a) ==
    /\ req[a] # None
    /\ req' = [req EXCEPT ![a] = None]
    /\ UNCHANGED <<alerts, audit, patches>>

WorkflowNext(a) ==
    \/ \E i \in DOMAIN alerts, to \in Targets : LoadAlert(a, i, to)
    \/ CommitStatus(a)
    \/ DropRequest(a)

WorkflowTypeOK ==
    /\ req \in [Analysts -> Loaded \cup {None}]
    /\ \A a \in Analysts : req[a] # None => req[a].alert \in DOMAIN alerts
    /\ audit \in Seq(AuditRow)
    /\ patches \in Nat
=============================================================================
