------------------------------ MODULE AlertSla ------------------------------
(***************************************************************************)
(* sla.py on the alerts of AlertEngine: the acknowledge and close targets  *)
(* of each severity, which an operator may change, and the badge an alert  *)
(* shows for each, computed from its columns whenever it is listed. The    *)
(* targets are those of one replica's memory (LabSettings has the rest).   *)
(***************************************************************************)
EXTENDS AlertEngine

CONSTANTS
    Severity,           \* of each rule
    AckMinutes, CloseMinutes,   \* the targets before any PATCH, by severity
    SlaBodies,          \* maps a PATCH of the setup may carry
    MAX_SLA_MINUTES,
    MaxSlaPatches       \* bound: PATCHes of the targets

SLA_SEVERITIES == {"critical", "high", "medium", "low"}

ASSUME SeverityAssumption == Severity \in [Rules -> STRING]
ASSUME TargetMinutesAssumption ==
    MAX_SLA_MINUTES \in Nat /\ {AckMinutes, CloseMinutes} \subseteq [SLA_SEVERITIES -> 0..MAX_SLA_MINUTES]
ASSUME MaxSlaPatchesAssumption == MaxSlaPatches \in Nat

VARIABLES
    sla,            \* LabState: sla_ack_minutes and sla_close_minutes
    slaPatches,
    left, shut      \* history: the earliest request that moved each alert out of
                    \* "open", and the earliest that closed it

slaVars == <<sla, slaPatches, left, shut>>

-----------------------------------------------------------------------------
(* normalize_sla_map: the severities named replace the base's; a value out *)
(* of range raises.                                                        *)
Acceptable(raw) == \A sev \in DOMAIN raw \cap SLA_SEVERITIES : raw[sev] \in 0..MAX_SLA_MINUTES

Normalized(raw, base) == [sev \in SLA_SEVERITIES |-> IF sev \in DOMAIN raw THEN raw[sev] ELSE base[sev]]

(* Mutant: what is done is met, whenever it was done.                      *)
StatusForDone(target, start, done, t) ==
    LET late == done = Null /\ t >= start + target
    IN  IF target <= 0 THEN "na"
        ELSE IF late THEN "breached"
        ELSE IF done # Null THEN "met"
        ELSE IF 5 * (t - start) >= 4 * target THEN "at_risk" ELSE "ok"

(* _status_for: at the due instant itself what is done is in time, what is *)
(* not is late.                                                            *)
StatusFor(target, start, done, t) ==
    LET due == start + target
        late == IF done # Null THEN done > due ELSE t >= due
    IN  IF target <= 0 THEN "na"
        ELSE IF late THEN "breached"
        ELSE IF done # Null THEN "met"
        ELSE IF 5 * (t - start) >= 4 * target THEN "at_risk" ELSE "ok"

(* compute_alert_sla                                                       *)
Sev(i) == IF Severity[alerts[i].rule] \in SLA_SEVERITIES THEN Severity[alerts[i].rule] ELSE "medium"

AckDone(i) ==
    IF alerts[i].status = "open" THEN Null
    ELSE IF alerts[i].acked # Null THEN alerts[i].acked ELSE alerts[i].created

CloseDone(i) ==
    IF alerts[i].status # "closed" THEN Null
    ELSE IF alerts[i].closed # Null THEN alerts[i].closed ELSE now

SlaAck(i) == StatusFor(sla.ack[Sev(i)], alerts[i].created, AckDone(i), now)
SlaClose(i) == StatusFor(sla.close[Sev(i)], alerts[i].created, CloseDone(i), now)

AckDue(i) == alerts[i].created + sla.ack[Sev(i)]
CloseDue(i) == alerts[i].created + sla.close[Sev(i)]

(* alert_matches_sla_filter, and what GET /api/alerts?sla= lists: of the   *)
(* newest min(200, 4 * limit) alerts, the newest limit that match.         *)
Matches(i, wanted) == wanted \in {SlaAck(i), SlaClose(i)}

NewerThan(i, S) == { j \in S : alerts[j].created > alerts[i].created }
Least(a, b) == IF a < b THEN a ELSE b

MayList(i, wanted, limit) ==
    /\ Matches(i, wanted)
    /\ Cardinality(NewerThan(i, DOMAIN alerts)) < Least(200, 4 * limit)
    /\ Cardinality(NewerThan(i, { j \in DOMAIN alerts : Matches(j, wanted) })) < limit

-----------------------------------------------------------------------------
(* PATCH of the setup: the acknowledge map is assigned before the close    *)
(* map is looked at.                                                       *)
PatchSla(ack, close) ==
    /\ slaPatches < MaxSlaPatches
    /\ slaPatches' = slaPatches + 1
    /\ sla' = IF ~Acceptable(ack) THEN sla
              ELSE [ack |-> Normalized(ack, sla.ack),
                    close |-> IF Acceptable(close) THEN Normalized(close, sla.close) ELSE sla.close]
    /\ UNCHANGED <<vars, left, shut>>

(* The requests that change an alert in this step.                         *)
Served(i) ==
    { a \in Analysts : alerts' # alerts /\ req[a] # None /\ req'[a] = None /\ req[a].alert = i }

FirstAsked(asked, statuses) ==
    [i \in DOMAIN alerts' |->
        LET by == { a \in Served(i) : req[a].target \in statuses }
            before == { asked[j] : j \in {i} \cap DOMAIN asked } \ {Null}
            times == { req[a].begun : a \in by } \cup before
        IN  IF times = {} THEN Null ELSE CHOOSE t \in times : \A u \in times : t <= u]

SlaInit ==
    /\ Init
    /\ sla = [ack |-> AckMinutes, close |-> CloseMinutes] /\ slaPatches = 0
    /\ left = <<>> /\ shut = <<>>

SlaNext ==
    \/ /\ Next
       /\ left' = FirstAsked(left, ALERT_STATUSES \ {"open"})
       /\ shut' = FirstAsked(shut, {"closed"})
       /\ UNCHANGED <<sla, slaPatches>>
    \/ \E ack, close \in SlaBodies : PatchSla(ack, close)

SlaSpec == SlaInit /\ [][SlaNext]_<<vars, slaVars>>

-----------------------------------------------------------------------------
(* A badge that says "met" is earned: a request that acknowledged, or      *)
(* closed, the alert was there by the instant it was due under the targets *)
(* now in force, though the stamps it is computed from are written by      *)
(* requests that read the row at some earlier time and commit at some      *)
(* later one (sla.py:97-98, 140-148, main.py:240-244).                     *)
MetWasInTime ==
    \A i \in DOMAIN alerts :
        /\ SlaAck(i) = "met" => left[i] # Null /\ left[i] <= AckDue(i)
        /\ SlaClose(i) = "met" => shut[i] # Null /\ shut[i] <= CloseDue(i)

(* A breach stands: once an alert is past due, no request makes its badge  *)
(* "met" as long as the targets stay, except one that was there by then    *)
(* and whose commit, with the stamp it took, comes after; and one that     *)
(* acknowledges or closes again what had been in time and was reopened     *)
(* (sla.py:97-101, 140-148, main.py:240, 951).                             *)
LateCommit(i, due) == \E a \in Served(i) : req[a].begun <= due

BreachStands ==
    [][sla' = sla => \A i \in DOMAIN alerts :
         /\ SlaAck(i) = "breached" /\ now > AckDue(i) /\ SlaAck(i)' = "met" =>
                \/ alerts[i].acked # Null /\ alerts[i].acked <= AckDue(i)
                \/ LateCommit(i, AckDue(i))
         /\ SlaClose(i) = "breached" /\ now > CloseDue(i) /\ SlaClose(i)' = "met" =>
                \/ alerts[i].closed # Null /\ alerts[i].closed <= CloseDue(i)
                \/ LateCommit(i, CloseDue(i))]_<<vars, slaVars>>

(* README.md:132: the time counts until "open" is left. Refuted: a second  *)
(* request that read the alert open overwrites acked_at, and what was met  *)
(* becomes a breach.                                                       *)
AckStaysMet ==
    [][\A i \in DOMAIN alerts :
         sla' = sla /\ SlaAck(i) = "met" /\ alerts'[i].status # "open" =>
            SlaAck(i)' = "met"]_<<vars, slaVars>>

(* README.md:133: until "closed". Refuted: closed again after the target,  *)
(* an alert counts as closed at its first close.                           *)
ReclosedLateIsBreached ==
    [][\A i \in DOMAIN alerts :
         alerts[i].status # "closed" /\ alerts'[i].status = "closed" /\ sla' = sla
            /\ ~LateCommit(i, CloseDue(i)) => SlaClose(i)' # "met"]_<<vars, slaVars>>

(* README.md:135: the filter lists the alerts in a state. Refuted: it      *)
(* looks at the newest 4 * limit alerts only.                              *)
FilterFindsAll ==
    \A i \in DOMAIN alerts :
        LET breached == { j \in DOMAIN alerts : Matches(j, "breached") }
        IN  i \in breached /\ Cardinality(breached) <= 1 => MayList(i, "breached", 1)
=============================================================================
