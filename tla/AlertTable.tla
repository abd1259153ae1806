----------------------------- MODULE AlertTable -----------------------------
(***************************************************************************)
(* The "alerts" table of the DarkGreen SIEM API and the pure operations    *)
(* its two writers apply to it: the rule engine, which looks for an alert  *)
(* to merge a detection into, and the analysts' endpoints, which move an   *)
(* alert between workflow states.                                          *)
(*                                                                         *)
(* The table only grows (no endpoint deletes an alert), ids are given in   *)
(* insertion order, so it is a sequence and an alert's id is its index.    *)
(* A "rule" here is a (tenant, rule id) pair: every query of the engine is *)
(* restricted to one of each.                                              *)
(***************************************************************************)
EXTENDS Integers, Sequences, FiniteSets

CONSTANTS
    Rules,          \* the (tenant, rule id) pairs the engine evaluates
    Entities,       \* values of evidence.entity_key
    Cooldown,       \* cooldown_minutes of each rule
    ScanLimit       \* LIMIT of the query that looks for a mergeable alert

ASSUME CooldownAssumption == Cooldown \in [Rules -> Nat]
ASSUME ScanLimitAssumption == ScanLimit \in Nat \ {0}

VARIABLES
    alerts,         \* the committed rows
    now             \* the database clock, in minutes

ALERT_STATUSES == {"open", "acked", "in_progress", "closed"}

Null == -1                      \* SQL NULL in a timestamp column
Time == Nat
Stamp == Time \cup {Null}

(* hits is a history column the program does not have: the number of       *)
(* detections that were committed into the alert, its creation included.   *)
AlertRow == [rule : Rules, entity : Entities, created : Time, status : ALERT_STATUSES,
             acked : Stamp, closed : Stamp, occurrences : Nat, hits : Nat]

-----------------------------------------------------------------------------
(* Mutant: an alert exactly cooldown_minutes old is not found.             *)
LiveStrictly(r, t) ==
    { i \in DOMAIN alerts : /\ alerts[i].rule = r
                            /\ alerts[i].created > t - Cooldown[r]
                            /\ alerts[i].status # "closed" }

(* Rows the query of _find_mergeable selects before its LIMIT.             *)
Live(r, t) ==
    { i \in DOMAIN alerts : /\ alerts[i].rule = r
                            /\ alerts[i].created >= t - Cooldown[r]
                            /\ alerts[i].status # "closed" }

LiveFor(r, e, t) == { i \in Live(r, t) : alerts[i].entity = e }

Newest(S) == { i \in S : \A j \in S : alerts[j].created <= alerts[i].created }

(* ORDER BY created_at DESC LIMIT n, then the first row of the entity. The *)
(* order of rows created at the same instant is the database's choice.     *)
Mergeable(r, e, t) ==
    { i \in Newest(LiveFor(r, e, t)) :
        Cardinality({ j \in Live(r, t) : alerts[j].created > alerts[i].created }) < ScanLimit }

(* Mutant: an alert is created without looking for one to merge into.      *)
NoMergeableUnchecked(r, e, t) == TRUE

NoMergeable(r, e, t) ==
    \A i \in LiveFor(r, e, t) :
        Cardinality({ j \in Live(r, t) \ LiveFor(r, e, t) :
                        alerts[j].created >= alerts[i].created }) >= ScanLimit

(* The query matched more rows than its LIMIT lets through.                *)
Truncated(r, t) == Cardinality(Live(r, t)) > ScanLimit

NewAlert(r, e, t) ==
    [rule |-> r, entity |-> e, created |-> t, status |-> "open",
     acked |-> Null, closed |-> Null, occurrences |-> 1, hits |-> 1]

-----------------------------------------------------------------------------
(* apply_alert_status, computed from the row as the request read it:       *)
(* the columns its UPDATE writes. A column whose value did not change in   *)
(* the session is not part of the UPDATE, so a concurrent write to it      *)
(* survives.                                                               *)
(* Mutants: acked_at is left to the ack endpoint; reopening clears         *)
(* closed_at.                                                              *)
AckedOnlyByAck(read, to, t) == IF to = "acked" /\ read.acked = Null THEN t ELSE read.acked

ClosedOrCleared(read, to, t) ==
    IF to # "closed" THEN Null ELSE IF read.closed = Null THEN t ELSE read.closed

AckedAfter(read, to, t) ==
    IF read.status = "open" /\ to # "open" /\ read.acked = Null THEN t ELSE read.acked

ClosedAfter(read, to, t) ==
    IF to = "closed" /\ read.closed = Null THEN t ELSE read.closed

ApplyAlertStatus(row, read, to, t) ==
    LET written(old, new, current) == IF new = old THEN current ELSE new
    IN  [row EXCEPT !.status = written(read.status, to, row.status),
                    !.acked = written(read.acked, AckedAfter(read, to, t), row.acked),
                    !.closed = written(read.closed, ClosedAfter(read, to, t), row.closed)]

-----------------------------------------------------------------------------
AlertTableTypeOK == /\ alerts \in Seq(AlertRow)
                    /\ now \in Time
=============================================================================
