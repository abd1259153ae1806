----------------------------- MODULE Maintenance -----------------------------
(***************************************************************************)
(* maintenance.py: the loop that deletes events older than the retention   *)
(* and raises an alert for each source that has gone silent, and the       *)
(* administrators' purge requests, while events come in. A round of the    *)
(* loop is a sequence of SELECTs in one READ COMMITTED session; a source   *)
(* is a (tenant, source_type) pair. Silence alerts share the alerts table  *)
(* with the rule engine, under rule ids of their own.                      *)
(***************************************************************************)
EXTENDS Integers, Sequences, Functions

CONSTANTS
    Tenants,        \* rows of the tenants table, in the order it lists them
    KnownSources,   \* KNOWN_SOURCES
    Looping,        \* processes that run the loop
    Retention,      \* retention_days in minutes; 0 turns the purge off
    Stale, Silent,  \* health_stale_minutes, health_silent_minutes
    Lags, Late,     \* by how much an event's timestamp lies before its arrival; the longest
    MaxTime,        \* bound: minutes the clock advances
    MaxEvents,      \* bound: events ingested
    MaxFails        \* bound: rounds that end in an exception

ListedIn(s) == { s[n] : n \in DOMAIN s }
Sources == ListedIn(Tenants) \X ListedIn(KnownSources)

(* The ids of the tenants are a primary key, KNOWN_SOURCES is a constant.  *)
ASSUME ListsAssumption ==
    /\ Tenants \in Seq(ListedIn(Tenants)) /\ IsInjective(Tenants)
    /\ KnownSources \in Seq(ListedIn(KnownSources)) /\ IsInjective(KnownSources)
ASSUME ThresholdsAssumption == {Retention, Stale, Silent, Late} \subseteq Nat
ASSUME LagsAssumption == Lags \subseteq Int /\ \A lag \in Lags : lag <= Late
ASSUME BoundsAssumption == {MaxTime, MaxEvents, MaxFails} \subseteq Nat

VARIABLES
    now,            \* the clock, in minutes
    events,         \* rows of the events table; rows alike are one
    newest,         \* history: the latest timestamp ingested from each source
    alerts,         \* the source-silent-* alerts
    job,            \* what each process is in the middle of
    ingested, fails

vars == <<now, events, newest, alerts, job, ingested, fails>>

Later(t, u) == IF t > u THEN t ELSE u
Null == -100        \* no event
Start == Late + Later(Retention, Silent) + 1    \* so that no cutoff is negative
Idle == [pc |-> "idle"]

Init ==
    /\ now = Start
    /\ events = {}
    /\ newest = [s \in Sources |-> Null]
    /\ alerts = <<>>
    /\ job = [j \in Looping |-> Idle]
    /\ ingested = 0 /\ fails = 0

-----------------------------------------------------------------------------
Ingest(s, t) ==
    /\ ingested < MaxEvents
    /\ ingested' = ingested + 1
    /\ events' = events \cup {[source |-> s, at |-> t]}
    /\ newest' = [newest EXCEPT ![s] = Later(@, t)]
    /\ UNCHANGED <<now, alerts, job, fails>>

Tick ==
    /\ now < Start + MaxTime
    /\ now' = now + 1
    /\ UNCHANGED <<events, newest, alerts, job, ingested, fails>>

-----------------------------------------------------------------------------
(* Mutant: the round purges the first tenant only.                         *)
StartRoundOfFirst(j) ==
    /\ job[j] = Idle
    /\ job' = [job EXCEPT ![j] = [pc |-> "purge", todo |-> <<Head(Tenants)>>]]
    /\ UNCHANGED <<now, events, newest, alerts, ingested, fails>>

(* purge_all_tenants begins a round.                                       *)
StartRound(j) ==
    /\ job[j] = Idle
    /\ job' = [job EXCEPT ![j] = [pc |-> "purge", todo |-> Tenants]]
    /\ UNCHANGED <<now, events, newest, alerts, ingested, fails>>

(* The rows one DELETE of purge_old_events removes.                        *)
Expired(t) ==
    { e \in events : Retention > 0 /\ e.source[1] = t /\ e.at < now - Retention }

(* purge_old_events for one tenant, committed: in a round, and for a       *)
(* request, which has nothing else to do.                                  *)
PurgeTenant(j) ==
    /\ job[j].pc = "purge" /\ job[j].todo # <<>>
    /\ events' = events \ Expired(Head(job[j].todo))
    /\ job' = [job EXCEPT ![j].todo = Tail(@)]
    /\ UNCHANGED <<now, newest, alerts, ingested, fails>>

RequestPurge(t) ==
    /\ events' = events \ Expired(t)
    /\ UNCHANGED <<now, newest, alerts, job, ingested, fails>>

-----------------------------------------------------------------------------
(* Mutant: a stale source passes for a silent one.                         *)
HealthWithoutStale(quiet) == IF quiet = Null \/ quiet >= Later(Stale, 1) THEN "silent" ELSE "ok"

SilentAfter == Later(Later(Stale, 1), Silent)   \* silent_sec

(* health_status of the minutes since the last event.                      *)
HealthStatus(quiet) ==
    IF quiet = Null \/ quiet >= SilentAfter THEN "silent"
    ELSE IF quiet >= Later(Stale, 1) THEN "stale" ELSE "ok"

(* Mutants: any earlier alert counts; only half of the window does.        *)
EverAlerted(s) == \E n \in DOMAIN alerts : alerts[n].source = s
AlertedHalf(s) == \E n \in DOMAIN alerts :
    alerts[n].source = s /\ alerts[n].created >= now - (Silent \div 2)

(* _recent_alert_exists: open or not, in the cooldown.                     *)
RecentAlertExists(s) ==
    \E n \in DOMAIN alerts : alerts[n].source = s /\ alerts[n].created >= now - Silent

(* max(timestamp) of each source of a tenant, in one SELECT.               *)
LastBySource(t) ==
    [k \in ListedIn(KnownSources) |->
        LET at == { e.at : e \in { e \in events : e.source = <<t, k>> } }
        IN  IF at = {} THEN Null ELSE CHOOSE x \in at : \A y \in at : y <= x]

(* evaluate_silence_alerts begins: the time every source is judged by, and *)
(* the transaction whose start becomes created_at.                         *)
StartSilence(j) ==
    /\ job[j].pc = "purge" /\ job[j].todo = <<>>
    /\ job' = [job EXCEPT ![j] = [pc |-> "silence", todo |-> Tenants, types |-> <<>>,
                                  asof |-> now, pending |-> <<>>]]
    /\ UNCHANGED <<now, events, newest, alerts, ingested, fails>>

Evaluates(j) == job[j].pc = "silence"

(* silent is history: whether nothing recent had been ingested by then,    *)
(* whatever the table still holds.                                         *)
ReadLast(j) ==
    LET t == Head(job[j].todo)
    IN  /\ Evaluates(j) /\ job[j].types = <<>> /\ job[j].todo # <<>>
        /\ job' = [job EXCEPT ![j] =
             [pc |-> "silence", todo |-> Tail(job[j].todo), types |-> KnownSources,
              asof |-> job[j].asof, pending |-> job[j].pending, tenant |-> t,
              last |-> LastBySource(t),
              silent |-> [k \in ListedIn(KnownSources) |->
                  newest[<<t, k>>] = Null \/ now - newest[<<t, k>>] >= SilentAfter]]]
        /\ UNCHANGED <<now, events, newest, alerts, ingested, fails>>

(* One source: nothing, or an alert added to the session.                  *)
CheckSource(j) ==
    LET k == Head(job[j].types)
        s == <<job[j].tenant, k>>
        last == job[j].last[k]
        quiet == IF last = Null THEN Null ELSE Later(job[j].asof - last, 0)
        due == HealthStatus(quiet) = "silent" /\ ~RecentAlertExists(s)
    IN  /\ Evaluates(j) /\ job[j].types # <<>>
        /\ job' = [job EXCEPT ![j].types = Tail(@),
                              ![j].pending = IF ~due THEN @ ELSE Append(@,
                                    [source |-> s, created |-> job[j].asof,
                                     checked |-> now, silent |-> job[j].silent[k]])]
        /\ UNCHANGED <<now, events, newest, alerts, ingested, fails>>

CommitSilence(j) ==
    /\ Evaluates(j) /\ job[j].types = <<>> /\ job[j].todo = <<>>
    /\ alerts' = alerts \o job[j].pending
    /\ job' = [job EXCEPT ![j] = Idle]
    /\ UNCHANGED <<now, events, newest, ingested, fails>>

(* A query raises: the loop logs it and rolls back.                        *)
Fail(j) ==
    /\ job[j] # Idle /\ fails < MaxFails
    /\ fails' = fails + 1
    /\ job' = [job EXCEPT ![j] = Idle]
    /\ UNCHANGED <<now, events, newest, alerts, ingested>>

-----------------------------------------------------------------------------
Continue(j) ==
    \/ PurgeTenant(j) \/ StartSilence(j) \/ ReadLast(j) \/ CheckSource(j) \/ CommitSilence(j)

Next ==
    \/ \E s \in Sources, lag \in Lags : Ingest(s, now - lag)
    \/ Tick
    \/ \E j \in Looping : StartRound(j) \/ Continue(j) \/ Fail(j)
    \/ \E t \in ListedIn(Tenants) : RequestPurge(t)

Spec == Init /\ [][Next]_vars

(* The loop starts a round every purge_interval_sec and what has started   *)
(* goes on. Nothing obliges an event or a request to arrive.               *)
FairSpec == /\ Spec
            /\ \A j \in Looping : WF_vars(Continue(j)) /\ WF_vars(StartRound(j))

-----------------------------------------------------------------------------
Alert == [source : Sources, created : Nat, checked : Nat, silent : BOOLEAN]

TypeOK ==
    /\ now \in Nat
    /\ events \subseteq [source : Sources, at : Nat]
    /\ newest \in [Sources -> Nat \cup {Null}]
    /\ alerts \in Seq(Alert)
    /\ DOMAIN job = Looping
    /\ \A j \in Looping : job[j].pc \in {"idle", "purge", "silence"}
    /\ ingested \in 0..MaxEvents /\ fails \in 0..MaxFails

(* A source is reported silent only if, when its events were looked at, no *)
(* event ever ingested from it had a timestamp within the threshold, those *)
(* purged since included. Needs a retention that is off or no shorter than *)
(* the threshold (maintenance.py:95-119).                                  *)
SilenceIsReal == \A n \in DOMAIN alerts : alerts[n].silent

(* README.md:92: the silence threshold is also the cooldown of these       *)
(* alerts. A source is alerted again only when its last alert has left the *)
(* cooldown. Holds for one process running the loop.                       *)
OneAlertPerCooldown ==
    \A m, n \in DOMAIN alerts :
        m < n /\ alerts[m].source = alerts[n].source =>
            alerts[n].checked > alerts[m].created + Silent

(* A source that stays silent has a recent alert sooner or later, through  *)
(* failing rounds and earlier alerts that expire (maintenance.py:105-157). *)
Quiet(s) == newest[s] = Null \/ now - newest[s] >= SilentAfter

Reported(s) == \E a \in ListedIn(alerts) : a.source = s /\ now - a.created <= Silent

SilenceIsNoticed == \A s \in Sources : Quiet(s) ~> Reported(s) \/ ~Quiet(s)

(* README.md:89: events older than the retention are deleted, those that   *)
(* arrive already expired included, for a tenant the round has dealt with  *)
(* as well. Once the clock stands still and events have ceased to come in, *)
(* none of them remains.                                                   *)
ExpiredEventsGo ==
    Retention > 0 =>
        []<>(\A e \in events : e.at >= now - Retention)
=============================================================================
