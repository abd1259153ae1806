------------------------------ MODULE RuleEval -------------------------------
(***************************************************************************)
(* The rule evaluators of rules_engine.py over the events table, live (a   *)
(* detection pass) and on the bench (POST /api/rules/dry-run, a list of    *)
(* events). An evaluator returns the set of outcomes the code can have: no *)
(* hit, or the entity of the alert. More than one where SQL or Python      *)
(* leaves the order of equals open. What a pass does with a hit is in      *)
(* RuleRuns.                                                               *)
(***************************************************************************)
EXTENDS RuleForms

CONSTANTS
    Tenants,
    Keys,           \* values of the column rules group and join by
    Payloads,       \* the columns of the events that arrive
    Files,          \* the files of the enabled rules (RuleForms)
    MatchLimit,     \* LIMIT of a match rule's query (500)
    JoinLimit,      \* LIMIT of a correlation rule's query (2000)
    MaxEvents,      \* bound: events ingested
    MaxTime         \* bound: minutes the clock advances

Null == "null"
NoHit == "no hit"
NoEntity == "rule"  \* the entity of a sample without one: rule:<id>

ASSUME LimitsAssumption == {MatchLimit, JoinLimit} \subseteq Nat \ {0}
ASSUME BoundsAssumption == {MaxEvents, MaxTime} \subseteq Nat

(* Null is no value of a column, and NoHit no entity.                      *)
ASSUME KeysAssumption == {Null, NoHit} \cap Keys = {}
ASSUME PayloadsAssumption ==
    \A p \in Payloads : \A col \in ALLOWED_GROUP_BY \cup {"src_ip"} :
        col \in DOMAIN p /\ p[col] \in Keys \cup {Null}

ASSUME ColumnsAssumption == {"tenant", "at"} \cap ALLOWED_GROUP_BY = {}

(* A file has the shape its type asks for, and names columns there are.    *)
IsNumber(d, field) == field \in DOMAIN d => d[field] \in Nat

(* The filters a file says events are matched by.                          *)
FiltersOf(d) ==
    IF d.type # "correlation" THEN {MatchOf(d)}
    ELSE { MatchOf(d.steps[n]) : n \in { n \in DOMAIN d.steps : "enrich" \notin DOMAIN d.steps[n] } }

EnrichesOf(d) ==
    IF d.type # "correlation" THEN {}
    ELSE { d.steps[n].enrich : n \in { n \in DOMAIN d.steps : "enrich" \in DOMAIN d.steps[n] } }

WellFormed(d) ==
    /\ "type" \in DOMAIN d /\ d.type \in TYPES
    /\ IsNumber(d, "window_minutes") /\ IsNumber(d, "cooldown_minutes")
    /\ "severity" \in DOMAIN d => d.severity \in Texts
    /\ \A filters \in FiltersOf(d) : \A col \in DOMAIN filters : filters[col] \subseteq Values
    /\ \A enrich \in EnrichesOf(d) : \A field \in DOMAIN enrich : enrich[field] \subseteq Texts
    /\ d.type = "threshold" => /\ IsNumber(d, "threshold")
                               /\ Text(d, "group_by", "user") \in ALLOWED_GROUP_BY
    /\ d.type = "correlation" => /\ Text(d, "join_on", "src_ip") \in ALLOWED_GROUP_BY
                                 /\ "steps" \in DOMAIN d /\ d.steps \in Seq(Range(d.steps))
                                 /\ \A n \in DOMAIN d.steps : IsNumber(d.steps[n], "min_count")

ASSUME FilesAssumption == \A d \in Files : WellFormed(d)

Rules == { Evaluated(d) : d \in Files }

VARIABLES now, events       \* the clock in minutes, the events table
vars == <<now, events>>

-----------------------------------------------------------------------------
(* _match_filters: every filter names the values its column may have, and  *)
(* a missing column meets none.                                            *)
Matches(e, filters) ==
    \A col \in DOMAIN filters : e[col] # Null /\ e[col] \in filters[col]

(* The WHERE clauses of a threshold rule leave out labels.*                *)
Clauses(filters) == [col \in DOMAIN filters \ {"label"} |-> filters[col]]

Count(es, filters, col, k) ==
    Cardinality({ n \in DOMAIN es : Matches(es[n], filters) /\ es[n][col] = k })

NonBlank(es, col) == { es[n][col] : n \in DOMAIN es } \ {Null}

(* _entity_key of a match rule: the columns of the sample.                 *)
EntityOf(e) == IF e.src_ip # Null THEN e.src_ip ELSE NoEntity

Outcomes(hits) == IF hits = {} THEN {NoHit} ELSE hits

-----------------------------------------------------------------------------
(* evaluate_match_rule on a list of events: the sample is the first hit.   *)
MatchRule(r, es) ==
    LET hits == { n \in DOMAIN es : Matches(es[n], r.match) }
    IN  Outcomes(IF hits = {} THEN {} ELSE {EntityOf(es[Min(hits)])})

(* evaluate_threshold_rule on a list: the largest group, blank ones aside. *)
ThresholdBench(r, es) ==
    LET size(k) == Count(es, r.match, r.group_by, k)
        rows == { k \in NonBlank(es, r.group_by) : size(k) >= r.threshold }
    IN  Outcomes({ k \in rows : \A l \in rows : size(l) <= size(k) })

(* Mutant: the next step's keys are taken when none is shared.             *)
StepKeysOr(step, es, col, pool, bad) ==
    LET kept == { k \in NonBlank(es, col) :
                    Count(es, step.match, col, k) >= step.min_count }
    IN  IF "enrich" \in DOMAIN step THEN pool \cap bad
        ELSE IF pool \cap kept = {} THEN kept ELSE pool \cap kept

(* The keys of the pool a correlation step keeps. bad are the keys that    *)
(* keys_matching_enrich gets a wanted verdict for.                         *)
StepKeys(step, es, col, pool, bad) ==
    IF "enrich" \in DOMAIN step THEN pool \cap bad
    ELSE { k \in pool : Count(es, step.match, col, k) >= step.min_count }

Shared(r, es, bad) ==
    LET pool[n \in 0..Len(r.steps)] ==
            IF n = 0 THEN NonBlank(es, r.join_on)
            ELSE StepKeys(r.steps[n], es, r.join_on, pool[n - 1], bad)
    IN  pool[Len(r.steps)]

(* evaluate_correlation_rule on a list: the shared key with the largest    *)
(* count in the first step.                                                *)
CorrelationRule(r, es, bad) ==
    LET lead(k) == IF "enrich" \in DOMAIN r.steps[1] THEN 1
                   ELSE Count(es, r.steps[1].match, r.join_on, k)
        shared == Shared(r, es, bad)
    IN  Outcomes(IF Len(r.steps) < 2 THEN {}
                 ELSE { k \in shared : \A l \in shared : lead(l) <= lead(k) })

(* dry_run_rules for one rule.                                             *)
Bench(r, es, bad) ==
    CASE r.type = "match" -> MatchRule(r, es)
      [] r.type = "threshold" -> ThresholdBench(r, es)
      [] r.type = "correlation" -> CorrelationRule(r, es, bad)

-----------------------------------------------------------------------------
(* Mutant: an event on the edge of the window is out.                      *)
InWindowStrictly(db, t, window) ==
    { n \in DOMAIN db : db[n].tenant = t /\ db[n].at > now - window }

(* timestamp >= since and tenant_id = t.                                   *)
InWindow(db, t, window) ==
    { n \in DOMAIN db : db[n].tenant = t /\ db[n].at >= now - window }

(* The rows of R that ORDER BY timestamp DESC LIMIT may return, in order.  *)
NewestFirst(db, R, limit) ==
    { s \in [1..Min({limit, Cardinality(R)}) -> R] :
        /\ \A m, n \in DOMAIN s : m < n => s[m] # s[n] /\ db[s[m]].at >= db[s[n]].at
        /\ \A left \in R : left \in { s[n] : n \in DOMAIN s }
                           \/ \A n \in DOMAIN s : db[left].at <= db[s[n]].at }

(* Mutant: the LIMIT cuts the rows of all tenants.                         *)
FetchedOfAll(db, t, window, limit) ==
    LET all == { n \in DOMAIN db : db[n].at >= now - window }
    IN  { SelectSeq([n \in DOMAIN s |-> db[s[n]]], LAMBDA e : e.tenant = t) :
            s \in NewestFirst(db, all, limit) }

(* The lists of events a match or correlation rule's query may return.     *)
Fetched(db, t, window, limit) ==
    { [n \in DOMAIN s |-> db[s[n]]] :
        s \in NewestFirst(db, InWindow(db, t, window), limit) }

(* Mutant: the group must exceed the threshold.                            *)
ThresholdExceeded(r, t, db) ==
    LET W == InWindow(db, t, r.window)
        size(k) == Cardinality({ n \in W : Matches(db[n], Clauses(r.match))
                                           /\ db[n][r.group_by] = k })
    IN  Outcomes({ k \in { db[n][r.group_by] : n \in W } : size(k) > r.threshold })

(* The query of a threshold rule: any of its groups may come first, that   *)
(* of the events without the column too.                                   *)
ThresholdLive(r, t, db) ==
    LET W == InWindow(db, t, r.window)
        size(k) == Cardinality({ n \in W : Matches(db[n], Clauses(r.match))
                                           /\ db[n][r.group_by] = k })
    IN  Outcomes({ k \in { db[n][r.group_by] : n \in W } : size(k) >= r.threshold })

(* What run_rules gets for a rule and a tenant.                            *)
Live(r, t, db, bad) ==
    CASE r.type = "match" -> UNION { MatchRule(r, es) : es \in Fetched(db, t, r.window, MatchLimit) }
      [] r.type = "threshold" -> ThresholdLive(r, t, db)
      [] r.type = "correlation" ->
            UNION { CorrelationRule(r, es, bad) : es \in Fetched(db, t, r.window, JoinLimit) }

-----------------------------------------------------------------------------
Init == now = 0 /\ events = <<>>

Row(t, at, p) == Updated(p, [tenant |-> t, at |-> at])

Ingest(t, p) ==
    /\ Len(events) < MaxEvents
    /\ events' = Append(events, Row(t, now, p))
    /\ UNCHANGED now

Tick == now < MaxTime /\ now' = now + 1 /\ UNCHANGED events

Next == Tick \/ \E t \in Tenants, p \in Payloads : Ingest(t, p)

Spec == Init /\ [][Next]_vars

-----------------------------------------------------------------------------
TypeOK ==
    /\ now \in 0..MaxTime
    /\ events \in Seq({ Row(t, at, p) : t \in Tenants, at \in 0..MaxTime, p \in Payloads })
    /\ Len(events) <= MaxEvents

(* docs/architecture.md:72-74 read as a definition: whom a rule is about.  *)
(* A match rule is about any recent event that meets the filters, a        *)
(* threshold rule about a group of N, a correlation about a key for which  *)
(* each of two or more steps is met, whatever their order.                 *)
Recent(t, r) ==
    Restrict(events, { n \in DOMAIN events : /\ events[n].tenant = t
                                             /\ events[n].at + r.window >= now })

Met(step, es, col, k, bad) ==
    IF "enrich" \in DOMAIN step THEN k \in bad
    ELSE Count(es, step.match, col, k) >= step.min_count

Subjects(r, t, bad) ==
    LET es == Recent(t, r)
    IN  CASE r.type = "match" ->
                { EntityOf(es[n]) : n \in { n \in DOMAIN es : Matches(es[n], r.match) } }
          [] r.type = "threshold" ->
                { k \in Keys : Count(es, r.match, r.group_by, k) >= r.threshold }
          [] r.type = "correlation" ->
                { k \in Keys \cap NonBlank(es, r.join_on) :
                    /\ Len(r.steps) >= 2
                    /\ \A n \in DOMAIN r.steps : Met(r.steps[n], es, r.join_on, k, bad) }

(* A threshold rule whose filters name a label, or that a blank group      *)
(* meets, is not read as the documents say.                                *)
Regular(r, t) ==
    r.type = "threshold" => /\ "label" \notin DOMAIN r.match
                            /\ Count(Recent(t, r), r.match, r.group_by, Null) = 0

Fits(r, t) == Cardinality(DOMAIN Recent(t, r)) <= (IF r.type = "match" THEN MatchLimit ELSE JoinLimit)

(* The keys enrichment may find bad, if the rule asks.                     *)
Verdicts(r) ==
    IF r.type = "correlation" /\ \E n \in DOMAIN r.steps : "enrich" \in DOMAIN r.steps[n]
    THEN SUBSET Keys ELSE {{}}

(* An alert is about someone the rule is about, also when the LIMIT cuts   *)
(* the events (rules_engine.py:199-202, 280-289, 356-426).                 *)
NothingInvented ==
    \A r \in Rules, t \in Tenants : \A bad \in Verdicts(r) :
        Regular(r, t) => Live(r, t, events, bad) \subseteq Subjects(r, t, bad) \cup {NoHit}

(* A pass finds a hit whenever the rule is about someone, if the recent    *)
(* events fit in the LIMIT.                                                *)
NothingMissed ==
    \A r \in Rules, t \in Tenants : \A bad \in Verdicts(r) :
        Regular(r, t) /\ Fits(r, t) /\ Subjects(r, t, bad) # {} =>
            NoHit \notin Live(r, t, events, bad)

(* What the bench says of the recent events, a pass does: same verdict,    *)
(* and the bench's entity is one the pass may choose                       *)
(* (rules_engine.py:252-263 against 264-289).                              *)
BenchAgrees ==
    \A r \in Rules, t \in Tenants : \A bad \in Verdicts(r) :
        Regular(r, t) /\ Fits(r, t) =>
            LET live == Live(r, t, events, bad)
            IN  \A es \in Fetched(events, t, r.window, MaxEvents) :
                    LET bench == Bench(r, es, bad)
                    IN  bench \subseteq live /\ (NoHit \in bench <=> NoHit \in live)

(* Nothing another tenant sends changes what a tenant's rules find, not    *)
(* even by filling the LIMIT (rules_engine.py:194-196, 269, 344-346).      *)
TenantsApart ==
    \A r \in Rules, t \in Tenants : \A bad \in Verdicts(r) :
        Live(r, t, events, bad) =
            Live(r, t, Restrict(events, { n \in DOMAIN events : events[n].tenant = t }), bad)

(* Disabling and enabling a rule rewrites its file from what validation    *)
(* makes of it (rule_store.py:71-77, rule_validate.py:92-222). An accepted *)
(* file can be switched off and on again, whatever it says. Once off, the  *)
(* rule finds, asks of the providers, merges and announces the same when   *)
(* it is on again, unless the cut of a long value left a blank at its end. *)
(* A file as written by hand is so at once if it is spelled as validation  *)
(* would: a severity in lower case, minutes in range, values stripped,     *)
(* none blank, and no enrich mapping empty or in capitals.                 *)
AsStored(filters) ==
    \A col \in DOMAIN filters :
        filters[col] # {} /\ \A v \in filters[col] : v # Blank /\ Stored[v] = v

Spelled(d) ==
    /\ {"severity", "window_minutes", "cooldown_minutes"} \subseteq DOMAIN d
    /\ d.severity \in SEVERITIES
    /\ {d.window_minutes, d.cooldown_minutes} \subseteq 1..MAX_WINDOW_MINUTES
    /\ \A filters \in FiltersOf(d) : AsStored(filters)
    /\ \A enrich \in EnrichesOf(d) :
          DOMAIN enrich # {} /\ \A field \in DOMAIN enrich : \A x \in enrich[field] : Lowered[x] = x

Settled(d) ==
    \A filters \in FiltersOf(d) : \A col \in DOMAIN filters : \A v \in filters[col] :
        Stored[Stored[v]] = Stored[v]

Asked(r) == [n \in { n \in DOMAIN r.steps : "enrich" \in DOMAIN r.steps[n] } |-> r.steps[n].enrich]

SameHits(d, on) ==
    LET r == Evaluated(d)
        q == Evaluated(on)
    IN  /\ q.severity = r.severity /\ q.cooldown = r.cooldown
        /\ r.type = "correlation" => Asked(q) = Asked(r)
        /\ \A t \in Tenants : \A bad \in Verdicts(r) : Live(q, t, events, bad) = Live(r, t, events, bad)

SwitchKeepsHits ==
    \A f \in { f \in Files : Accepted(f) } :
        LET off == Switched(f, FALSE)
            on == Switched(off, TRUE)
        IN  /\ ~off.enabled /\ on.enabled
            /\ Settled(f) => SameHits(off, on)
            /\ Spelled(f) => SameHits(f, Switched(f, TRUE))

(* The same of any file that is accepted. Refuted: a correlation rule      *)
(* without window_minutes is evaluated over 30, and over 10 once switched; *)
(* a step with an empty enrich mapping matches every event, and asks       *)
(* VirusTotal once switched; a value with a blank before it starts to      *)
(* match.                                                                  *)
AnySwitchKeepsHits ==
    \A f \in { f \in Files : Accepted(f) } : SameHits(f, Switched(f, TRUE))

(* docs/architecture.md:72: a match rule is about any recent event that    *)
(* meets the filters. Refuted by the LIMIT.                                *)
AnyRecentEventMatches ==
    \A r \in Rules, t \in Tenants :
        r.type = "match" /\ Subjects(r, t, {}) # {} => NoHit \notin Live(r, t, events, {})

(* rules/spray-then-success.yml:5-6: failures and then a success. Refuted: *)
(* steps are not compared in time.                                         *)
InOrder(r, es, k) ==
    \E m, n \in DOMAIN es :
        /\ es[m].at <= es[n].at /\ es[m].src_ip = k /\ es[n].src_ip = k
        /\ Matches(es[m], r.steps[1].match) /\ Matches(es[n], r.steps[2].match)

SuccessFollowsSpray ==
    \A r \in Rules, t \in Tenants :
        r.type = "correlation" /\ "match" \in DOMAIN r.steps[2] =>
            \A k \in Live(r, t, events, {}) \ {NoHit} : InOrder(r, Recent(t, r), k)

(* README.md:139: rules match labels.*; a threshold rule with such a       *)
(* filter counts only events that meet it. Refuted.                        *)
LabelsNarrow ==
    \A r \in Rules, t \in Tenants :
        r.type = "threshold" =>
            Live(r, t, events, {}) \subseteq Subjects(r, t, {}) \cup {NoHit, Null}
=============================================================================
