------------------------------ MODULE RuleRuns ------------------------------
(***************************************************************************)
(* run_rules: the detection pass. The background loop of the API process   *)
(* runs it every rule_interval_sec, and POST /api/rules/run runs it in a   *)
(* worker thread, on this replica or the other; nothing excludes two       *)
(* passes at once. Each pass is a runner with a database session of its    *)
(* own (READ COMMITTED, autoflush off): queries see committed rows only,   *)
(* new and merged alerts stay in the session until a commit.               *)
(***************************************************************************)
EXTENDS AlertTable

CONSTANTS
    Runners,        \* the background loop, and the threads serving /rules/run
    RuleFiles,      \* the enabled rules, in evaluation order
    Enriching,      \* correlation rules with an enrich step
    Loud,           \* rules with severity >= notify_min_severity
    MaxRuns,        \* bound: passes started
    MaxFails,       \* bound: passes that end in an exception
    MaxCrashes      \* bound: passes lost in a crash

ASSUME RuleFilesAssumption == RuleFiles \in Seq(Rules)
ASSUME RunBoundsAssumption == {MaxRuns, MaxFails, MaxCrashes} \subseteq Nat

VARIABLES
    pc,             \* where each runner is: idle, eval, refresh
    slot,           \* index in RuleFiles of the next rule to evaluate
    begun,          \* start of the session's current transaction
    fresh,          \* session.new: alerts added and not yet flushed
    dirty,          \* session.dirty: merged alerts and their new evidence
    created,        \* ids this pass inserted and has not yet refreshed
    queue,          \* ids refreshed as open, to be announced
    posts,          \* webhook calls made, in order
    runs, fails, crashes

runVars == <<pc, slot, begun, fresh, dirty, created, queue, posts, runs, fails, crashes>>

(* seen and truncated are history of the decision to insert: how many rows *)
(* were committed when the mergeable alert was looked for, and whether the *)
(* query hit its LIMIT. n counts the merges of this session.               *)
PendingAlert == [rule : Rules, entity : Entities, seen : Nat, truncated : BOOLEAN]
PendingMerge == [occurrences : Nat, n : Nat]
NoMerges == [i \in {} |-> [occurrences |-> 0, n |-> 0]]

RunInit ==
    /\ pc = [r \in Runners |-> "idle"]
    /\ slot = [r \in Runners |-> 1]
    /\ begun = [r \in Runners |-> 0]
    /\ fresh = [r \in Runners |-> <<>>]
    /\ dirty = [r \in Runners |-> NoMerges]
    /\ created = [r \in Runners |-> {}]
    /\ queue = [r \in Runners |-> {}]
    /\ posts = <<>>
    /\ runs = 0 /\ fails = 0 /\ crashes = 0

-----------------------------------------------------------------------------
StartRun(r) ==
    /\ pc[r] = "idle" /\ runs < MaxRuns
    /\ runs' = runs + 1
    /\ pc' = [pc EXCEPT ![r] = "eval"]
    /\ slot' = [slot EXCEPT ![r] = 1]
    /\ begun' = [begun EXCEPT ![r] = now]
    /\ UNCHANGED <<alerts, fresh, dirty, created, queue, posts, fails, crashes>>

Evaluating(r) == pc[r] = "eval" /\ slot[r] <= Len(RuleFiles)

NextRule(r) ==
    /\ slot' = [slot EXCEPT ![r] = @ + 1]
    /\ UNCHANGED <<alerts, pc, begun, created, queue, posts, runs, fails, crashes>>

(* The rule matches nothing in its window.                                 *)
NoHit(r) ==
    /\ Evaluating(r)
    /\ NextRule(r)
    /\ UNCHANGED <<fresh, dirty>>

(* It matches, and no recent alert of the rule and entity is found.        *)
HitNew(r, e) ==
    LET rule == RuleFiles[slot[r]]
    IN  /\ Evaluating(r)
        /\ NoMergeable(rule, e, now)
        /\ fresh' = [fresh EXCEPT ![r] = Append(@,
                        [rule |-> rule, entity |-> e, seen |-> Len(alerts),
                         truncated |-> Truncated(rule, now)])]
        /\ NextRule(r)
        /\ UNCHANGED dirty

(* Mutant: the evidence is rewritten with the count it had.                *)
MergeIntoUncounted(d, i) ==
    LET n == IF i \in DOMAIN d THEN d[i].n ELSE 0
    IN  [j \in DOMAIN d \cup {i} |->
            IF j = i THEN [occurrences |-> alerts[i].occurrences, n |-> n + 1] ELSE d[j]]

(* _merge_alert: one more occurrence. An alert already merged in this      *)
(* session is found in the identity map, with its pending evidence.        *)
MergeInto(d, i) ==
    LET known == IF i \in DOMAIN d THEN d[i]
                 ELSE [occurrences |-> alerts[i].occurrences, n |-> 0]
    IN  [j \in DOMAIN d \cup {i} |->
            IF j = i THEN [occurrences |-> known.occurrences + 1, n |-> known.n + 1]
            ELSE d[j]]

(* It matches, and the detection is merged in a recent alert.              *)
HitMerge(r, e) ==
    LET rule == RuleFiles[slot[r]]
    IN  /\ Evaluating(r)
        /\ \E i \in Mergeable(rule, e, now) :
              dirty' = [dirty EXCEPT ![r] = MergeInto(@, i)]
        /\ NextRule(r)
        /\ UNCHANGED fresh

-----------------------------------------------------------------------------
(* Mutant: the whole row is written back.                                  *)
MergedRowReopens(r, i) ==
    IF i \in DOMAIN dirty[r]
    THEN [alerts[i] EXCEPT !.occurrences = dirty[r][i].occurrences,
                           !.hits = @ + dirty[r][i].n, !.status = "open"]
    ELSE alerts[i]

(* COMMIT of the session: UPDATEs of the evidence column of merged alerts, *)
(* INSERTs of the new ones. created_at is the server default now(), which  *)
(* in PostgreSQL is the start of the transaction.                          *)
MergedRow(r, i) ==
    IF i \in DOMAIN dirty[r]
    THEN [alerts[i] EXCEPT !.occurrences = dirty[r][i].occurrences,
                           !.hits = @ + dirty[r][i].n]
    ELSE alerts[i]

(* Mutants: ids of new alerts are off by one; merged alerts are returned   *)
(* as created; those an earlier commit of the pass inserted are forgotten. *)
CommitCreating(r, ids) ==
    /\ alerts' = [i \in 1..(Len(alerts) + Len(fresh[r])) |->
                    IF i <= Len(alerts) THEN MergedRow(r, i)
                    ELSE NewAlert(fresh[r][i - Len(alerts)].rule,
                                  fresh[r][i - Len(alerts)].entity, begun[r])]
    /\ created' = [created EXCEPT ![r] = ids]
    /\ fresh' = [fresh EXCEPT ![r] = <<>>]
    /\ dirty' = [dirty EXCEPT ![r] = NoMerges]

Inserted(r) == (Len(alerts) + 1)..(Len(alerts) + Len(fresh[r]))

CommitOffByOne(r) == CommitCreating(r, created[r] \cup { i + 1 : i \in Inserted(r) })
CommitReturnsMerged(r) == CommitCreating(r, created[r] \cup Inserted(r) \cup DOMAIN dirty[r])
CommitForgets(r) == CommitCreating(r, Inserted(r))

CommitSession(r) ==
    /\ alerts' = [i \in 1..(Len(alerts) + Len(fresh[r])) |->
                    IF i <= Len(alerts) THEN MergedRow(r, i)
                    ELSE NewAlert(fresh[r][i - Len(alerts)].rule,
                                  fresh[r][i - Len(alerts)].entity, begun[r])]
    /\ created' = [created EXCEPT
                     ![r] = @ \cup ((Len(alerts) + 1)..(Len(alerts) + Len(fresh[r])))]
    /\ fresh' = [fresh EXCEPT ![r] = <<>>]
    /\ dirty' = [dirty EXCEPT ![r] = NoMerges]

(* enrich_ioc stores the verdict it fetched and commits the session it was *)
(* given, which is the runner's: what earlier rules added goes with it.    *)
EnrichCommit(r) ==
    /\ Evaluating(r) /\ RuleFiles[slot[r]] \in Enriching
    /\ fresh[r] # <<>> \/ dirty[r] # NoMerges \/ begun[r] # now
    /\ CommitSession(r)
    /\ begun' = [begun EXCEPT ![r] = now]
    /\ UNCHANGED <<pc, slot, queue, posts, runs, fails, crashes>>

(* The commit at the end of the pass.                                      *)
CommitRun(r) ==
    /\ pc[r] = "eval" /\ slot[r] > Len(RuleFiles)
    /\ CommitSession(r)
    /\ pc' = [pc EXCEPT ![r] = "refresh"]
    /\ UNCHANGED <<slot, begun, queue, posts, runs, fails, crashes>>

(* db.refresh of each new alert, one query each, before any is announced.  *)
Refresh(r, i) ==
    /\ pc[r] = "refresh" /\ i \in created[r]
    /\ created' = [created EXCEPT ![r] = @ \ {i}]
    /\ queue' = [queue EXCEPT ![r] = IF alerts[i].status = "open" THEN @ \cup {i} ELSE @]
    /\ UNCHANGED <<alerts, pc, slot, begun, fresh, dirty, posts, runs, fails, crashes>>

(* notify_alert_opened: at most one webhook call for an alert of the pass, *)
(* in insertion order, whatever the webhook answers.                       *)
Notify(r, i) ==
    /\ pc[r] = "refresh" /\ created[r] = {}
    /\ i \in queue[r] /\ \A j \in queue[r] : i <= j
    /\ queue' = [queue EXCEPT ![r] = @ \ {i}]
    /\ posts' = IF alerts[i].rule \in Loud THEN Append(posts, i) ELSE posts
    /\ UNCHANGED <<alerts, pc, slot, begun, fresh, dirty, created, runs, fails, crashes>>

EndRun(r) ==
    /\ pc[r] = "refresh" /\ created[r] = {} /\ queue[r] = {}
    /\ pc' = [pc EXCEPT ![r] = "idle"]
    /\ UNCHANGED <<alerts, slot, begun, fresh, dirty, created, queue, posts, runs, fails, crashes>>

(* What the session holds and what was to be announced is lost.            *)
Discard(r) ==
    /\ pc' = [pc EXCEPT ![r] = "idle"]
    /\ fresh' = [fresh EXCEPT ![r] = <<>>]
    /\ dirty' = [dirty EXCEPT ![r] = NoMerges]
    /\ created' = [created EXCEPT ![r] = {}]
    /\ queue' = [queue EXCEPT ![r] = {}]
    /\ UNCHANGED <<alerts, slot, begun, posts, runs>>

(* A rule, a query or the commit raises: the loop rolls back, the endpoint *)
(* answers 500 and its session is closed.                                  *)
Fail(r) ==
    /\ pc[r] = "eval" /\ fails < MaxFails
    /\ fails' = fails + 1
    /\ Discard(r)
    /\ UNCHANGED crashes

(* The API process goes down, at any point of the pass.                    *)
Crash(r) ==
    /\ pc[r] # "idle" /\ crashes < MaxCrashes
    /\ crashes' = crashes + 1
    /\ Discard(r)
    /\ UNCHANGED fails

-----------------------------------------------------------------------------
(* The steps a runner takes by itself once its pass has started.           *)
RunStep(r) ==
    \/ NoHit(r)
    \/ \E e \in Entities : HitNew(r, e) \/ HitMerge(r, e)
    \/ EnrichCommit(r)
    \/ CommitRun(r)
    \/ \E i \in created[r] : Refresh(r, i)
    \/ \E i \in queue[r] : Notify(r, i)
    \/ EndRun(r)

RunNext(r) == StartRun(r) \/ RunStep(r) \/ Fail(r) \/ Crash(r)

RunTypeOK ==
    /\ pc \in [Runners -> {"idle", "eval", "refresh"}]
    /\ slot \in [Runners -> 1..(Len(RuleFiles) + 1)]
    /\ begun \in [Runners -> Time]
    /\ fresh \in [Runners -> Seq(PendingAlert)]
    /\ dirty = [r \in Runners |-> dirty[r]]
    /\ \A r \in Runners : /\ DOMAIN dirty[r] \subseteq DOMAIN alerts
                          /\ \A i \in DOMAIN dirty[r] : dirty[r][i] \in PendingMerge
    /\ created \in [Runners -> SUBSET DOMAIN alerts]
    /\ queue \in [Runners -> SUBSET DOMAIN alerts]
    /\ posts \in Seq(Nat) /\ \A n \in DOMAIN posts : posts[n] \in DOMAIN alerts
    /\ runs \in Nat /\ fails \in Nat /\ crashes \in Nat
=============================================================================
