# A TLA+ model of DarkGreen SIEM

DarkGreen SIEM is a log collection and detection lab: a FastAPI process (or two
of them behind nginx) over one PostgreSQL database and one directory of YAML
rules. This directory holds TLA+ modules of its stateful parts, the TLC
configurations that check them, and proofs that TLAPS checks.

    tlc -config <run>.cfg MC<Module>.tla     # one run
    tlapm <Module>_proofs.tla                # one proof module

`PROJECT.json` lists the runs, a mutant of the code for each property, the
source lines of every definition, the hazards, the findings and the theorems.
Paths below are relative to `src/services/api/` unless they begin otherwise.

## The system

| Component | State it keeps | Operations |
|---|---|---|
| Detection passes, `rules_engine.py` | a database session (pending inserts, pending merges, list of created alerts) | `run_rules`, from `_rules_loop` every `rule_interval_sec`, from `POST /api/rules/run`, and once at start |
| Alerts and their workflow, `main.py`, `models.py` | tables `alerts`, `alert_audits`, `alert_comments` | status, ack, comment |
| Rule store, `rule_store.py` | the YAML files | list, create, put, delete, enable/disable |
| Lab settings, `lab_settings.py` | `LabState` in the memory of each replica, table `lab_settings` | PATCH and GET setup, loads by the loops, the VT key put back by a lookup |
| Ingest, `ingest.py`, `src/services/normalizers/` | tables `events`, `ingest_stats` | `/api/ingest`, syslog, seed |
| Syslog listener, `syslog_server.py` | `_RateLimiter._buckets`, `_dropped` | datagram received |
| IOC enrichment, `enrich_providers.py`, `vt_enrich.py` | table `ioc_verdicts` | cache lookup, fetch, store; called by `GET /api/enrich`, `GET /api/enrich/vt`, correlation rules and dry-runs |
| Notification, `notify.py` | none | one webhook call per created alert |
| Maintenance, `maintenance.py` | deletes from `events`, inserts into `alerts` | purge, silence alerts |
| Accounts, `auth.py`, `rbac.py` | tables `users`, `tenants`; tokens are signed and not stored | `bootstrap_auth` at start, login, `require_auth`, `require_perm` |
| SLA, `sla.py` | the targets in `LabState` | the badges of an alert, the filter of the alert list, PATCH of the targets |
| Rule validation, `rule_validate.py` | none | `validate_rule_payload` before every write of a rule |
| Search, export, normalizers | none | SQL, layout and text parsing |
| Web UI, log generator, deployment | none of their own | clients and configuration |

They interact through the database, through the rule directory and through the
`LabState` of the process. Endpoints are synchronous functions, so each request
runs in a worker thread with a session of its own. `_rules_loop` and
`_maintenance_loop` run on the event loop of the replica with
`RUN_BACKGROUND_JOBS`, as does the syslog listener. Sessions are
`autoflush=False` (`db.py:37`) and transactions READ COMMITTED: what a session
adds is invisible, even to its own queries, until it is flushed, and no query
takes a row lock. The only lock in the program is the process-wide `_lock` of
`lab_settings.py`, and the VT lookup writes a setting without taking it
(`vt_enrich.py:24`).

What is hard about it:

- passes overlap with each other (loop, request thread, second replica) and
  with analysts, and each decides on what it read earlier;
- an enrich step commits the session of the pass it runs in;
- a pass can fail, or the process die, between a commit and the announcements;
- rule files are rewritten in place under readers that take no lock;
- each replica has its own copy of the settings and writes all of it back, and
  a VT lookup writes one of them at any time;
- channel counters are read, incremented and written back, under row locks
  taken in the order of a batch's events;
- a verdict is looked up, fetched for up to twelve seconds and inserted with
  nothing held in between;
- replicas that start together bootstrap the same rows, and a token outlives
  what it says of its account;
- a rule is evaluated as its file says, with defaults for what it leaves out,
  and the file is completed with other defaults when it is rewritten.

The correctness properties each component should have are those of the table of
runs below; the hazards they answer to are in `PROJECT.json`, each at its line.

## The modules

**`AlertTable`** – the `alerts` table and the pure operations on it. The table
only grows and ids are given in insertion order, so it is a sequence. A "rule"
is a (tenant, rule id) pair, since every query of the engine is restricted to
one of each. `Live`, `Mergeable` and `NoMergeable` are `_find_mergeable` with
its LIMIT; `ApplyAlertStatus` is `apply_alert_status` followed by the UPDATE of
the columns that changed in the session. `hits` is a history column.

**`RuleRuns`** (extends it) – `run_rules`. A runner is a pass with its session:
`fresh` is `session.new`, `dirty` the merged alerts, `begun` the start of the
current transaction (the value of `created_at`'s `now()`), `created` and
`queue` what it has still to refresh and to announce. `NoHit`, `HitNew` and
`HitMerge` are the outcomes of evaluating one rule, `EnrichCommit` the commit
inside `enrich_ioc`, `CommitRun`, `Refresh`, `Notify`, `EndRun` the end of the
pass, `Fail` and `Crash` its early ends. Whether a rule matches, and which
entity, is a free choice.

**`RuleForms`** – what a rule file says, as a record of the fields it names.
`Accepted` and `Validated` are `validate_rule_payload`: what it raises for, and
what it returns; `Switched` is what enabling or disabling leaves in the file;
`Evaluated` is the rule the evaluators make of a file, with their own defaults.
Two constants say what spelling does: `Lowered` is `strip().lower()` of
severities and of the names in an enrich mapping, `Stored` is `strip()[:256]` of
a filter's value, which is not idempotent, as the cut may leave a blank at the
end. A filter's value stands for all its spellings in capitals, since events are
matched in lower case. Validation takes a step for an enrich step if it has a
mapping (`CleanStep`), the evaluators if the mapping is not empty (`StepRead`).

**`RuleEval`** (extends it) – the evaluators. An event is a tenant, a timestamp
and three columns; `Matches` is `_match_filters`; `MatchRule`, `ThresholdBench`
and `CorrelationRule` work on a list of events as the code does, `ThresholdLive`
is the SQL of a pass, `Fetched` the lists a query with ORDER BY and LIMIT may
return. An evaluator returns the set of outcomes that ties leave open. The state
machine around them only lets events arrive and time pass; the properties
compare `Live` (a pass), `Bench` (a dry-run) and `Subjects` (the documents), and
a file with the file after a switch.

**`AlertWorkflow`** (extends `AlertTable`) – status and ack requests, each a
`LoadAlert` (`db.get`), then a `CommitStatus` that writes what it computed from
what it read together with the audit row, or a `DropRequest`. The time it stamps
is some time between its reading (`begun`) and its commit.

**`AlertEngine`** composes the two over one table, with a clock in minutes, and
holds their properties. **`AlertDedup`** adds the refinement to **`DedupBook`**,
the abstract specification of deduplication: per rule and entity a list of
alerts, by their ids; a detection is absorbed by one of them, or opens a new
one, the latter only when no entry is both recent and never closed.

**`AlertSla`** – `sla.py` on the alerts of `AlertEngine` (which it extends):
targets by severity (`Normalized`, `PatchSla`), the two badges of an alert
(`SlaAck`, `SlaClose`, from `StatusFor`) and the list filter
with the cut of its query. `left` and `shut` are history: when the earliest of
the requests began that moved an alert out of `open`, and that closed it.

**`RuleStore`** – `rule_store.py` and the rule endpoints. One step is one
file-system operation: checking that a file exists, opening it (which
truncates it), closing it (which writes the content: a rule file fits in the
stream buffer), unlinking, reading the next file of a listing, in the order of
their names (`todo`, with the rules read so far in `loaded`). A file is absent,
empty, a rule, or garbled by two overlaid writes. **`RuleDirectory`** is its
abstract specification, a map from ids to rules changed by whole requests.

**`LabSettings`** – `lab_settings.py` on several replicas. `Update` and
`CommitSettings` are the two locked halves of a PATCH, `LoadRead` and
`LoadMerge` the SELECT of a load and the copying under the lock; `FetchRow` is
one `_persist_key`: the setting is read from the memory and its row fetched.
`StartRefill` and `Refill` are the check and the write of `enrich_vt`
(vt_enrich.py:22-24, `GET /api/enrich/vt`), which gives the memory the
environment's VT key when it has none, without the lock and over whatever a
PATCH has put there since. `Restart` is `lifespan` over a fresh process.

**`IngestStats`** – the transactions that ingest events and bump the counter of
a channel, at the level of session identity map (`known`), flush (`Send`), row
lock (`owner`) and commit. PostgreSQL's lock waits, key conflict and deadlock
detector are marked external in the map.

**`SyslogServer`** – `datagram_received` and the sliding-window limiter.

**`Maintenance`** – the maintenance loop and the purge request over events that
keep arriving, with a clock. One step is one committed purge, one SELECT of
`evaluate_silence_alerts` (`ReadLast` per tenant, `CheckSource` per source type)
or its commit; `StartSilence` fixes the time silence is judged by. A purge
request is a DELETE and its commit for one tenant. An event's timestamp lies some
of `Lags` before its arrival, so that one may come in already expired. A source is
a (tenant, source type) pair. `newest` and an alert's `silent` are history: what
was ingested, whatever the table still holds.

**`EnrichCache`** – the verdict cache. A caller (pass, dry-run, either endpoint)
works through its list of addresses (`todo`), each (`ioc`) at one provider after
the other (`ask`): a query for a row no older than the TTL, on a miss the call
and its reply or failure, then the insert and commit; between any two of these
others act. A call that fails is stored nowhere and answered `unknown`. Keys come
from the environment or
the stored settings, and `enrich_vt` fills one in. `answered` (when a provider
has answered) and `served` (the newest verdict a caller was given) are history;
an upset is an answer lost with its caller or a change of a key by the operator.

**`Accounts`** – `bootstrap_auth` of several replicas, lookup by lookup up to
its commit, which fails when another replica has inserted a row of the same key;
logins with the environment's fallback; a request as `require_auth` (expiry, the
row of the account, else whether the table is empty) followed by `require_perm`,
or with the machine token; an operator who changes accounts in the database;
crashes. A request keeps the row it read and whether the table was `empty` then;
`removed` is history.

`MC*` modules name the constants of small instances. `*_proofs` modules hold
the theorems.

## The runs

All runs are exhaustive. "–" means no such bound.

| Run | Question | Bounds |
|---|---|---|
| `AlertRaces` | What survives any interleaving of two passes and two analysts? Timestamps match the status (`StatusIsStamped`) and stay (`StampsStay`), every status is audited (`StatusIsAudited`), an alert is announced once (`NotifiedOnce`), merges do not touch the workflow (`MergeKeepsWorkflow`), and what a pass is about to insert has no committed namesake it could see (`PendingIsNews`). Types (`TypeOK`). | 1 rule, 1 entity, 2 passes, 1 failure, 1 crash, 3 requests by 2 analysts, 2 minutes with a cooldown of 1 |
| `AlertSerial` | One pass at a time, is deduplication what README.md:142 says? `NoDuplicateAlert` on rows, `OccurrencesCounted` against the history, `ImplementsBook` as a refinement. Is every severe alert announced unless a pass failed (`LoudAlertIsAnnounced`)? | 2 rules (one enriching), 2 entities, 2 passes, 1 failure, 1 request, 2 minutes |
| `AlertSla` | Does a badge say met only of what was asked for in time (`MetWasInTime`), whoever wrote the timestamps it is computed from, and does a breach stand while the targets stay, but for requests made in time (`BreachStands`)? | 1 rule, 1 pass, 2 analysts, 3 requests, 4 minutes with targets of 1 (acknowledge) and 3 (close), stamps taken at any time between a request's reading and its commit, 1 PATCH of the targets, also one out of range |
| `Evaluations` | Is an alert about someone the documents say the rule is about (`NothingInvented`), found whenever the LIMIT allows (`NothingMissed`)? Does the bench agree with a pass (`BenchAgrees`)? Do tenants not affect each other (`TenantsApart`)? Can an accepted rule be switched off and on, and does that leave its hits and what it asks of providers (`SwitchKeepsHits`)? | 8 files (three match rules, one with a blank before a value and a severity in capitals, one with a value that is cut; a threshold; four correlations, with enrich mappings that are full, partial, in capitals and empty), 2 tenants, 2 addresses, 4 events of 4 kinds, 2 minutes with windows of 1, LIMITs of 2 and 3 |
| `RuleFiles` | Does the directory stay readable (`RestIsReadable`) and is every id declared once (`OneFilePerId`), whatever two clients do? Without overlap, are requests operations of a map of rules (`ImplementsDirectory`)? | 2 files, 2 definitions, 2 clients and a pass, 4 operations, 1 crash |
| `SettingsShared` | Is what a PATCH commits one state of memory (`CommitsOneState`)? Does a PATCH that no load and no other PATCH disturbs store exactly what it names (`CalmPatchIsExact`)? Does the replica with the loops end up with what is stored (`LoopingConverge`)? All of them while VT lookups write the memory without the lock; what they may put in the place of the VT key is the environment's, and once PATCHes have ceased only where the stored key is empty | 3 settings with the VT key, set and cleared, 2 replicas, 2 request threads and the loop, 3 PATCHes, any number of lookups, 1 database error, 1 restart |
| `IngestBatches` | Do counters never exceed events (`NeverOvercounted`), equal them without overlap (`CountsExact`), and does every batch end (`BatchesEnd`)? | 3 writers, 2 channels, batches of 2 in both orders, 4 batches, 1 failure |
| `SyslogRate` | Does the limiter accept at most the limit in any window (`RateBounded`) and refuse only at the limit (`RefusedAtLimit`)? | 2 hosts, limit 2, window 2, 4 datagrams a host, 5 ticks |
| `SilenceRounds` | Is a reported silence real, also with events purged meanwhile (`SilenceIsReal`)? Is a source alerted at most once in the cooldown (`OneAlertPerCooldown`), and never left without an alert for good (`SilenceIsNoticed`)? Do expired events go (`ExpiredEventsGo`)? | 2 tenants, 1 source type, 2 events, any number of purge requests, 1 failing round, 3 minutes with retention and silence threshold of 2 and stale threshold of 1; an event comes in on time or 3 minutes late, and so already expired, at any point of a round |
| `Verdicts` | Does a provider answer the same again within a TTL only to callers that were already asking, or for an answer that was lost (`AnswersAreReused`)? Calls that fail are not counted: nothing of them is kept, and every lookup repeats them. Does a rule match only on a verdict of its tenant and providers that was fresh (`MatchIsJustified`), and always on one the cache holds, whichever other provider fails (`KnownBadIsMatched`)? Does the cache never serve an older verdict than before (`CacheNeverGoesBack`)? | 2 tenants, 1 address, 2 providers, 2 callers, 3 jobs, 1 upset, TTL 1, 2 hours |
| `Logins` | Does a replica serve only over a bootstrapped table (`ServesBootstrapped`)? Does a granted request have the rights its account has, a token's claims counting only while the table is empty and never because a bootstrap is not through (`ActsAsItsAccount`)? Of replicas that start together, does one serve (`SomeReplicaServes`)? | 2 replicas, 1 client, 2 accounts, 2 tenants, 3 starts, 1 login, 2 edits (both accounts deleted, so that the table is empty), 1 crash, token TTL 1, 2 ticks, users table empty or half filled |

Only `AlertRaces` checks a type invariant; those of the other modules are proved
where a theorem rests on them.

Why the bounds are enough: two passes and two requests are what an overlap
needs, and the properties relate pairs of rows, files or writers; cooldowns,
windows and limits are crossed by the clock (cooldown 1 and 2 minutes reach
before, at and after the cutoff); each kind of failure happens once, at every
point it can happen. Three writers are needed in `IngestBatches` for a deadlock
with a bystander; two providers in `Verdicts`, so that one can fail after the
other has answered; two starting replicas, and a third start after a crash, in
`Logins`. `AlertRaces` uses symmetry over analysts, `AlertSla` over requests, `SyslogRate` over hosts,
`Evaluations` over tenants and `Verdicts` over callers, and none of them checks
liveness. Deadlock checking is off only where the
system really stops: when its bounded inputs are used up and all work is done.

### Where documents and code disagree

Each of these is one statement of the documentation, a test, a comment or the
UI that TLC refutes; the counterexample is what the code does. `RulesTornRead`
is a run of the project. The others are reproduced with the configuration in
the second column: a file of this directory that names the property, or a run's
own configuration with the property written in place of its properties.

| Statement | Configuration | What happens |
|---|---|---|
| `NoMatchAllRule`: rule_validate.py:66, match filters are required | `RulesTornRead` | a pass reads a truncated file as a rule that matches every event |
| `NoDuplicateAlert`: README.md:142, a repeat is merged and not a new alert | `AlertRaces` | two overlapping passes insert one alert each |
| | `DedupScanLimit` | more entities have open alerts than the query's LIMIT |
| | `DedupRuleTwice` | two files declare one id, in one pass |
| `EveryLoudAlertIsAnnounced`: README.md:113, webhook on opened alerts | `AlertSerial` | an alert committed by an enrich step is forgotten when a later rule fails |
| `ClosedAtStampsClose`: architecture.md:78, `closed_at` is set on closing | `AlertRaces` | a second close keeps the first one's |
| `AckStaysMet`: README.md:132, the time counts until `open` is left | `AlertSla` | a second request that read the alert open overwrites `acked_at` with a later one |
| `ReclosedLateIsBreached`: README.md:133, close is until `closed` | `AlertSla` | reopened and closed again past its target, it shows met |
| `FilterFindsAll`: README.md:135, `GET /api/alerts?sla=breached` | `SlaFilterCuts` | only the newest alerts are looked at |
| `SuccessFollowsSpray`: spray-then-success.yml:5-6, failures "e poi" a success | `Evaluations` | the steps of a correlation are not compared in time |
| `AnyRecentEventMatches`: architecture.md:72, any recent event | `Evaluations` | the LIMIT leaves some out before the filters are applied |
| `LabelsNarrow`: README.md:139, rules match `labels.*` | `LabelsIgnored` | the SQL of a threshold rule leaves these filters out |
| `AnySwitchKeepsHits`: `SwitchKeepsHits` of any accepted file as it was written | `Evaluations` with `Files <- BareFiles` | a correlation without a window looks 30 minutes back, and 10 once its file has been rewritten |
| | with `EmptyEnrichFiles` | a step with an empty enrich mapping matches every event, and asks VirusTotal once rewritten |
| | with `SpacedFiles` | a value with a blank before it starts to match, and a severity in capitals is put in lower case |
| `DryRunSkipsFetches`: rules_engine.py:359 | `DryRunFetches` | a dry-run calls the providers and commits what they answer |
| `ClearedKeyRests`: tests/test_enrich_keys_correlation.py:46-48 | `Verdicts` | `enrich_vt` puts the environment's key back after the operator has cleared it |
| `CreateNeverOverwrites`: rule_store.py:50-51 | `RuleFiles` | two creates pass the check of each other |
| `DisableSticks`: test_rule_create.py:111-114, a disabled rule loads as disabled | `RulesNameNotId` | a shipped file whose name is not its id stays enabled beside the one that is written |
| `PatchKeepsOthers`: docker-compose.ha.yml:5-6, replicas share overrides | `SettingsLost` | a PATCH writes its replica's stale memory over the other's |
| | `SettingsRejected` | a PATCH answered 400 has changed the memory, and the next one stores it |
| `PatchSticks`: test_lab_ops.py:32-51 | `SettingsShared` | a load, or a VT lookup, between the halves of a PATCH puts another value in the memory |
| `StoredThresholdsOrdered`: lab_settings.py:256-257 | `SettingsShared` | each replica checks against its own memory |
| `OverridesShared`: docker-compose.ha.yml:5-6 | `SettingsShared` | the replica without loops loads only when asked for its setup |
| `SourcesShowEvents`: SourcesPanel.tsx:70 heads the count "Eventi" | `IngestBatches` | concurrent batches of a channel lose increments |
| `OccurrencesCounted` | `LostOccurrence` | overlapping passes lose one |
| `SilenceIsReal` | `SilencePurged` | a retention shorter than the silence threshold, which `update_lab_state` allows |
| `OneAlertPerCooldown` | `SilenceTwice` | two processes run the loop |
| `EveryReplicaServes`: architecture.md:54, two replicas | `Logins` | started together over an empty table, the second commit violates a key and that process exits |
| `LoginIsAccepted`: auth.py:124, a login without a row | `Logins` | its token is refused as soon as the table has an account |

### Fairness

`AlertEngine!FairSpec` makes the steps of a pass weakly fair: the loop is a task
of the event loop and a request a thread, and neither waits for anything but
the database and calls with timeouts. No fairness makes a pass start, a rule
match, a request arrive or the clock advance. `LabSettings!FairSpec` makes the
continuation of whatever a thread has begun weakly fair, and the periodic load
of the replica that runs the loops (`main.py:274`, `main.py:293`); nothing makes
requests or loads happen on the other replica. `IngestStats!FairSpec` makes a
batch in progress weakly fair; a batch in a lock cycle is aborted by
PostgreSQL's deadlock detector, also a step of its writer.
`Maintenance!FairSpec` makes the loop start its rounds (it sleeps for
`purge_interval_sec` and starts another) and what has started go on; nothing
makes the clock advance, so its liveness properties say what the rounds bring
about while it stands still. `Accounts!FairSpec` makes a started `lifespan` run
on to the end of its bootstrap; nothing starts a replica, or starts it again.
The other modules state no fairness: their properties are safety.

## What is proved

The theorems are about every value of the constants, under the assumptions the
modules state about them (cooldowns are naturals, the LIMIT is positive, rule
files are a sequence of rules, requests ask for known statuses; the limiter's
limit is positive; batches are sequences of channels; a shipped file is a valid
rule, and `<id>.yml` and `<id>.yaml` stand for that id; lookups are of known
tenants, addresses and providers, by finitely many callers; and so on). A
theorem that needs more says so as a hypothesis.

**`AlertEngine_proofs`** proves `TypeOK` and the conjunction `IInv` invariant,
and from them `StatusIsStamped`, `PendingIsNews`, `NotifiedOnce` and the action
properties `StampsStay` and `MergeKeepsWorkflow`.
- `StatusIsStamped` is not inductive: a request writes what it computed from an
  old reading. `ReadsAreOld` says that such a reading is itself stamped as its
  status requires and that any timestamp it has the row has by now. As an
  UPDATE leaves columns alone that it did not change, what it leaves is at least
  as stamped as what it read.
- `NotifiedOnce` needs `AnnouncementsAreOwned`: alerts two passes have still to
  announce are disjoint, and none of them is announced yet. New ids are beyond
  the table, so a commit keeps it.
- `PendingIsNews` is kept because alerts only get older, `closed` is never
  cleared, and rows committed after the decision are beyond `seen`; the moment
  of the decision is the lemma `NoMergeableMeansNone`, which counts the rows
  the LIMIT lets through.
- `StatusIsAudited` is inductive as it stands, given the types: a commit that
  changes a status appends the audit row in the same transaction.
- `OccurrencesCounted` and `NoDuplicateAlert` are about passes that do not
  overlap (`OnePassAtATime`). The first needs `MergesAreCounted`: a count in the
  session is the row's plus the merges pending. The second also assumes that a
  rule is declared once (`DistinctRules`) and that no query was cut
  (`[]NeverCut`), each of which a configuration above shows to be needed;
  `PendingIsOrdered` says that pending alerts are of different rules and decided
  on the table as it still is.

- `ImplementsBook` maps the alerts of a rule and entity to their entry in the
  book. A commit inserts pending alerts of different rules at once and counts
  what is merged; under `OnePassAtATime`, `DistinctRules` and `[]NeverCut`, the
  hypotheses of `NoDuplicateAlert`, each of its steps changes the list of one
  pair by one operation of the book, or none.
- For `AlertSla` it proves `MetWasInTime` and `BreachStands`. `SlaIsEngine` (the
  targets aside, the system is `AlertEngine`) brings in the invariant of the
  engine; `StampedNoEarlier` adds that a request that moved an alert out of
  `open`, and one that closed it, was there no later than its columns say. A
  stamp is taken before the commit that shows it, so a badge that shows a breach
  can still turn to met: `BreachStands` says by which requests only.

**`IngestStats_proofs`** proves `TypeOK`, `NeverOvercounted` and `CountsExact`.
`SessionsNeverOvercount` bounds what each open session holds of a
counter by the committed events and its own; another transaction's commit only
raises that bound, which is why a lost update loses counts and never adds them.
`CountsExact` needs that without overlap one batch is in progress
(`OneAtATime`) and that its session holds exactly the committed count and its
own events (`SessionsAreExact`).

For `SyslogServer` it proves `ListenerTypeOK`, `RateBounded` and
`RefusedAtLimit` (`LimiterIsExact`). The invariant `LimiterInv` says that a
host's bucket is the recent end of its accepted datagrams and that everything
before it has left the window.

**`RuleStore_proofs`** proves `TypeOK`, `OneFilePerId` (if every shipped file is
named after its id, `ShippedByName`) and `RestIsReadable`. `ByName` adds to the
first that a request writes to the file named after the id of its rule. `Quiet`
adds to the second that, until requests overlap or crash, at most one is in
progress and an empty file is the one it is writing; `FewStranded` counts the
files that are empty with no writer, by the crashes. `DisabledStays` (under
`ShippedByName`) rests on `Sound`, which puts these together with `Intent`:
while requests have not overlapped, what the one in progress is about to write
or unlink agrees with what its file counted as before it was opened (`Before`).
`ImplementsDirectory` (also under `ShippedByName`) maps the directory to the
rule that the file named after each id holds. The step that counts is the one
that closes the file, or unlinks it; the truncated file in between reads as the
rule it had, which is what `Before` keeps.

**`LabSettings_proofs`** proves `CommitsOneState` and `CalmPatchIsExact`. `LInv`
says that from the first value read to the commit a PATCH holds the lock, and
that the memory, and what has been read of it, is what `held` recorded, but for
a VT key (`Fits`); `CalmInv` that an undisturbed PATCH is alone, that memory is
the stored rows with what it names, again but for a VT key, and that the rows
fetched are the stored ones.

**`Accounts_proofs`** proves `ServesBootstrapped` and `ActsAsItsAccount`.
`BootFound` follows a bootstrap through its lookups: of each row it has passed,
it has found it or will insert it; `AfterBootstrap` says that requests are
answered only over a bootstrapped table.

**`Maintenance_proofs`** proves `TypeOK`, `SilenceIsReal` and
`OneAlertPerCooldown`. The first needs that no event is purged while it still
counts (`Retention` is 0, which keeps all, or at least `SilentAfter`):
`NewestIsThere` says that the newest event of a source is in the table unless
the purge was entitled to it, `ReadIsRight` that what a round read of a source
that was not silent then shows it, and that what is pending is of sources that
are. The second needs one process that runs the loop: `OncePerRound` says that a
round has each source once and has none both pending and still to check,
`PendingIsDue` that what is pending was due when it was looked up and still is.
The configurations `SilencePurged` and `SilenceTwice` show that neither goes
without its hypothesis.

**`EnrichCache_proofs`** proves all four properties of the module. `Shape` says
what a lookup in progress may be, `JobStep` what a step can do to it, and
`NewestThere` that where there are rows one is the newest.
- `CacheNeverGoesBack`: behind what was served there is a row as new (`Backed`),
  and the query takes the newest.
- `MatchIsJustified` holds unless a rule wants the verdict `unknown`
  (`WantKnown`), which is also the answer of a call that failed and of which
  nothing is stored. Rows stay, so a match once justified stays so.
- `KnownBadIsMatched` needs no hypothesis. `Covered` says of each key and each
  provider whose API key is there all along that the lookup is still to come,
  or the key is matched, or it was not known bad when it was looked up; and what
  was not known bad does not become it (`KnownBadStays`), since the rows a step
  began with only age and new ones only supersede.
- `AnswersAreReused` counts, for a window of `Ttl` hours (`Spare`). While no
  verdict from it is stored, each answer is in a caller's hands or lost. From
  the first one stored to the end of the window every query hits
  (`MissIsTotal`), so only the callers that ask already can add to the count,
  and they are not those that hold the answers counted before.

**`RuleEval_proofs`** proves all five properties of the module. The state
machine only grows the table, so `TypeOK` is invariant enough; the rest is about
what an evaluator makes of a table.
- `NothingInvented` and `NothingMissed` compare a list that a query may return
  with the table. `FetchedPicks` describes the list as an injection into the
  rows of the window, onto them if the LIMIT lets all through; `ListsCount`
  turns that into an inequality, or equality, of counts. `SharedMeetAll` says
  that running through the steps of a correlation leaves the keys that meet
  every one of them, the enrich steps included, so their order is immaterial.
- `BenchAgrees` adds `ThresholdBenched`: grouping in Python and grouping in SQL
  have the same groups, and a largest one is among those SQL may return first.
- `TenantsApart`: the window of a tenant is the same in a table without the
  others' rows.
- `SwitchKeepsHits` rests on `SwitchedIsSpelled`, that what validation returns
  is accepted again and, if its values are `Settled`, spelled as validation
  would spell it, and on `SpelledIsKept`, that a file so spelled reads after a
  switch as it did before (`LiveAlike` makes of that the same hits in every
  table). `Settled` excludes only values whose cut leaves a blank at the end.
  For a file that never went through validation the hypothesis is `Spelled`:
  the evaluators take a blank for a value, an empty enrich mapping for none and
  a severity as it is written, and validation does not.

The assumptions are that a rule file has what its type asks for and numbers
where numbers are due (`WellFormed`), that the names the code knows are in lower
case (`TextsAssumption`) and that storing a value twice never blanks it
(`ValuesAssumption`), that rules group and join by columns every
event has, empty ones being null (`PayloadsAssumption`), and that null is no
key. `AnyRecentEventMatches`, `AnySwitchKeepsHits`, `LabelsNarrow` and
`SuccessFollowsSpray` above show what does not hold without `Fits`, `Spelled`,
`Regular`, or at all.

Only model-checked is liveness (`LoudAlertIsAnnounced`, `LoopingConverge`,
`BatchesEnd`, `SilenceIsNoticed`, `ExpiredEventsGo`, `SomeReplicaServes`): it
rests on ENABLED, which the prover cannot reason about.

## What is not modelled, and why

- **Normalizers, search, export, web UI, log generator**: text, SQL and layout
  without state of their own.
- **Passes on data**: `RuleRuns` lets a rule match or not; `RuleEval` says when
  it does; `EnrichCache` has the lookups of its enrich steps. They are not
  composed, since the first needs few outcomes and many interleavings and the
  second the reverse.
- **The normalization of a dry-run's events**; in `RuleEval` a key's verdict is
  a choice.
- **Edges of rule files**: negative numbers, the alias `filters`, an `enrich`
  that is not a map and its `ioc_type`, blanks around column names, MITRE fields,
  names and texts.
- **Lookups with `fetch=False`**: no caller asks for them. The checks of
  provider and IOC names, URLs and headers are left out too.
- **Accounts without authentication** (the playground, where everyone is
  admin), wrong passwords, tokens of the older two-part form, hashing and
  signatures.
- **Minutes elapsed and remaining** of an SLA: figures for display.
- **`record_purge` and `last_event_at`**: figures shown to the operator, which
  nothing else reads.
- **The event loop**: that a pass holds it up is a matter of time only; the
  steps of a pass are those of one process among others.
- **A change of thresholds during a maintenance round**, and the switch that
  turns silence alerts off.
- **Comments**: an insert that nothing else reads.
- **The webhook's answer**: `notify_alert_opened` ignores it, so a call counts
  as made whatever it returns.
- **Settings values**: `LabSettings` has settings that are compared (the two
  health thresholds), one that can be empty (the VT key, cleared by a PATCH) and
  settings that are not distinguished; masking and range
  checks are abstracted to "a late field is bad". `AlertSla` has the range check
  of the targets.

## Plan

Done: the alert engine with its workflow, SLA badges and abstract book, the rule
store with its abstract directory, rule files and their evaluation, lab
settings, ingestion, the syslog listener, maintenance, the verdict cache and
accounts; proofs of every safety property and action property that a run checks.

1. Proofs: that a pass of `RuleRuns` whose outcomes are those of `RuleEval!Live`
   inserts and merges only alerts about subjects of its rules.
2. `Normalizers`: the order in which `dispatch.py` tries sources, and that every
   payload some parser recognizes is taken by one.
3. `Search`: the parts of `query_parse.py` and `alert_search.py` that decide
   what is found (filters, cursors, limits) against a reference definition.
4. `Maintenance` with a round whose thresholds change under it.
