---------------------------- MODULE EnrichCache -----------------------------
(***************************************************************************)
(* enrich_providers.py and vt_enrich.py: what the providers say of an IOC, *)
(* kept in the ioc_verdicts table for Ttl hours. A caller (a detection     *)
(* pass, a dry-run, GET /api/enrich and /api/enrich/vt) works through      *)
(* lookups of an IOC at a provider: a query of the cache, on a miss a call *)
(* of up to 12 seconds outside any lock, then an insert and a commit.      *)
(***************************************************************************)
EXTENDS Integers, Sequences, FiniteSets, FiniteSetsExt, Functions

CONSTANTS
    Tenants, Iocs,
    IocType,        \* "ip", "domain" or "url"
    Providers,      \* of ALLOWED_PROVIDERS
    EnvKeys,        \* providers whose API key the environment gives
    Figures,        \* what each provider's reply may report of an IOC
    Callers, Jobs,  \* who looks up, and the lookups they may be after
    Ttl,            \* vt_cache_ttl_hours
    MaxJobs, MaxUpsets, MaxTime  \* bounds; upsets are lost answers and edits of keys

ASSUME TtlAssumption == Ttl \in Nat \ {0}
ASSUME CallersAssumption == IsFiniteSet(Callers)
ASSUME BoundsAssumption == {MaxJobs, MaxUpsets, MaxTime} \subseteq Nat
ASSUME KeysAssumption == EnvKeys \subseteq Providers
                         /\ Providers \subseteq {"vt", "abuseipdb", "otx"}

(* What rule_validate lets through and the endpoints ask for.              *)
ASSUME JobsAssumption ==
    \A j \in Jobs : /\ j.kind \in {"pass", "dry-run", "vt", "multi"}
                    /\ j.tenant \in Tenants /\ j.iocs \subseteq Iocs
                    /\ j.providers \in Seq(Providers)

VARIABLES
    now,            \* in hours
    table,          \* ioc_verdicts: it only grows
    keys, stored,   \* providers with a key: in LabState, in lab_settings if set there
    job,            \* what each caller is in the middle of
    answered,       \* history: when a provider has answered, in order
    served,         \* history: fetched_at of the newest verdict given to a caller, or
                    \* of the one last served from the cache
    cleared,        \* history: providers whose key the operator took away last
    jobs, edits, crashes

counters == <<jobs, edits, crashes>>
settings == <<keys, stored, cleared>>
vars == <<now, table, job, answered, served, settings, counters>>

Nothing == "nothing"
Idle == [pc |-> "idle"]
NoRow == [at |-> -1]
Subject == Tenants \X Providers \X Iocs

Init ==
    /\ now = 0 /\ table = <<>>
    /\ keys = EnvKeys /\ stored = {} /\ cleared = {}
    /\ job = [c \in Callers |-> Idle]
    /\ answered = [s \in Subject |-> <<>>] /\ served = [s \in Subject |-> -1]
    /\ jobs = 0 /\ edits = 0 /\ crashes = 0

-----------------------------------------------------------------------------
(* classify_vt_stats and the thresholds of _fetch_abuseipdb, _fetch_otx.   *)
Verdict(p, f) ==
    CASE p = "vt" -> IF f.malicious > 0 THEN "malicious"
                     ELSE IF f.suspicious > 0 THEN "suspicious"
                     ELSE IF f.harmless > 0 THEN "harmless"
                     ELSE IF f.undetected > 0 THEN "undetected" ELSE "unknown"
      [] p = "abuseipdb" -> IF f >= 75 THEN "malicious" ELSE IF f >= 25 THEN "suspicious" ELSE "harmless"
      [] p = "otx" -> IF f >= 3 THEN "malicious" ELSE IF f >= 1 THEN "suspicious" ELSE "harmless"

(* A provider that knows nothing of the type is not called.                *)
Supports(p, type) ==
    CASE p = "vt" -> TRUE [] p = "abuseipdb" -> type = "ip" [] p = "otx" -> type # "url"

(* HTTP 404 is an answer to vt and otx, an error to abuseipdb.             *)
Answers(p, type) ==
    IF ~Supports(p, type) THEN {"unknown"}
    ELSE { Verdict(p, f) : f \in Figures[p] }
         \cup (IF p = "abuseipdb" THEN {} ELSE {"undetected"})

-----------------------------------------------------------------------------
RowsOf(s) == { n \in DOMAIN table : table[n].of = s }

(* Mutants: the tenant is left out of the query; the row inserted last is  *)
(* taken for the newest.                                                   *)
NewestOfAnyTenant(s) ==
    LET rows == { n \in DOMAIN table : table[n].of[2] = s[2] /\ table[n].of[3] = s[3] }
    IN  { n \in rows : \A m \in rows : table[m].at <= table[n].at }

NewestInserted(s) == { n \in RowsOf(s) : \A m \in RowsOf(s) : m <= n }

(* ORDER BY fetched_at DESC LIMIT 1; of equals, either.                    *)
Newest(s) == { n \in RowsOf(s) : \A m \in RowsOf(s) : table[m].at <= table[n].at }

(* Mutant: a verdict is stale on the very instant.                         *)
FreshStrictly(n) == now - table[n].at < Ttl

Fresh(n) == now - table[n].at <= Ttl

(* _cache_get.                                                             *)
Cached(s) == { n \in Newest(s) : Fresh(n) }

-----------------------------------------------------------------------------
Looking(c) == job[c].pc = "look" /\ job[c].ask # <<>>
Provider(c) == Head(job[c].ask)
Of(c) == <<job[c].tenant, Provider(c), job[c].ioc>>

RuleStep(J) == J.kind \in {"pass", "dry-run"}

(* The next IOC, any of those left, to be asked of each provider in turn.  *)
Turns(J) ==
    IF J.todo = {} THEN {[J EXCEPT !.ask = <<>>]}
    ELSE { [J EXCEPT !.ioc = i, !.todo = @ \ {i}, !.ask = J.asked] : i \in J.todo }

(* Mutant: the first provider to answer "unknown" decides.                 *)
RestAfterFirst(J, verdict) ==
    IF Len(J.ask) = 1 \/ (RuleStep(J) /\ verdict \in J.wanted \cup {"unknown"}) THEN Turns(J)
    ELSE {[J EXCEPT !.ask = Tail(@)]}

(* A wanted verdict settles its IOC for a rule; GET /api/enrich asks all.  *)
Rest(J, verdict) ==
    IF Len(J.ask) = 1 \/ (RuleStep(J) /\ verdict \in J.wanted) THEN Turns(J)
    ELSE {[J EXCEPT !.ask = Tail(@)]}

Noted(J, verdict) ==
    [J EXCEPT !.pc = "look",
              !.matched = @ \cup (IF verdict \in J.wanted THEN {J.ioc} ELSE {})]

Answered(c, verdict) ==
    \E J \in Rest(Noted(job[c], verdict), verdict) : job' = [job EXCEPT ![c] = J]

(* enrich_ioc without an API key: available is False.                      *)
NotConfigured(c) ==
    /\ Looking(c) /\ Provider(c) \notin keys
    /\ Answered(c, Nothing)
    /\ UNCHANGED <<now, table, answered, served, settings, counters>>

ServeCached(c) ==
    /\ Looking(c) /\ Provider(c) \in keys
    /\ \E n \in Cached(Of(c)) :
          /\ Answered(c, table[n].verdict)
          /\ served' = [served EXCEPT ![Of(c)] = table[n].at]
    /\ UNCHANGED <<now, table, answered, settings, counters>>

StartFetch(c) ==
    /\ Looking(c) /\ Provider(c) \in keys /\ Cached(Of(c)) = {}
    /\ job' = [job EXCEPT ![c].pc = "fetch"]
    /\ UNCHANGED <<now, table, answered, served, settings, counters>>

(* Timeout, HTTP error, garbled reply: the caller is given "unknown", and  *)
(* nothing is stored, so that the next lookup calls again.                 *)
FetchFails(c) ==
    /\ job[c].pc = "fetch" /\ Supports(Provider(c), IocType[job[c].ioc])
    /\ Answered(c, "unknown")
    /\ UNCHANGED <<now, table, answered, served, settings, counters>>

(* fetched_at is taken when the reply is in, before the insert.            *)
FetchReturns(c) ==
    /\ job[c].pc = "fetch"
    /\ \E v \in Answers(Provider(c), IocType[job[c].ioc]) :
          job' = [job EXCEPT ![c].pc = "store",
                             ![c].row = [of |-> Of(c), verdict |-> v, at |-> now]]
    /\ answered' = IF Supports(Provider(c), IocType[job[c].ioc])
                   THEN [answered EXCEPT ![Of(c)] = Append(@, now)] ELSE answered
    /\ UNCHANGED <<now, table, served, settings, counters>>

Store(c) ==
    /\ job[c].pc = "store"
    /\ table' = Append(table, job[c].row)
    /\ Answered(c, job[c].row.verdict)
    /\ served' = [served EXCEPT ![Of(c)] = Max({@, job[c].row.at})]
    /\ UNCHANGED <<now, answered, settings, counters>>

-----------------------------------------------------------------------------
(* keys_matching_enrich, enrich_multi: the IOCs in any order, the providers*)
(* in the order given. known and kept are history: the rows there were,    *)
(* and the providers whose key is there all along.                         *)
Start(c, j) ==
    /\ job[c] = Idle /\ jobs < MaxJobs
    /\ \E J \in Turns([pc |-> "look", kind |-> j.kind, tenant |-> j.tenant, wanted |-> j.wanted,
                       iocs |-> j.iocs, todo |-> j.iocs, ioc |-> Nothing,
                       asked |-> j.providers, ask |-> <<>>, matched |-> {}, row |-> NoRow,
                       began |-> now, known |-> Len(table), kept |-> keys \cap Range(j.providers)]) :
          job' = [job EXCEPT ![c] = J]
    /\ jobs' = jobs + 1
    (* enrich_vt puts the environment's key back in memory. *)
    /\ keys' = IF j.kind = "vt" THEN keys \cup (EnvKeys \cap {"vt"}) ELSE keys
    /\ UNCHANGED <<now, table, answered, served, stored, cleared, edits, crashes>>

Finish(c) ==
    /\ job[c].pc = "look" /\ job[c].ask = <<>>
    /\ job' = [job EXCEPT ![c] = Idle]
    /\ UNCHANGED <<now, table, answered, served, settings, counters>>

(* The process dies, or the database refuses the insert: the one point at  *)
(* which something is lost.                                                *)
LoseAnswer(c) ==
    /\ job[c].pc = "store" /\ edits + crashes < MaxUpsets
    /\ crashes' = crashes + 1
    /\ job' = [job EXCEPT ![c] = Idle]
    /\ UNCHANGED <<now, table, answered, served, settings, jobs, edits>>

KeptUnder(K) == [c \in Callers |-> IF job[c] = Idle THEN Idle ELSE [job[c] EXCEPT !.kept = @ \cap K]]

(* PATCH /api/setup sets a key or clears it, and stores all keys.          *)
PatchKey(p, K) ==
    /\ edits + crashes < MaxUpsets /\ K \in {keys \cup {p}, keys \ {p}}
    /\ edits' = edits + 1
    /\ keys' = K /\ stored' = {K}
    /\ cleared' = IF p \in K THEN cleared \ {p} ELSE cleared \cup {p}
    /\ job' = KeptUnder(K)
    /\ UNCHANGED <<now, table, answered, served, jobs, crashes>>

(* load_lab_settings_from_db, of the loops and GET /api/enrich.            *)
LoadKeys ==
    /\ \E K \in stored : K # keys /\ keys' = K /\ job' = KeptUnder(K)
    /\ UNCHANGED <<now, table, answered, served, stored, cleared, counters>>

Tick == now < MaxTime /\ now' = now + 1 /\ UNCHANGED <<table, job, answered, served, settings, counters>>

Lookup(c) ==
    \/ NotConfigured(c) \/ ServeCached(c)
    \/ StartFetch(c) \/ FetchFails(c) \/ FetchReturns(c) \/ Store(c)

Next ==
    \/ \E c \in Callers : Lookup(c) \/ Finish(c) \/ LoseAnswer(c) \/ \E j \in Jobs : Start(c, j)
    \/ \E p \in Providers, K \in SUBSET Providers : PatchKey(p, K)
    \/ LoadKeys \/ Tick

Spec == Init /\ [][Next]_vars

-----------------------------------------------------------------------------
(* An answer is used for Ttl hours: of one IOC and tenant a provider       *)
(* answers at most once per caller in that time, though nothing keeps two  *)
(* callers from missing the cache together, and once more only for an      *)
(* answer that was lost before it was stored. Nothing is said of calls     *)
(* that fail: they leave nothing in the cache and are repeated by every    *)
(* lookup (enrich_providers.py:204-257).                                   *)
AnswersAreReused ==
    \A s \in Subject, t \in 0..MaxTime :
        Cardinality({ n \in DOMAIN answered[s] : answered[s][n] \in t..(t + Ttl) })
            <= Cardinality(Callers) + crashes

(* The cache never serves a verdict older than one a caller has been given,*)
(* however late a slow caller's insert is committed                        *)
(* (enrich_providers.py:56-66, 244-257).                                   *)
CacheNeverGoesBack == [][\A s \in Subject : served'[s] >= served[s]]_vars

RuleDone(c) == job[c].pc = "look" /\ job[c].ask = <<>> /\ RuleStep(job[c])
Wanted(n, c) == table[n].verdict \in job[c].wanted

Justified(c, i) ==
    \E p \in Range(job[c].asked) : \E n \in RowsOf(<<job[c].tenant, p, i>>) :
        Wanted(n, c) /\ table[n].at + Ttl >= job[c].began

(* A key a rule's enrich step keeps has a wanted verdict of the rule's     *)
(* tenant and providers, no older than Ttl when the step began             *)
(* (enrich_providers.py:300-328).                                          *)
MatchIsJustified ==
    \A c \in Callers : RuleDone(c) => \A i \in job[c].matched : Justified(c, i)

(* The cache held a wanted verdict when the step began, still good now and *)
(* not superseded since.                                                   *)
KnownBad(c, s) ==
    LET known == { n \in RowsOf(s) : n <= job[c].known }
    IN  \E n \in known :
            /\ \A m \in known : table[m].at <= table[n].at
            /\ \A m \in RowsOf(s) : table[m].at >= table[n].at => Wanted(m, c)
            /\ Fresh(n)

(* A key known bad is kept, whichever of the other providers fail: what is *)
(* still known bad at the step's end is matched                            *)
(* (enrich_providers.py:314-327).                                          *)
KnownBadIsMatched ==
    \A c \in Callers : RuleDone(c) =>
        \A i \in job[c].iocs, p \in job[c].kept :
            KnownBad(c, <<job[c].tenant, p, i>>) => i \in job[c].matched

(* rules_engine.py:359: a dry-run skips live fetches. Refuted.             *)
DryRunSkipsFetches == \A c \in Callers : job[c].pc \in {"fetch", "store"} => job[c].kind # "dry-run"

(* test_enrich_keys_correlation.py:46-48: a cleared key is not configured. *)
(* Refuted: GET /api/enrich/vt takes the environment's again.              *)
ClearedKeyRests == keys \cap cleared = {}
=============================================================================
