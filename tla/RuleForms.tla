----------------------------- MODULE RuleForms ------------------------------
(***************************************************************************)
(* What a rule file says (an operator's YAML, or what the API stored), as  *)
(* a record of the fields it names: how rule_validate.py completes it      *)
(* before save_rule writes it, and what the evaluators of rules_engine.py  *)
(* make of a field it leaves out. The rule's names and texts and a step's  *)
(* ioc_type are left out, and a match value stands for all its spellings   *)
(* in capitals: events are matched in lower case.                          *)
(***************************************************************************)
EXTENDS Integers, FiniteSets, FiniteSetsExt, SequencesExt

CONSTANTS
    EvaluatorWindow,    \* window_minutes of a rule without, by type (10, 5, 30)
    FormWindow,         \* the one validation fills in (10)
    FormCooldown,       \* and the cooldown_minutes (15)
    MAX_WINDOW_MINUTES, MAX_THRESHOLD, MAX_MATCH_KEYS,
    ALLOWED_MATCH_KEYS, ALLOWED_GROUP_BY,
    Texts, Lowered,     \* severities and names as files spell them; strip and lower
    Values, Stored      \* values of filters; strip, and cut at 256 characters

TYPES == {"match", "threshold", "correlation"}
SEVERITIES == {"critical", "high", "medium", "low", "info"}
ENRICH_PROVIDERS == {"vt", "abuseipdb", "otx"}
ENRICH_VERDICTS == {"malicious", "suspicious", "harmless", "undetected", "unknown"}
MAX_CORRELATION_STEPS == 4

ASSUME WindowsAssumption == /\ EvaluatorWindow \in [TYPES -> Nat \ {0}]
                            /\ {MAX_WINDOW_MINUTES, MAX_THRESHOLD} \subseteq Nat
                            /\ {FormWindow, FormCooldown} \subseteq 1..MAX_WINDOW_MINUTES

Blank == ""
NoFilters == [col \in {} |-> {}]

ASSUME KeysAllowedAssumption == IsFiniteSet(ALLOWED_MATCH_KEYS) /\ MAX_MATCH_KEYS \in Nat
ASSUME TextsAssumption ==
    LET names == SEVERITIES \cup ENRICH_PROVIDERS \cup ENRICH_VERDICTS
    IN  /\ names \subseteq Texts /\ Lowered \in [Texts -> Texts]
        /\ \A x \in names : Lowered[x] = x

(* The cut may leave a blank at the end, so storing a value again may      *)
(* change it again; but never to nothing.                                  *)
ASSUME ValuesAssumption ==
    /\ Blank \in Values /\ Stored \in [Values -> Values] /\ Stored[Blank] = Blank
    /\ \A v \in Values : Stored[v] # Blank => Stored[Stored[v]] # Blank

(* {**d, **e}: d with the fields of e                                      *)
Updated(d, e) == [x \in DOMAIN d \cup DOMAIN e |-> IF x \in DOMAIN e THEN e[x] ELSE d[x]]

(* data.get(field) or default                                              *)
Text(d, field, default) == IF field \in DOMAIN d /\ d[field] # Blank THEN d[field] ELSE default
Number(d, field, default) == IF field \in DOMAIN d /\ d[field] # 0 THEN d[field] ELSE default
Clamped(n) == Max({1, Min({MAX_WINDOW_MINUTES, n})})
MatchOf(d) == IF "match" \in DOMAIN d THEN d.match ELSE NoFilters

(* What the mapping of an enrich step asks for: of whom, and to hear what. *)
Names(enrich, field, default) ==
    IF field \in DOMAIN enrich /\ enrich[field] # {} THEN enrich[field] ELSE default

EnrichRead(enrich) == [providers |-> Names(enrich, "providers", {"vt"}),
                       verdicts |-> Names(enrich, "verdicts", {"malicious", "suspicious"})]

-----------------------------------------------------------------------------
(* _clean_match: values are stripped and cut; blank ones go, and filters   *)
(* left with none.                                                         *)
StoredValues(values) == { Stored[v] : v \in values } \ {Blank}

CleanMatch(filters) ==
    [col \in { c \in DOMAIN filters : StoredValues(filters[c]) # {} } |-> StoredValues(filters[col])]

MatchAccepted(filters) ==
    /\ DOMAIN CleanMatch(filters) # {}
    /\ DOMAIN filters \subseteq ALLOWED_MATCH_KEYS
    /\ Cardinality(DOMAIN filters) <= MAX_MATCH_KEYS

(* A step is taken for an enrich step if it has an enrich mapping, be it   *)
(* empty.                                                                  *)
CleanEnrich(enrich) ==
    LET read == EnrichRead(enrich)
    IN  [providers |-> { Lowered[x] : x \in read.providers },
         verdicts |-> { Lowered[x] : x \in read.verdicts }]

StepAccepted(step) ==
    IF "enrich" \in DOMAIN step
    THEN LET clean == CleanEnrich(step.enrich)
         IN  clean.providers \subseteq ENRICH_PROVIDERS /\ clean.verdicts \subseteq ENRICH_VERDICTS
    ELSE /\ MatchAccepted(MatchOf(step))
         /\ Number(step, "min_count", 1) \in 1..MAX_THRESHOLD

(* Mutant: a step is stored without its count.                             *)
CleanStepUncounted(step) ==
    IF "enrich" \in DOMAIN step THEN [enrich |-> CleanEnrich(step.enrich)]
    ELSE [match |-> CleanMatch(MatchOf(step))]

CleanStep(step) ==
    IF "enrich" \in DOMAIN step THEN [enrich |-> CleanEnrich(step.enrich)]
    ELSE [match |-> CleanMatch(MatchOf(step)), min_count |-> Number(step, "min_count", 1)]

(* validate_rule_payload: what it raises for, and what it returns. A       *)
(* correlation rule gets the match of its first matching step, for show.   *)
Accepted(d) ==
    /\ Lowered[Text(d, "severity", "medium")] \in SEVERITIES
    /\ CASE d.type = "match" -> MatchAccepted(MatchOf(d))
         [] d.type = "threshold" -> /\ MatchAccepted(MatchOf(d))
                                    /\ Number(d, "threshold", 0) \in 1..MAX_THRESHOLD
                                    /\ Text(d, "group_by", "user") \in ALLOWED_GROUP_BY
         [] d.type = "correlation" -> /\ Text(d, "join_on", "src_ip") \in ALLOWED_GROUP_BY
                                      /\ Len(d.steps) \in 2..MAX_CORRELATION_STEPS
                                      /\ \A n \in DOMAIN d.steps : StepAccepted(d.steps[n])

Shown(steps) ==
    LET matching == SelectSeq(steps, LAMBDA s : "match" \in DOMAIN s)
    IN  IF matching = <<>> THEN [source_type |-> {"windows"}] ELSE matching[1].match

Validated(d) ==
    Updated(
        [type |-> d.type, severity |-> Lowered[Text(d, "severity", "medium")],
         enabled |-> "enabled" \in DOMAIN d => d.enabled,
         window_minutes |-> Clamped(Number(d, "window_minutes", FormWindow)),
         cooldown_minutes |-> Clamped(Number(d, "cooldown_minutes", FormCooldown))],
        CASE d.type = "match" -> [match |-> CleanMatch(MatchOf(d))]
          [] d.type = "threshold" -> [match |-> CleanMatch(MatchOf(d)), threshold |-> d.threshold,
                                      group_by |-> Text(d, "group_by", "user")]
          [] d.type = "correlation" ->
                LET steps == [n \in DOMAIN d.steps |-> CleanStep(d.steps[n])]
                IN  [join_on |-> Text(d, "join_on", "src_ip"), steps |-> steps,
                     match |-> Shown(steps)])

(* set_rule_enabled: the file as loaded, validated again; one that is not  *)
(* accepted stays as it is.                                                *)
Switched(d, on) == IF Accepted(d) THEN Validated(Updated(d, [enabled |-> on])) ELSE d

-----------------------------------------------------------------------------
(* What the evaluators read in a file. To them a step with an empty enrich *)
(* mapping is one that matches events: all of them, if it has no filters.  *)
StepRead(step) ==
    IF "enrich" \in DOMAIN step /\ DOMAIN step.enrich # {}
    THEN [enrich |-> EnrichRead(step.enrich)]
    ELSE [match |-> MatchOf(step), min_count |-> Number(step, "min_count", 1)]

Evaluated(d) ==
    LET window == Number(d, "window_minutes", EvaluatorWindow[d.type])
        default == CASE d.type = "match" -> "medium" [] d.type = "threshold" -> "high"
                     [] d.type = "correlation" -> "critical"
        steps == IF "steps" \in DOMAIN d THEN d.steps ELSE <<>>
    IN  [type |-> d.type, window |-> window, severity |-> Text(d, "severity", default),
         cooldown |-> Number(d, "cooldown_minutes", window),
         match |-> MatchOf(d), threshold |-> Number(d, "threshold", 5),
         group_by |-> Text(d, "group_by", "user"), join_on |-> Text(d, "join_on", "src_ip"),
         steps |-> [n \in DOMAIN steps |-> StepRead(steps[n])]]
=============================================================================
