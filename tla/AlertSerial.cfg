SPECIFICATION FairSpec
CONSTANTS
    r1 = r1
    r2 = r2
    e1 = e1
    e2 = e2
    loop = loop
    api = api
    ana1 = ana1
    ana2 = ana2
    Rules = {r1, r2}
    RuleFiles <- TwoRules
    Entities = {e1, e2}
    Cooldown <- CooldownOne
    ScanLimit = 50
    Runners = {loop}
    Enriching = {r2}
    Loud = {r1}
    MaxRuns = 2
    MaxFails = 1
    MaxCrashes = 0
    Analysts = {ana1}
    Targets = {"in_progress", "closed"}
    MaxPatches = 1
    MaxTime = 2
CHECK_DEADLOCK FALSE
INVARIANT OccurrencesCounted
PROPERTIES NoDuplicateAlert ImplementsBook LoudAlertIsAnnounced
