SPECIFICATION Spec
CONSTANTS
    r1 = r1
    r2 = r2
    e1 = e1
    e2 = e2
    loop = loop
    api = api
    ana1 = ana1
    ana2 = ana2
    Rules = {r1}
    RuleFiles <- OneRule
    Entities = {e1}
    Cooldown <- CooldownOne
    ScanLimit = 50
    Runners = {loop, api}
    Enriching = {r1}
    Loud = {r1}
    MaxRuns = 2
    MaxFails = 1
    MaxCrashes = 1
    Analysts = {ana1, ana2}
    Targets = {"open", "closed"}
    MaxPatches = 3
    MaxTime = 2
CHECK_DEADLOCK FALSE
SYMMETRY Requests
INVARIANTS TypeOK StatusIsStamped StatusIsAudited NotifiedOnce PendingIsNews
PROPERTIES MergeKeepsWorkflow StampsStay
