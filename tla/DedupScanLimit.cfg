SPECIFICATION Spec
CONSTANTS
    r1 = r1
    r2 = r2
    e1 = e1
    e2 = e2
    loop = loop
    api = api
    ana1 = ana1
    ana2 = ana2
    Rules = {r1}
    RuleFiles <- OneRule
    Entities = {e1, e2}
    Cooldown <- CooldownOne
    ScanLimit = 1
    Runners = {loop}
    Enriching = {}
    Loud = {}
    MaxRuns = 3
    MaxFails = 0
    MaxCrashes = 0
    Analysts = {}
    Targets = {}
    MaxPatches = 0
    MaxTime = 1
CHECK_DEADLOCK FALSE
PROPERTY NoDuplicateAlert
