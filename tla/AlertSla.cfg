SPECIFICATION SlaSpec
CONSTANTS
    r1 = r1
    r2 = r2
    r3 = r3
    r4 = r4
    e1 = e1
    loop = loop
    ana1 = ana1
    ana2 = ana2
    Rules = {r1}
    RuleFiles <- OneRule
    Entities = {e1}
    Cooldown <- CooldownOne
    ScanLimit = 50
    Runners = {loop}
    Enriching = {}
    Loud = {}
    MaxRuns = 1
    MaxFails = 0
    MaxCrashes = 0
    Analysts = {ana1, ana2}
    Targets = {"open", "in_progress", "closed"}
    MaxPatches = 3
    MaxTime = 4
    Severity <- Severities
    AckMinutes <- Acks
    CloseMinutes <- Closes
    SlaBodies <- Bodies
    MAX_SLA_MINUTES = 8
    MaxSlaPatches = 1
CHECK_DEADLOCK FALSE
SYMMETRY Requests
INVARIANTS MetWasInTime
PROPERTIES BreachStands
