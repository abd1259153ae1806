SPECIFICATION SlaSpec
CONSTANTS
    r1 = r1
    r2 = r2
    r3 = r3
    r4 = r4
    e1 = e1
    loop = loop
    ana1 = ana1
    ana2 = ana2
    Rules = {r1, r2, r3, r4}
    RuleFiles <- FourRules
    Entities = {e1}
    Cooldown <- CooldownOne
    ScanLimit = 50
    Runners = {loop}
    Enriching = {}
    Loud = {}
    MaxRuns = 2
    MaxFails = 0
    MaxCrashes = 0
    Analysts = {ana1}
    Targets = {"open", "in_progress", "closed"}
    MaxPatches = 0
    MaxTime = 5
    Severity <- Severities
    AckMinutes <- Acks
    CloseMinutes <- Closes
    SlaBodies <- Bodies
    MAX_SLA_MINUTES = 8
    MaxSlaPatches = 0
CHECK_DEADLOCK FALSE
INVARIANT FilterFindsAll
