SPECIFICATION Spec
CONSTANTS
    lab = lab
    acme = acme
    ip1 = ip1
    ip2 = ip2
    Tenants = {lab, acme}
    Keys = {ip1, ip2}
    Payloads <- Logins
    Files <- AllFiles
    EvaluatorWindow <- EvaluatorWindows
    FormWindow = 1
    FormCooldown = 2
    MAX_WINDOW_MINUTES = 3
    MAX_THRESHOLD = 3
    MAX_MATCH_KEYS = 1
    Texts <- Spellings
    Lowered <- LowerCase
    Values <- MatchValues
    Stored <- Shortened
    ALLOWED_MATCH_KEYS <- Columns
    ALLOWED_GROUP_BY <- KeyColumns
    MatchLimit = 2
    JoinLimit = 3
    MaxEvents = 4
    MaxTime = 2
CHECK_DEADLOCK FALSE
INVARIANTS NothingInvented NothingMissed BenchAgrees TenantsApart SwitchKeepsHits
SYMMETRY Symmetry
