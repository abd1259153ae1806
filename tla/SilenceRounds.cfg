SPECIFICATION FairSpec
CONSTANTS
    lab = lab
    acme = acme
    firewall = firewall
    windows = windows
    api = api
    apiB = apiB
    Tenants <- TwoTenants
    KnownSources <- OneSource
    Looping = {api}
    Retention = 2
    Stale = 1
    Silent = 2
    Lags = {0, 3}
    Late = 3
    MaxTime = 3
    MaxEvents = 2
    MaxFails = 1
INVARIANTS SilenceIsReal OneAlertPerCooldown
PROPERTIES SilenceIsNoticed ExpiredEventsGo
