SPECIFICATION Spec
CONSTANTS
    lab = lab
    acme = acme
    firewall = firewall
    windows = windows
    api = api
    apiB = apiB
    Tenants <- TwoTenants
    KnownSources <- OneSource
    Looping = {api, apiB}
    Retention = 2
    Stale = 1
    Silent = 2
    Lags = {0}
    Late = 0
    MaxTime = 3
    MaxEvents = 2
    MaxFails = 1
INVARIANTS OneAlertPerCooldown
