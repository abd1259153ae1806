SPECIFICATION FairSpec
CONSTANTS
    api = api
    apiB = apiB
    analyst = analyst
    viewer = viewer
    lab = lab
    acme = acme
    cl = cl
    Replicas = {api, apiB}
    Clients = {cl}
    Names = {analyst, viewer}
    Demo = analyst
    Viewer = viewer
    Tenants = {lab, acme}
    Default = lab
    FirstRows <- Tables
    Ttl = 1
    Asked = {"search", "ingest"}
    Rows <- Changed
    MaxStarts = 3
    MaxEdits = 2
    MaxLogins = 1
    MaxCrashes = 1
    MaxTime = 2
CHECK_DEADLOCK FALSE
INVARIANTS ServesBootstrapped ActsAsItsAccount
PROPERTY SomeReplicaServes
