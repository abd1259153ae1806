SPECIFICATION Spec
CONSTANTS
    lab = lab
    acme = acme
    ip1 = ip1
    host1 = host1
    c1 = c1
    c2 = c2
    Tenants = {lab, acme}
    Iocs = {ip1}
    IocType <- Types
    Providers = {"vt", "abuseipdb"}
    EnvKeys = {"vt", "abuseipdb"}
    Figures <- Reports
    Callers = {c1, c2}
    Jobs <- Benches
    Ttl = 1
    MaxJobs = 3
    MaxUpsets = 1
    MaxTime = 2
CHECK_DEADLOCK FALSE
SYMMETRY Symmetry
INVARIANT DryRunSkipsFetches
