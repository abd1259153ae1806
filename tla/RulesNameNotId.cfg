SPECIFICATION Spec
CONSTANTS
    a = a
    b = b
    d1 = d1
    d2 = d2
    c1 = c1
    c2 = c2
    Engine = engine
    Ids = {a, b}
    Defs = {d1}
    Files <- OddNames
    Stem <- OddStem
    Yml <- OwnYml
    Yaml <- OddYaml
    Shipped <- OddRule
    Clients = {c1}
    MaxOps = 1
    MaxCrashes = 0
CHECK_DEADLOCK FALSE
PROPERTY DisableSticks
