SPECIFICATION ListenerSpec
CONSTANTS
    h1 = h1
    h2 = h2
    Hosts = {h1, h2}
    Limit = 2
    Window = 2
    MaxTime = 5
    MaxDatagrams = 4
CHECK_DEADLOCK FALSE
SYMMETRY Senders
INVARIANTS RateBounded RefusedAtLimit
