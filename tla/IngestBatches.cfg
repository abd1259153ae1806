SPECIFICATION FairSpec
CONSTANTS
    http = http
    agent = agent
    w1 = w1
    w2 = w2
    w3 = w3
    Writers = {w1, w2, w3}
    Channels = {http, agent}
    Batches <- MixedBatches
    MaxBatches = 4
    MaxFails = 1
CHECK_DEADLOCK FALSE
INVARIANTS NeverOvercounted CountsExact
PROPERTY BatchesEnd
