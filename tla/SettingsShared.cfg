SPECIFICATION FairSpec
CONSTANTS
    api = api
    apiB = apiB
    apiLoop = apiLoop
    apiReq = apiReq
    apiReq2 = apiReq2
    bReq = bReq
    Replicas = {api, apiB}
    Threads = {apiLoop, apiReq, bReq}
    Home <- HomeOf
    Requests = {apiReq, bReq}
    Looping = {apiLoop}
    KeyOrder <- ThreeKeys
    Stale = "stale"
    Silent = "silent"
    Vt = "vt"
    Early = {"stale", "silent"}
    Env <- EnvOf
    Bodies <- Shared
    MaxPatches = 3
    MaxFails = 1
    MaxCrashes = 1
PROPERTIES CalmPatchIsExact CommitsOneState LoopingConverge
