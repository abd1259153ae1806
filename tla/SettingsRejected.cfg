SPECIFICATION Spec
CONSTANTS
    api = api
    apiB = apiB
    apiLoop = apiLoop
    apiReq = apiReq
    apiReq2 = apiReq2
    bReq = bReq
    Replicas = {api}
    Threads = {apiReq}
    Home <- HomeOf
    Requests = {apiReq}
    Looping = {}
    KeyOrder <- AllKeys
    Stale = "stale"
    Silent = "silent"
    Vt = "vt"
    Early = {"stale", "silent", "retention"}
    Env <- EnvOf
    Bodies <- Rejectable
    MaxPatches = 2
    MaxFails = 0
    MaxCrashes = 0
PROPERTY PatchKeepsOthers
