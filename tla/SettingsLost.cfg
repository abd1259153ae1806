SPECIFICATION Spec
CONSTANTS
    api = api
    apiB = apiB
    apiLoop = apiLoop
    apiReq = apiReq
    apiReq2 = apiReq2
    bReq = bReq
    Replicas = {api, apiB}
    Threads = {apiReq, bReq}
    Home <- HomeOf
    Requests = {apiReq, bReq}
    Looping = {}
    KeyOrder <- AllKeys
    Stale = "stale"
    Silent = "silent"
    Vt = "vt"
    Early = {"stale", "silent", "retention"}
    Env <- EnvOf
    Bodies <- OneEach
    MaxPatches = 2
    MaxFails = 0
    MaxCrashes = 0
PROPERTY PatchKeepsOthers
