SPECIFICATION LiveSpec
CONSTANTS
    HOST_MAX_TOOL_ROUNDS = 2
    HOST_MAX_WALL_TIME_MS = 1
    ConfigRounds = 3
    ConfigWall = 2
    HasFallback = TRUE
    ModelTimeout = 1
    HookTime = 1
    ToolTime = 1
    MaxFaults = 1
    Calls <- MCCalls
    Catalog <- MCCatalog
    External <- MCExternal
    Writes <- MCWrites
    Retired = {}
    Granted <- MCGranted
    Mutating <- MCMutating
INVARIANT TranscriptFromOneEndpoint
INVARIANT ResultsSentOnce
INVARIANT EffectsAreAccountedFor
INVARIANT SpendsItsBudget
PROPERTY DeliveryEnds
