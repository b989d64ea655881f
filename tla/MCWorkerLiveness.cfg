SPECIFICATION FairSpec
CONSTANTS
    Tasks = {1, 2, 3}
    Scope <- LanesScope
    NoGroup = "none"
    Revokers = {}
    MaxAttempts = 2
    Batch = 1
    GlobalLimit = 1
    TenantLimit = 1
    AppLimit = 1
    GroupLimit = 1
    Results <- OneResult
    MaxFaults = 0
    MaxRestarts = 1
PROPERTIES
    EverySessionServed
    EveryTaskSettles
