SPECIFICATION Spec
CONSTANTS
    Tasks = {1, 2, 3}
    Scope <- QueueScope
    NoGroup = "none"
    Revokers = {1}
    MaxAttempts = 2
    Batch = 2
    GlobalLimit = 2
    TenantLimit = 2
    AppLimit = 2
    GroupLimit = 1
    Results <- OneResult
    MaxFaults = 1
    MaxRestarts = 1
INVARIANTS
    TypeOK
    SessionExclusive
    LimitsHold
    NothingStranded
    OneRunPerSession
    MembersOwnTheirRow
PROPERTIES
    TerminalIsFinal
    FinalizationOnlyFails
    ImplementsLifecycle
