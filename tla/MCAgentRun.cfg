SPECIFICATION Spec
CONSTANTS
    Root = "root"
    Children = {"child"}
    ToolsOf <- TeamTools
    Destructive = {"delete"}
    Steers = {"steer"}
    Cancels = {"cancel"}
    MaxAttempts = 2
    MaxCalls <- TeamCalls
INVARIANTS
    TypeOK
    AppliedIsSaved
    NoControlStranded
    
    SentIsApproved
PROPERTIES
    ImplementsRunLifecycle
    TaskSettles
CHECK_DEADLOCK FALSE
