SPECIFICATION Spec
CONSTANTS
    Root = "root"
    Children = {}
    ToolsOf <- LoneTools
    Destructive = {"delete"}
    Steers = {"steer"}
    Cancels = {}
    MaxAttempts = 2
    MaxCalls <- LoneCalls
INVARIANT DeferralKeepsRun
CHECK_DEADLOCK FALSE
