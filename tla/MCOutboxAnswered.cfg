SPECIFICATION FairSpec
CONSTANTS
    Tasks = {"t1"}
    Messages = {1, 2, 3}
    TaskOf <- FewOfOne
    Kind <- FewKinds
    MaxAttempts = 3
    Batch = 2
    MaxNow = 1
    MaxFaults = 1
    MaxRestarts = 1
PROPERTY
    TerminalReplySent
