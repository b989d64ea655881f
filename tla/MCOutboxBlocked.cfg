SPECIFICATION FairSpec
CONSTANTS
    Tasks = {"t1"}
    Messages = {1, 2, 3}
    TaskOf <- FewOfOne
    Kind <- FewKinds
    MaxAttempts = 2
    Batch = 2
    MaxNow = 1
    MaxFaults = 2
    MaxRestarts = 0
PROPERTY
    TerminalReplySettles
