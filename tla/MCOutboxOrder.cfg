SPECIFICATION Spec
CONSTANTS
    Tasks = {"t1"}
    Messages = {1, 2, 3, 4, 5, 6}
    TaskOf <- AllOfOne
    Kind <- AllKinds
    MaxAttempts = 2
    Batch = 2
    MaxNow = 1
    MaxFaults = 1
    MaxRestarts = 1
INVARIANTS
    TypeOK
    
    NoReplyStranded
    RepeatsNeedFaults
PROPERTY
    SentIsFinal
