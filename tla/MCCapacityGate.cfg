SPECIFICATION FairSpec
CONSTANTS
    Calls = {"a1", "a2", "b1", "b2", "c1"}
    Lanes = {"a", "b", "c"}
    LaneOf <- Groups
    Limit = 2
INVARIANTS
    TypeOK
    PermitsAccounted
    NoIdlePermit
    QueuesMatchWaiters
    NoLaneServedTwice
PROPERTY
    EveryWaiterServed
