SPECIFICATION Spec
CONSTANTS
    Children = {"reader", "writer"}
    Calls = {"d1", "d2"}
    ChildOf <- Child
    Resources = {"doc"}
    TargetsOf <- Targets
    Mails = {"m1"}
    RecipientOf <- ToWriter
    Limit = 4
    Cost = 2
    MaxConcurrency = 1
    MaxTurns = 2
    MaxCrashes = 1
INVARIANTS
    TypeOK
    BudgetReserved
    RootIsFreed
    
    MailIsHeard

    
CHECK_DEADLOCK FALSE
