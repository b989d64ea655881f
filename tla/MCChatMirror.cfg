SPECIFICATION Spec
CONSTANTS
    Messages = {"ask", "file"}
    Triggers = {"ask"}
    ContentOf <- SameFile
    Changing = {"file"}
    MaxVersion = 2
    MaxMoves = 2
    MaxStops = 1
INVARIANTS
    
    BlobsPresent
    
PROPERTY
    TombstoneStays
CHECK_DEADLOCK FALSE
