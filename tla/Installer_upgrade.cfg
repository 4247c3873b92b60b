SPECIFICATION FairSpec
CONSTANTS
    Absent = Absent
    Torn = Torn
    MaxRetries = 1
    MaxCrashes = 1
    MaxCommands = 3
    MaxFaults = 2
INVARIANTS
    TypeOK
    SuccessMeansInstalled
    
PROPERTIES
    CommandEnds
    
    UpdaterKeepsChecking
    SelfUpdateCompletes
CHECK_DEADLOCK FALSE
