SPECIFICATION FairSpec
CONSTANTS
    c1 = c1
    c2 = c2
    Commands <- TwoCommands
    Debug = TRUE
    Limited = TRUE
    MaxCycles = 1
INVARIANTS
    TypeOK
    CompletedIsGenuine
    ScriptAccounted

    
CHECK_DEADLOCK FALSE
