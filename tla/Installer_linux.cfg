SPECIFICATION FairSpec
CONSTANTS
    Absent = Absent
    Torn = Torn
    MaxRetries = 1
    MaxCrashes = 0
    MaxCommands = 2
    MaxFaults = 0
PROPERTIES
    SelfUpdateRestarts
CHECK_DEADLOCK FALSE
