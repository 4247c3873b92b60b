SPECIFICATION FairSpec
CONSTANTS
    r1 = r1
    r2 = r2
    r3 = r3
    f1 = f1
    f2 = f2
    None = None
    Results <- TwoResults
    Answers <- TwoAnswers
    Flushes <- TwoFlushes
    MaxEntries = 1
    MaxAttempts = 1
    MaxCrashes = 0
    MaxStuck = 0
PROPERTIES
    
    SpoolDrains
