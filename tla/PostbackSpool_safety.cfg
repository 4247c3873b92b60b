SPECIFICATION Spec
CONSTANTS
    r1 = r1
    r2 = r2
    r3 = r3
    f1 = f1
    f2 = f2
    None = None
    Results <- ThreeResults
    Answers <- UsualAnswers
    Flushes <- OneFlush
    MaxEntries = 2
    MaxAttempts = 2
    MaxCrashes = 1
    MaxStuck = 1
SYMMETRY Symmetry
INVARIANTS
    TypeOK
    SpoolBounded
    NoPartialEntry
    ResultAccounted
PROPERTIES
    EvictsOldest
