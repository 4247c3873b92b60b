SPECIFICATION Spec
CONSTANTS
    Nil = Nil
    MaxInt = 31
    Second = 2
    Hour = 6
    MinMargin = 2
    MaxMargin = 3
    MaxBackoff = 11
    Default <- SmallDefault
    Values <- SmallValues
    Lifetimes = {1, 2, 3, 17}
    Chunks = {1, 4}
    MaxProduced = 9
INVARIANTS
    TypeOK
    ChoiceInForce
    OutputAccounted
    RetriesWait
    RenewedInTime
