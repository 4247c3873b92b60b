SPECIFICATION Spec
CONSTANTS
    c1 = c1
    c2 = c2
    p1 = p1
    p2 = p2
    p3 = p3
    None = None
    Monitor = Monitor
    Callers <- TwoCallers
    Handles <- ThreeHandles
    Base = 1
    Limit = 4
    Stable = 2
SYMMETRY Symmetry
INVARIANTS
    TypeOK
    NoProcessAfterKill
    NoOrphan
PROPERTIES
    OwnHandleOnly
    RestartsBackedOff
