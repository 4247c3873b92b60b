SPECIFICATION FairSpec
CONSTANTS
    c1 = c1
    c2 = c2
    p1 = p1
    p2 = p2
    p3 = p3
    None = None
    Monitor = Monitor
    Callers <- TwoCallers
    Handles <- ThreeHandles
    Base = 1
    Limit = 1
    Stable = 1
PROPERTIES
    SlowPluginStallsNobody
    PluginRecovered
