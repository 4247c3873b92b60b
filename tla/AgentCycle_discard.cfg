SPECIFICATION Spec
CONSTANTS
    m1 = m1
    m2 = m2
    m3 = m3
    w1 = w1
    w2 = w2
    Messages <- TwoMessages
    Workers <- OneWorker
    QueueSize = 1
    InboundSize = 2
    QoS = 1
    QuiesceBounded = FALSE
    MaxRung = 2
    MaxCycles = 2
INVARIANT
    OnlyDropDiscards
