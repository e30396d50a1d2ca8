SPECIFICATION MCSpec
CONSTANTS
    m1 = m1  m2 = m2  m3 = m3
    h1 = h1  h2 = h2  h3 = h3  h4 = h4  h5 = h5  h6 = h6
    w1 = w1  w2 = w2
    p1 = p1  p2 = p2
    Messages <- ThreeMessages
    HandoffIds <- SixHandoffs
    Workers <- TwoWorkers
    Producers <- TwoProducers
    MaxAttempts <- ShortLadder
    MaxBatch = 1
    Capacity = 1
    MaxFaults = 3
INVARIANTS
    OneLiveRow
    NoBodyLost
    HandoffEarned
    CapacityOvershootBounded
PROPERTIES
    LeaseFenced
    ImplementsLadder
    EventuallySettled
CHECK_DEADLOCK FALSE
