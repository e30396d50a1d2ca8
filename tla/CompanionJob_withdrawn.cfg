CONSTANTS
    r1 = r1
    r2 = r2
    p1 = p1
    p2 = p2
    q1 = q1
    q2 = q2
    f1 = f1
    f2 = f2
    None = None
    Runs <- OneRun
    Companions <- OneCompanion
    Requests <- TwoRequests
    Prints <- OnePrint
    Count <- TwoThenNone
    PartialPrints <- LastPartial
    Overtaking = FALSE
    MaxFaults = 1
SPECIFICATION Spec
CHECK_DEADLOCK FALSE
INVARIANTS
    RetryableIsUnsent
