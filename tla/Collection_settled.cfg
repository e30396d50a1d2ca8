CONSTANTS
    r1 = r1
    r2 = r2
    p1 = p1
    p2 = p2
    q1 = q1
    q2 = q2
    f1 = f1
    f2 = f2
    None = None
    Unobserved = Unobserved
    Runs <- TwoRuns
    Companions <- OneCompanion
    Requests <- TwoRequests
    Prints <- TwoPrints
    Count <- TwoThenNone
    PartialPrints <- LastPartial
    Overtaking = FALSE
    MaxFaults = 1
    SourceRuns = 2
    SourceKills = 2
SPECIFICATION MCSpec
CHECK_DEADLOCK FALSE
INVARIANTS
    AckedIsSent
    AccountedOnce
    NotOrphaned
    InterruptedDueAgain
    NothingDurableRetired
PROPERTIES
    EventuallyServed
    EveryRunEnds
