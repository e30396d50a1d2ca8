CONSTANTS
    r1 = r1
    r2 = r2
    d1 = d1
    d2 = d2
    None = None
    Runs <- TwoRuns
    Size <- TwoAndOne
    PartialRuns <- Second
    Drains <- TwoDrains
    BatchMax = 1
    ActiveMax = 2
    MaxFaults = 1
    MaxEscapes = 1
    Scenarios = {"handoff", "capacity"}
SPECIFICATION FairMCSpec
CHECK_DEADLOCK FALSE
INVARIANTS
    KeptUntilSettled
    EvidenceKept
PROPERTIES
    ImplementsContract
    ActivatedSettles
