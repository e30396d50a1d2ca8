CONSTANTS
    r1 = r1
    r2 = r2
    d1 = d1
    d2 = d2
    None = None
    Runs <- TwoRuns
    Size <- OneEach
    PartialRuns <- NoRuns
    Drains <- OneDrain
    BatchMax = 1
    ActiveMax = 2
    MaxFaults = 0
    MaxEscapes = 1
    Scenarios = {"capacity"}
SPECIFICATION MCSpec
CHECK_DEADLOCK FALSE
INVARIANTS
    ExactBodyKept
