CONSTANTS
    None = None
    Attempts = {a1, a2}
    SessionMax = 2
    CallMax = 1
    Intervals = {1, 2}
    MaxWait = 2
    Limits = {1, 3}
    DayLength = 2
    Horizon = 3
    Launches = {1, 2, 3}
    GraphStories = {g1, g2}
    Windows = {1, 2}
    MaxAtOnce = 2
    MaxFaults = 1
    Ops = {1, 2, 3}
    Keys = {k1}
    Contents = {c1}
    MaxErrors = 1
    Stories = {s1}
    Rebuilds = {r1, r2}
    MaxUpdates = 2
    MaxKills = 2
SPECIFICATION MCSpec
INVARIANTS LedgerSound SlotsSpaced OneGraphWriter NoDangling MatchesCurrent
PROPERTIES EventuallyRemembered ConditionStillHolds
CHECK_DEADLOCK FALSE
