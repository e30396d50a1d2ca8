SPECIFICATION FairSpec
CONSTANTS
    m1 = m1  m2 = m2
    c1 = c1  c2 = c2  t1 = t1
    w1 = w1  w2 = w2
    Messages = {m1, m2}
    Contents = {c1, c2}
    Topics = {t1}
    ContentOf <- SameContent
    TopicOf <- SameTopic
    Workers = {w1, w2}
    HasRaw = {m1, m2}
    Tracked = {m1}
    Legacy = {c1, c2}
    LineageSettings = {TRUE, FALSE}
    MaxFaults = 1
    MaxExpiries = 1
    None = None
    NoRaw = NoRaw
    Orphan = Orphan
INVARIANTS
    StageHonest
    OneStoryPerItem
    ReturnsOnlyComplete
    OriginCountedOnce
    RawOfItemKept
PROPERTY
    Settles
CHECK_DEADLOCK FALSE
