CONSTANTS
    m1 = m1  o1 = o1  o2 = o2  h1 = h1  h2 = h2
    None = None  Dead = Dead
    Mails <- OneMail
    Owners <- TwoOwners
    Deliveries <- TwoDeliveries
    MaxCopies = 3
    MaxFaults = 1
    MaxOutages = 1
SPECIFICATION MCSpec
CHECK_DEADLOCK FALSE
INVARIANTS
    NothingLost
    OneSender
PROPERTIES
    EventuallyIngested
