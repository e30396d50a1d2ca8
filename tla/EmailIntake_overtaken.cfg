CONSTANTS
    None = None
    Dead = Dead
    Mails = {m1}
    Owners = {o1}
    Deliveries = {h1, h2}
    MaxCopies = 2
    MaxFaults = 1
    MaxOutages = 0
SPECIFICATION Spec
CHECK_DEADLOCK FALSE
INVARIANTS
    ReturnedIsSent
