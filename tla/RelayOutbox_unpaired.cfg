CONSTANTS
    Pollers = {s1}
    Doctors = {}
    Unpairers = {u1}
    Results = {r1}
    None = None
    MaxKills = 0
    MaxOutages = 0
    MaxErrors = 0
    ServiceStopped = FALSE
SPECIFICATION Spec
INVARIANT CredentialOutlivesResult
CHECK_DEADLOCK FALSE
