CONSTANTS
    p1 = p1  p2 = p2  p3 = p3
    s1 = s1  s2 = s2  s3 = s3  d1 = d1  u1 = u1  r1 = r1  r2 = r2  t1 = t1  t2 = t2
    Processes <- ThreeProcesses
    Pollers = {s1, s2, s3}  Doctors = {d1}  Unpairers = {u1}  Results = {r1, r2}  Pairings = {t1, t2}
    None = None
    MaxContenders = 3
    MaxKills = 2
    MaxWriteErrors = 1
    PidsRecycled = TRUE
    OutboxKills = 2
    OutboxOutages = 2
    OutboxErrors = 1
SPECIFICATION MCSpec
INVARIANTS OneOwner Submittable ReplayedFirst CredentialMatchesPairing
PROPERTIES Recovered EventuallyAcked
CHECK_DEADLOCK FALSE
