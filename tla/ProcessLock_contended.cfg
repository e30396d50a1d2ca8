CONSTANTS
    p1 = p1  p2 = p2  p3 = p3
    Processes <- ThreeProcesses
    None = None
    MaxContenders = 3
    MaxKills = 1
    MaxWriteErrors = 0
    PidsRecycled = FALSE
SPECIFICATION Spec
SYMMETRY Symmetry
INVARIANT OneOwner
