\* A vote is forgotten by a restart and given again in the same term.
SPECIFICATION CrashSpec
CONSTANTS
    n1 = n1
    n2 = n2
    n3 = n3
    v1 = v1
    v2 = v2
    Server = {n1, n2, n3}
    ID <- MCID
    Value = {}
    None = None
    ElectionTimeout = 1
    MaxTerm = 1
    MaxLog = 0
    MaxRestarts = 1
    MaxInFlight = 3
SYMMETRY Symmetry
INVARIANTS
    ElectionSafety
CHECK_DEADLOCK FALSE
