\* Restarts with commands in flight.
SPECIFICATION CrashSpec
CONSTANTS
    n1 = n1
    n2 = n2
    n3 = n3
    v1 = v1
    v2 = v2
    Server = {n1, n2, n3}
    ID <- MCID
    Value = {v1, v2}
    None = None
    ElectionTimeout = 1
    MaxTerm = 1
    MaxLog = 3
    MaxRestarts = 1
    MaxInFlight = 3
SYMMETRY Symmetry
INVARIANTS
    NoIndexPanic
CHECK_DEADLOCK FALSE
