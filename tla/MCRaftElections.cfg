\* Elections of two terms with crossing vote requests and late grants, a stale
\* leader beside a new one, fair-lossy links; no client, no symmetry.
SPECIFICATION LiveSpec
CONSTANTS
    n1 = n1
    n2 = n2
    n3 = n3
    v1 = v1
    v2 = v2
    Server = {n1, n2, n3}
    ID <- MCID
    Value = {}
    None = None
    ElectionTimeout = 1
    MaxTerm = 2
    MaxLog = 0
    MaxInFlight = 3
INVARIANTS
    ElectionSafety
PROPERTIES
    VoteOnce
    StaleLeaderStepsDown
    ImplementsElections
CHECK_DEADLOCK FALSE
