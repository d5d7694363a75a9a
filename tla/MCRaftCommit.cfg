\* The leader counts an answer for its whole log: the entry put after the one
\* that is answered is committed although no follower has it.
SPECIFICATION Spec
CONSTANTS
    n1 = n1
    n2 = n2
    n3 = n3
    v1 = v1
    v2 = v2
    Server = {n1, n2, n3}
    ID <- MCID
    Value = {v1, v2}
    None = None
    ElectionTimeout = 1
    MaxTerm = 1
    MaxLog = 2
    MaxInFlight = 3
SYMMETRY Symmetry
INVARIANT CommittedOnMajority
CHECK_DEADLOCK FALSE
