\* Logs of three: two leaders in turn, and side by side, give out several Ids,
\* logs hold an entry twice and one Id under two terms, and Ids and positions
\* drift apart.
SPECIFICATION Spec
CONSTANTS
    n1 = n1
    n2 = n2
    n3 = n3
    v1 = v1
    v2 = v2
    Server = {n1, n2, n3}
    ID <- OddID
    Value = {v1, v2}
    None = None
    ElectionTimeout = 2
    MaxTerm = 2
    MaxLog = 3
    MaxInFlight = 2
SYMMETRY Symmetry
INVARIANTS
    TypeOK
    EntryIdentity
PROPERTY Monotonic
CHECK_DEADLOCK FALSE
