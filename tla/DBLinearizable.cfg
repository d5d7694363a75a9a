\* Two writers on this node, a remote one, a reader, batches of up to two, two
\* entries in a life, the same one or different ones.
SPECIFICATION Spec
CONSTANTS
    LocalPut = {p1, p2}
    RemotePut = {q1}
    Read = {g1}
    MaxBatch = 2
    MaxCommitted = 2
    memberID = 1
    tsSize = 4
    cntSize = 2
    FirstStart = 3
    MaxStart = 4
PROPERTIES
    ImplementsDelivery
    ReadersWoken
    WritersWoken
INVARIANTS
    TypeOK
    AppliedInCommitOrder
    ReadsAckedPuts
    SuccessMeansApplied
CHECK_DEADLOCK FALSE
