\* Two restarts, each after the end of the process or a failure of the machine:
\* Ids that repeat with the same or another command, Ids of 0, torn metadata,
\* entries that arrive during the replay.
SPECIFICATION Spec
CONSTANTS
    Command = {c1, c2}
    SyncThreshold = 2
    MaxLog = 3
    MaxRecords = 3
    MaxLives = 3
SYMMETRY Symmetry
INVARIANTS
    TypeOK
    MemoryOnFile
    LossBounded
    AppliedInWal
    MetaWithinWal
    ReplaysCommitted
CHECK_DEADLOCK FALSE
