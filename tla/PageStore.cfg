\* Three lives; the first leaf splits when it gets its second key.
SPECIFICATION StoreSpec
CONSTANTS
    Key = {1, 2}
    Value = {v1, v2}
    Large = {v2}
    None = None
    maxLeafNodeCells = 2
    maxInternalNodeCells = 2
    MaxLives = 3
INVARIANT CleanOnDisk
PROPERTY OpensAfterSynced
CHECK_DEADLOCK FALSE
