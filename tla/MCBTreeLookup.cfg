\* Seven keys: the first leaf splits twice below the key its root cell has.
SPECIFICATION Spec
CONSTANTS
    Key = {1, 2, 3, 4, 5, 6, 7}
    Value = {v1}
    None = None
    maxLeafNodeCells = 3
    maxInternalNodeCells = 5
INVARIANT GetsLastPut
CHECK_DEADLOCK FALSE
